---------------------------- MODULE MemoryStore ----------------------------
(***************************************************************************)
(* memory.go: the assistant's wiki on the disk.  Remember saves a finished *)
(* turn in three files: a page of its own, the log and the index.  Between *)
(* two of them the program may die or a system call fail; the caller in    *)
(* main.go then prints a warning and goes on with the next turn.           *)
(*                                                                         *)
(* A turn is named by its number.  A page is named by the second in which  *)
(* it is saved and by the slug of the user's first line, as in the code.   *)
(***************************************************************************)
EXTENDS Naturals, Sequences, SequencesExt

CONSTANTS
  Inputs,      \* what the user may say
  Slug,        \* the slug of each first line, "" for one without ASCII
  NoPage,      \* a name with no page
  CanFail,     \* system calls may fail and the program may die
  TurnBound,   \* bound on the turns
  ClockBound   \* bound on the seconds that pass

ASSUME SlugAssumption == Slug \in [Inputs -> STRING]
ASSUME NoPageAssumption == NoPage \notin Nat
ASSUME CanFailAssumption == CanFail \in BOOLEAN
ASSUME BoundAssumption == TurnBound \in Nat /\ ClockBound \in Nat

Seconds == 0 .. ClockBound
Default == "conversation"
Names == Seconds \X (({Slug[x] : x \in Inputs} \ {""}) \cup {Default})
Turns == 1 .. TurnBound

\* An entry of the log or the index: its link, and the words beside the link.
Entries == [page : Names, input : Inputs]

VARIABLES
  clock,
  pages,     \* the turn a page holds, 0 when it was torn while it was written
  log,       \* sequence of entries, oldest first
  index,     \* sequence of entries, newest first
  pc,        \* where Remember is, or "down" while the program is not running
  turn,      \* the number of the latest turn
  entry,     \* what Remember is saving
  saved,     \* history: the turn of each entry of the log
  faulty     \* history: something has failed, or the program has died

vars == <<clock, pages, log, index, pc, turn, entry, saved, faulty>>

TypeOK ==
  /\ clock \in Seconds
  /\ pages \in [Names -> Turns \cup {0, NoPage}]
  /\ log \in Seq(Entries) /\ index \in Seq(Entries)
  /\ pc \in {"idle", "page", "log", "index", "down"}
  /\ turn \in 0 .. TurnBound
  /\ entry \in Entries
  /\ saved \in Seq(Turns)
  /\ faulty \in BOOLEAN

-----------------------------------------------------------------------------

Init ==
  /\ clock = 0
  /\ pages = [n \in Names |-> NoPage]
  /\ log = <<>> /\ index = <<>> /\ saved = <<>>
  /\ pc = "down" /\ turn = 0 /\ faulty = FALSE
  /\ entry \in Entries

Tick ==
  /\ clock < ClockBound
  /\ clock' = clock + 1
  /\ UNCHANGED <<pages, log, index, pc, turn, entry, saved, faulty>>

EnsuredMutant(content) == <<>>   \* writes the default in any case

\* ensureFile: a file that is there is left alone.
Ensured(content) == content

\* Init of the store when the program starts.
Start ==
  /\ pc = "down"
  /\ log' = Ensured(log) /\ index' = Ensured(index)
  /\ pc' = "idle"
  /\ UNCHANGED <<clock, pages, turn, entry, saved, faulty>>

PageSlug(x) == IF Slug[x] = "" THEN Default ELSE Slug[x]

\* Remember is called with a finished turn.  The name of the page is fixed
\* here; the reply of the assistant goes into the page only.
Remember(x) ==
  /\ pc = "idle" /\ turn < TurnBound
  /\ turn' = turn + 1
  /\ entry' = [page |-> <<clock, PageSlug(x)>>, input |-> x]
  /\ pc' = "page"
  /\ UNCHANGED <<clock, pages, log, index, saved, faulty>>

\* Remember returns an error.
Fails == CanFail /\ faulty' = TRUE /\ pc' = "idle"

WritePageMutant ==   \* its error is not looked at
  /\ pc = "page"
  /\ pc' = "log"
  /\ \/ pages' = [pages EXCEPT ![entry.page] = turn] /\ UNCHANGED faulty
     \/ CanFail /\ faulty' = TRUE /\ UNCHANGED pages
  /\ UNCHANGED <<clock, log, index, turn, entry, saved>>

\* os.WriteFile replaces a page of the same name, and may leave it torn.
WritePage ==
  /\ pc = "page"
  /\ \/ /\ pages' = [pages EXCEPT ![entry.page] = turn]
        /\ pc' = "log" /\ UNCHANGED faulty
     \/ Fails /\ pages' \in {pages, [pages EXCEPT ![entry.page] = 0]}
  /\ UNCHANGED <<clock, log, index, turn, entry, saved>>

\* appendFile; an entry written in part is taken for none.
AppendLog ==
  /\ pc = "log"
  /\ \/ /\ log' = Append(log, entry) /\ saved' = Append(saved, turn)
        /\ pc' = "index" /\ UNCHANGED faulty
     \/ Fails /\ UNCHANGED <<log, saved>>
  /\ UNCHANGED <<clock, pages, index, turn, entry>>

InIndexMutant(content, e) ==   \* looks for the link alone
  \E k \in DOMAIN content : content[k].page = e.page

\* strings.Contains(content, entry)
InIndex(content, e) == \E k \in DOMAIN content : content[k] = e

\* readTextOrEmpty: an error of the read passes for an empty file.
Readable == IF CanFail THEN {index, <<>>} ELSE {index}

\* insertIndexEntry: the whole file is read and, unless the entry is there,
\* written again with the entry in front.  A failed write leaves the file as
\* it was or the beginning of the new content.
InsertIndexEntry ==
  /\ pc = "index"
  /\ \E content \in Readable :
       \/ /\ IF InIndex(content, entry) THEN UNCHANGED index
             ELSE index' = <<entry>> \o content
          /\ pc' = "idle"
          /\ faulty' = (faulty \/ content # index)
       \/ /\ Fails
          /\ ~InIndex(content, entry)
          /\ \/ UNCHANGED index
             \/ \E n \in 0 .. Len(content) + 1 :
                  index' = SubSeq(<<entry>> \o content, 1, n)
  /\ UNCHANGED <<clock, pages, log, turn, entry, saved>>

\* The program ends, or dies in the middle of Remember.
Stop ==
  /\ pc = "idle" \/ (CanFail /\ pc \in {"page", "log", "index"})
  /\ faulty' = (faulty \/ pc # "idle")
  /\ pc' = "down"
  /\ UNCHANGED <<clock, pages, log, index, turn, entry, saved>>

Next ==
  \/ Tick \/ Start \/ WritePage \/ AppendLog \/ InsertIndexEntry \/ Stop
  \/ \E x \in Inputs : Remember(x)

Spec == Init /\ [][Next]_vars

-----------------------------------------------------------------------------
(* Properties                                                              *)

\* Whatever fails and wherever the program dies: every entry of the log links
\* to a page that is there, and every entry of the index is in the log.
NoDanglingLinks ==
  /\ \A k \in DOMAIN log : pages[log[k].page] # NoPage
  /\ \A k \in DOMAIN index : \E j \in DOMAIN log : log[j] = index[k]

\* MEMORY.md: the log is append-only, across restarts and failures.
LogIsHistory == [][IsPrefix(log, log')]_log

\* While nothing has failed, every turn in the log can be found by the index,
\* once, also when turns share a page or were said twice.
TurnsIndexed ==
  ~faulty /\ pc = "idle" =>
    \A j \in DOMAIN log :
      \E k \in DOMAIN index :
        /\ index[k] = log[j]
        /\ \A l \in DOMAIN index : index[l] = log[j] => l = k

\* MEMORY.md:10 has every turn saved as a page: what the log says was saved
\* is still what the page it links to holds.
SavedTurnsStay ==
  \A k \in DOMAIN log : pages[log[k].page] = saved[k]
=============================================================================
