------------------------- MODULE MemoryStoreProofs -------------------------
(***************************************************************************)
(* Theorems about MemoryStore: whatever fails, wherever the program dies   *)
(* and however many turns share a name, the log only grows and neither it  *)
(* nor the index ever names something that is not there.                   *)
(***************************************************************************)
EXTENDS MemoryStore, TLAPS, SequenceTheorems

\* A page and an entry of the log are there as soon as Remember goes on.
Pending ==
  /\ pc \in {"page", "log", "index"} => turn \in Turns
  /\ pc \in {"log", "index"} => pages[entry.page] # NoPage
  /\ pc = "index" => Len(log) \in DOMAIN log /\ log[Len(log)] = entry

IInv == TypeOK /\ NoDanglingLinks /\ Pending

USE SlugAssumption, NoPageAssumption, CanFailAssumption, BoundAssumption

-----------------------------------------------------------------------------

\* An entry that Remember makes is well formed, with the fallback of
\* memory.go:93-96 for a first line that leaves no slug.
LEMMA EntryMade ==
  ASSUME TypeOK, NEW x \in Inputs
  PROVE  [page |-> <<clock, PageSlug(x)>>, input |-> x] \in Entries
  BY DEF TypeOK, PageSlug, Entries, Names

\* What a failed or a complete write of the index leaves is a sequence of
\* entries, each the new one or one that was read (memory.go:158-159).
LEMMA FrontInserted ==
  ASSUME NEW e \in Entries, NEW content \in Seq(Entries),
         NEW n \in 0 .. Len(content) + 1
  PROVE  LET new == SubSeq(<<e>> \o content, 1, n)
         IN  /\ new \in Seq(Entries)
             /\ \A k \in DOMAIN new :
                  new[k] = e \/ \E j \in DOMAIN content : new[k] = content[j]
<1>1. /\ <<e>> \o content \in Seq(Entries)
      /\ Len(<<e>> \o content) = Len(content) + 1
      /\ \A k \in 1 .. Len(content) + 1 :
           (<<e>> \o content)[k] = IF k = 1 THEN e ELSE content[k - 1]
  OBVIOUS
<1>2. SubSeq(<<e>> \o content, 1, n) \in Seq(Entries)
  BY <1>1
<1>3. /\ DOMAIN SubSeq(<<e>> \o content, 1, n) = 1 .. n
      /\ \A k \in 1 .. n :
           SubSeq(<<e>> \o content, 1, n)[k] = (<<e>> \o content)[k]
  BY <1>1
<1>4. ASSUME NEW k \in 1 .. n, k # 1
      PROVE  k - 1 \in DOMAIN content
  <2>1. DOMAIN content = 1 .. Len(content) /\ Len(content) \in Nat
    BY LenProperties
  <2> QED  BY <1>4, <2>1
<1> QED  BY <1>1, <1>2, <1>3, <1>4

\* The whole of it is the case of a write that succeeds.
LEMMA FrontWhole ==
  ASSUME NEW e \in Entries, NEW content \in Seq(Entries)
  PROVE  /\ Len(content) + 1 \in 0 .. Len(content) + 1
         /\ <<e>> \o content = SubSeq(<<e>> \o content, 1, Len(content) + 1)
  OBVIOUS

-----------------------------------------------------------------------------

\* The invariant holds when the program is first started.
LEMMA InitIInv == Init => IInv
<1> SUFFICES ASSUME Init PROVE IInv
  OBVIOUS
<1>1. /\ clock \in Seconds /\ turn \in 0 .. TurnBound
      /\ pages \in [Names -> Turns \cup {0, NoPage}]
  BY DEF Init, Seconds
<1>2. /\ log \in Seq(Entries) /\ index \in Seq(Entries) /\ saved \in Seq(Turns)
      /\ DOMAIN log = {} /\ DOMAIN index = {}
  BY DEF Init
<1>3. TypeOK
  BY <1>1, <1>2 DEF Init, TypeOK
<1>4. NoDanglingLinks /\ Pending
  BY <1>2 DEF Init, NoDanglingLinks, Pending
<1> QED  BY <1>3, <1>4 DEF IInv

\* Every step of Remember, every failure and every restart preserves it.
LEMMA NextIInv == IInv /\ [Next]_vars => IInv'
<1> SUFFICES ASSUME IInv, [Next]_vars PROVE IInv'
  OBVIOUS
<1> USE DEF IInv
<1>1. CASE Tick
  BY <1>1 DEF Tick, TypeOK, NoDanglingLinks, Pending, Seconds
<1>2. CASE Start
  BY <1>2 DEF Start, Ensured, TypeOK, NoDanglingLinks, Pending
<1>3. ASSUME NEW x \in Inputs, Remember(x) PROVE IInv'
  <2>1. entry' \in Entries
    BY <1>3, EntryMade DEF Remember
  <2>2. TypeOK'
    BY <1>3, <2>1 DEF Remember, TypeOK
  <2>3. NoDanglingLinks' /\ Pending'
    BY <1>3 DEF Remember, TypeOK, Turns, NoDanglingLinks, Pending
  <2> QED  BY <2>2, <2>3
<1>4. CASE WritePage
  <2>1. /\ entry.page \in Names
        /\ pc = "page"
        /\ UNCHANGED <<clock, log, index, turn, entry, saved>>
        /\ pc' \in {"idle", "log"}
    BY <1>4 DEF WritePage, Fails, TypeOK, Entries
  <2>2. turn \in Turns \/ turn = 0
    BY DEF TypeOK, Turns
  <2>3. \/ pages' = [pages EXCEPT ![entry.page] = turn]
        \/ pages' = [pages EXCEPT ![entry.page] = 0]
        \/ pages' = pages /\ pc' = "idle"
    BY <1>4 DEF WritePage, Fails
  <2>4. turn # NoPage /\ 0 # NoPage
    BY DEF TypeOK
  <2>5. TypeOK'
    <3>1. pages' \in [Names -> Turns \cup {0, NoPage}]
      BY <2>2, <2>3 DEF TypeOK
    <3>2. faulty' \in BOOLEAN
      BY <1>4 DEF WritePage, Fails, TypeOK
    <3> QED  BY <2>1, <3>1, <3>2 DEF TypeOK
  <2>6. \A n \in Names : pages[n] # NoPage => pages'[n] # NoPage
    BY <2>1, <2>3, <2>4 DEF TypeOK
  <2>7. \A k \in DOMAIN log : log[k].page \in Names
    <3>1. \A k \in DOMAIN log : log[k] \in Entries
      BY ElementOfSeq, LenProperties DEF TypeOK
    <3> QED  BY <3>1 DEF Entries
  <2>8. NoDanglingLinks'
    BY <2>1, <2>6, <2>7 DEF NoDanglingLinks
  <2>9. pc' = "log" => pages'[entry.page] # NoPage
    BY <2>1, <2>3, <2>4 DEF TypeOK
  <2>10. Pending'
    BY <2>1, <2>9 DEF Pending
  <2> QED  BY <2>5, <2>8, <2>10
<1>5. CASE AppendLog
  <2>1. CASE Fails /\ UNCHANGED <<log, saved>>
    BY <1>5, <2>1 DEF AppendLog, Fails, TypeOK, NoDanglingLinks, Pending
  <2>2. CASE /\ log' = Append(log, entry) /\ saved' = Append(saved, turn)
             /\ pc' = "index" /\ UNCHANGED faulty
    <3>1. /\ pc = "log"
          /\ UNCHANGED <<clock, pages, index, turn, entry>>
      BY <1>5 DEF AppendLog
    <3>2. entry \in Entries /\ turn \in Turns /\ log \in Seq(Entries)
      BY <3>1 DEF Pending, TypeOK
    <3>3. /\ log' \in Seq(Entries)
          /\ Len(log') = Len(log) + 1
          /\ \A k \in 1 .. Len(log) : log'[k] = log[k]
          /\ log'[Len(log) + 1] = entry
      BY <2>2, <3>2, AppendProperties
    <3>4. /\ DOMAIN log = 1 .. Len(log) /\ Len(log) \in Nat
          /\ DOMAIN log' = 1 .. Len(log) + 1
      BY <3>2, <3>3, LenProperties
    <3>5. TypeOK'
      <4>1. saved' \in Seq(Turns)
        BY <2>2, <3>2, AppendProperties DEF TypeOK
      <4> QED  BY <2>2, <3>1, <3>3, <4>1 DEF TypeOK
    <3>6. \A k \in DOMAIN log' : pages'[log'[k].page] # NoPage
      BY <3>1, <3>3, <3>4 DEF NoDanglingLinks, Pending
    <3>7. \A k \in DOMAIN index : \E j \in DOMAIN log' : log'[j] = index[k]
      BY <3>3, <3>4 DEF NoDanglingLinks
    <3>8. Pending'
      <4>1. Len(log') \in DOMAIN log'
        BY <3>3, <3>4
      <4> QED  BY <2>2, <3>1, <3>2, <3>3, <4>1 DEF Pending
    <3> QED  BY <3>1, <3>5, <3>6, <3>7, <3>8 DEF NoDanglingLinks
  <2> QED  BY <1>5, <2>1, <2>2 DEF AppendLog
<1>6. CASE InsertIndexEntry
  <2>1. /\ pc = "index" /\ pc' = "idle"
        /\ UNCHANGED <<clock, pages, log, turn, entry, saved>>
    BY <1>6 DEF InsertIndexEntry, Fails
  <2>2. faulty' \in BOOLEAN
    BY <1>6 DEF InsertIndexEntry, Fails, TypeOK
  <2>3. PICK content \in Readable :
          \/ UNCHANGED index
          \/ index' = <<entry>> \o content
          \/ \E n \in 0 .. Len(content) + 1 :
               index' = SubSeq(<<entry>> \o content, 1, n)
    BY <1>6 DEF InsertIndexEntry
  <2>4. /\ content \in Seq(Entries)
        /\ \A j \in DOMAIN content : content[j] = index[j] /\ j \in DOMAIN index
    <3>1. CASE content = index
      BY <3>1 DEF TypeOK
    <3>2. CASE content = <<>>
      BY <3>2
    <3> QED  BY <3>1, <3>2 DEF Readable
  <2>5. entry \in Entries
    BY DEF TypeOK
  <2>6. /\ index' \in Seq(Entries)
        /\ \/ UNCHANGED index
           \/ \A k \in DOMAIN index' :
                index'[k] = entry \/ \E j \in DOMAIN content : index'[k] = content[j]
    <3>1. CASE UNCHANGED index
      BY <3>1 DEF TypeOK
    <3>2. CASE index' = <<entry>> \o content
      BY <2>4, <2>5, <3>2, FrontInserted, FrontWhole
    <3>3. ASSUME NEW n \in 0 .. Len(content) + 1,
                 index' = SubSeq(<<entry>> \o content, 1, n)
          PROVE  /\ index' \in Seq(Entries)
                 /\ \A k \in DOMAIN index' :
                      \/ index'[k] = entry
                      \/ \E j \in DOMAIN content : index'[k] = content[j]
      BY <2>4, <2>5, <3>3, FrontInserted
    <3> QED  BY <2>3, <3>1, <3>2, <3>3
  <2>7. TypeOK'
    BY <2>1, <2>2, <2>6 DEF TypeOK
  <2>8. \A k \in DOMAIN index' : \E j \in DOMAIN log : log[j] = index'[k]
    BY <2>1, <2>4, <2>6 DEF NoDanglingLinks, Pending
  <2>9. NoDanglingLinks'
    BY <2>1, <2>8 DEF NoDanglingLinks
  <2> QED  BY <2>1, <2>7, <2>9 DEF Pending
<1>7. CASE Stop
  BY <1>7 DEF Stop, TypeOK, NoDanglingLinks, Pending
<1>8. CASE UNCHANGED vars
  BY <1>8 DEF vars, TypeOK, NoDanglingLinks, Pending
<1> QED
  BY <1>1, <1>2, <1>3, <1>4, <1>5, <1>6, <1>7, <1>8 DEF Next

-----------------------------------------------------------------------------

\* The inductive invariant holds in every reachable state.
LEMMA Invariance == Spec => []IInv
  BY InitIInv, NextIInv, PTL DEF Spec

\* Every variable keeps its type: every name Remember makes is a page name.
THEOREM TypeCorrect == Spec => []TypeOK
  BY Invariance, PTL DEF IInv

\* No failure, restart or collision of names leaves a link to nothing, in
\* the log or, by the order of the three writes of Remember, in the index.
THEOREM LinksHold == Spec => []NoDanglingLinks
  BY Invariance, PTL DEF IInv

\* The log is append-only, whatever happens to the program.
THEOREM LogOnlyGrows == Spec => LogIsHistory
<1>1. IInv /\ [Next]_vars => [IsPrefix(log, log')]_log
  <2> SUFFICES ASSUME IInv, [Next]_vars, log' # log
               PROVE  IsPrefix(log, log')
    OBVIOUS
  <2>1. log' = Append(log, entry)
    BY DEF Next, vars, Tick, Start, Ensured, Remember, WritePage, AppendLog,
           InsertIndexEntry, Stop
  <2>2. log \in Seq(Entries) /\ entry \in Entries
    BY DEF IInv, TypeOK
  <2>3. /\ Len(log') = Len(log) + 1 /\ Len(log) \in Nat
        /\ log' \in Seq(Entries)
        /\ \A k \in 1 .. Len(log) : log'[k] = log[k]
    BY <2>1, <2>2, AppendProperties, LenProperties
  <2>4. SubSeq(log, 1, Len(log)) = SubSeq(log', 1, Len(log))
    BY <2>2, <2>3
  <2> QED  BY <2>3, <2>4 DEF IsPrefix
<1> QED  BY <1>1, Invariance, PTL DEF Spec, LogIsHistory

-----------------------------------------------------------------------------
(* Why the index misses nothing while nothing fails.  No entry is in it     *)
(* twice, whatever fails; and an entry of the log that is not in it is the  *)
(* one that Remember is about to insert.                                    *)

NoDoubles == \A k, l \in DOMAIN index : index[k] = index[l] => k = l

Indexed ==
  /\ NoDoubles
  /\ ~faulty =>
       \A j \in DOMAIN log :
         \/ pc = "index" /\ log[j] = entry
         \/ \E k \in DOMAIN index : index[k] = log[j]

\* An entry put in front of others that do not have it doubles nothing, also
\* when the file is cut after any entry (memory.go:154-159).
LEMMA FrontDoublesNothing ==
  ASSUME NEW e \in Entries, NEW content \in Seq(Entries),
         NEW n \in 0 .. Len(content) + 1,
         \A k \in DOMAIN content : content[k] # e,
         \A k, l \in DOMAIN content : content[k] = content[l] => k = l
  PROVE  LET new == SubSeq(<<e>> \o content, 1, n)
         IN  \A k, l \in DOMAIN new : new[k] = new[l] => k = l
<1> DEFINE new == SubSeq(<<e>> \o content, 1, n)
<1>1. /\ <<e>> \o content \in Seq(Entries)
      /\ Len(<<e>> \o content) = Len(content) + 1
      /\ \A k \in 1 .. Len(content) + 1 :
           (<<e>> \o content)[k] = IF k = 1 THEN e ELSE content[k - 1]
  OBVIOUS
<1>2. /\ DOMAIN new = 1 .. n
      /\ \A k \in 1 .. n : new[k] = IF k = 1 THEN e ELSE content[k - 1]
  BY <1>1
<1>3. DOMAIN content = 1 .. Len(content) /\ Len(content) \in Nat
  BY LenProperties
<1>4. SUFFICES ASSUME NEW k \in DOMAIN new, NEW l \in DOMAIN new,
                      new[k] = new[l]
               PROVE  k = l
  OBVIOUS
<1> HIDE DEF new
<1>5. /\ k # 1 => k - 1 \in DOMAIN content /\ new[k] = content[k - 1]
      /\ l # 1 => l - 1 \in DOMAIN content /\ new[l] = content[l - 1]
      /\ k = 1 => new[k] = e
      /\ l = 1 => new[l] = e
  BY <1>2, <1>3
<1>6. k # 1 /\ l # 1 => k - 1 = l - 1
  BY <1>4, <1>5
<1>7. k = 1 <=> l = 1
  BY <1>4, <1>5
<1> QED  BY <1>2, <1>6, <1>7

\* Nothing is in the index when the program is first started.
LEMMA InitIndexed == Init => Indexed
  BY DEF Init, Indexed, NoDoubles

\* What is inserted was missing, and what was missing is inserted.
LEMMA InsertIndexed ==
  ASSUME IInv, Indexed, InsertIndexEntry
  PROVE  Indexed'
<1>1. /\ pc = "index" /\ pc' = "idle"
      /\ UNCHANGED <<log, entry>>
      /\ entry \in Entries /\ index \in Seq(Entries)
  BY DEF InsertIndexEntry, Fails, IInv, TypeOK
<1>2. PICK content \in Readable :
        \/ /\ IF InIndex(content, entry) THEN UNCHANGED index
              ELSE index' = <<entry>> \o content
           /\ faulty' = (faulty \/ content # index)
        \/ /\ faulty' = TRUE
           /\ ~InIndex(content, entry)
           /\ \/ UNCHANGED index
              \/ \E n \in 0 .. Len(content) + 1 :
                   index' = SubSeq(<<entry>> \o content, 1, n)
  BY DEF InsertIndexEntry, Fails
<1>3. /\ content \in Seq(Entries)
      /\ \A k, l \in DOMAIN content : content[k] = content[l] => k = l
  <2>1. CASE content = index
    BY <1>1, <2>1 DEF Indexed, NoDoubles
  <2>2. CASE content = <<>>
    BY <2>2
  <2> QED  BY <2>1, <2>2 DEF Readable
<1>4. NoDoubles'
  <2>1. CASE UNCHANGED index
    BY <2>1 DEF Indexed, NoDoubles
  <2>2. ASSUME ~InIndex(content, entry), NEW n \in 0 .. Len(content) + 1,
               index' = SubSeq(<<entry>> \o content, 1, n)
        PROVE  NoDoubles'
    <3>1. \A k \in DOMAIN content : content[k] # entry
      BY <2>2 DEF InIndex
    <3> QED  BY <1>1, <1>3, <2>2, <3>1, FrontDoublesNothing DEF NoDoubles
  <2>3. CASE ~InIndex(content, entry) /\ index' = <<entry>> \o content
    BY <1>1, <1>3, <2>2, <2>3, FrontWhole
  <2> QED  BY <1>2, <2>1, <2>2, <2>3
<1>5. ASSUME ~faulty', NEW j \in DOMAIN log
      PROVE  \E k \in DOMAIN index' : index'[k] = log[j]
  <2>1. /\ ~faulty /\ content = index
        /\ IF InIndex(index, entry) THEN index' = index
           ELSE index' = <<entry>> \o index
    BY <1>2, <1>5
  <2>2. log[j] = entry \/ \E k \in DOMAIN index : index[k] = log[j]
    BY <2>1 DEF Indexed
  <2>3. CASE InIndex(index, entry)
    BY <2>1, <2>2, <2>3 DEF InIndex
  <2>4. CASE ~InIndex(index, entry)
    <3>1. index' = <<entry>> \o index
      BY <2>1, <2>4
    <3>2. /\ DOMAIN index = 1 .. Len(index) /\ Len(index) \in Nat
          /\ DOMAIN index' = 1 .. Len(index) + 1
          /\ index'[1] = entry
          /\ \A k \in 1 .. Len(index) : index'[k + 1] = index[k]
      BY <1>1, <3>1, LenProperties
    <3>3. 1 \in DOMAIN index' /\ \A k \in DOMAIN index : k + 1 \in DOMAIN index'
      BY <3>2
    <3> QED  BY <2>2, <3>2, <3>3
  <2> QED  BY <2>3, <2>4
<1> QED  BY <1>1, <1>4, <1>5 DEF Indexed

\* The other steps leave the index alone; the one that appends to the log
\* leads to the insertion, and a failure or a crash on the way is recorded.
LEMMA NextIndexed == IInv /\ Indexed /\ [Next]_vars => Indexed'
<1> SUFFICES ASSUME IInv, Indexed, [Next]_vars PROVE Indexed'
  OBVIOUS
<1>1. CASE Tick \/ Start
  BY <1>1 DEF Tick, Start, Ensured, Indexed, NoDoubles
<1>2. ASSUME NEW x \in Inputs, Remember(x) PROVE Indexed'
  BY <1>2 DEF Remember, Indexed, NoDoubles
<1>3. CASE WritePage
  BY <1>3 DEF WritePage, Fails, Indexed, NoDoubles
<1>4. CASE AppendLog
  <2>1. /\ pc = "log" /\ UNCHANGED <<index, entry>>
        /\ log \in Seq(Entries) /\ entry \in Entries
    BY <1>4 DEF AppendLog, IInv, TypeOK
  <2>2. CASE Fails
    BY <2>1, <2>2 DEF Fails, Indexed, NoDoubles
  <2>3. CASE log' = Append(log, entry) /\ pc' = "index" /\ UNCHANGED faulty
    <3>1. /\ DOMAIN log = 1 .. Len(log) /\ Len(log) \in Nat
          /\ DOMAIN log' = 1 .. Len(log) + 1
          /\ \A j \in 1 .. Len(log) : log'[j] = log[j]
          /\ log'[Len(log) + 1] = entry
      BY <2>1, <2>3, AppendProperties, LenProperties
    <3>2. \A j \in DOMAIN log' : j \in DOMAIN log \/ log'[j] = entry
      BY <3>1
    <3> QED  BY <2>1, <2>3, <3>1, <3>2 DEF Indexed, NoDoubles
  <2> QED  BY <1>4, <2>2, <2>3 DEF AppendLog
<1>5. CASE InsertIndexEntry
  BY <1>5, InsertIndexed
<1>6. CASE Stop
  BY <1>6 DEF Stop, Indexed, NoDoubles
<1>7. CASE UNCHANGED vars
  BY <1>7 DEF vars, Indexed, NoDoubles
<1> QED
  BY <1>1, <1>2, <1>3, <1>4, <1>5, <1>6, <1>7 DEF Next

\* While nothing has failed, every entry of the log is found in the index,
\* once, however many turns share a second, a slug or both.
THEOREM IndexMissesNothing == Spec => []TurnsIndexed
<1>1. Indexed => TurnsIndexed
  BY DEF Indexed, NoDoubles, TurnsIndexed
<1> QED
  BY <1>1, InitIndexed, NextIndexed, Invariance, PTL DEF Spec
-----------------------------------------------------------------------------
(* Where in the index an entry of the log is found.  New entries are put in *)
(* front, so that the entry of the j-th turn is one of the last j, and the  *)
(* index is not longer than the log.                                        *)

Ordered ==
  ~faulty =>
    /\ Len(index) <= Len(log)
    /\ pc = "index" => Len(index) < Len(log)
    /\ \A j \in DOMAIN log :
         \/ pc = "index" /\ j = Len(log)
         \/ \E k \in DOMAIN index :
              index[k] = log[j] /\ Len(index) - k < j

\* The files are empty when the program is first started.
LEMMA InitOrdered == Init => Ordered
  BY DEF Init, Ordered

\* The entry that is inserted is the first of the index, or was there before,
\* and what is behind it keeps its distance from the end (memory.go:154-159).
LEMMA InsertOrdered ==
  ASSUME IInv, Ordered, InsertIndexEntry
  PROVE  Ordered'
<1> SUFFICES ASSUME ~faulty' PROVE Ordered'
  BY DEF Ordered
<1>1. /\ pc = "index" /\ pc' = "idle"
      /\ UNCHANGED <<log, entry>>
      /\ entry \in Entries /\ index \in Seq(Entries) /\ log \in Seq(Entries)
  BY DEF InsertIndexEntry, Fails, IInv, TypeOK
<1>2. /\ ~faulty
      /\ IF InIndex(index, entry) THEN index' = index
         ELSE index' = <<entry>> \o index
  BY DEF InsertIndexEntry, Fails
<1>3. /\ DOMAIN index = 1 .. Len(index) /\ Len(index) \in Nat
      /\ DOMAIN log = 1 .. Len(log) /\ Len(log) \in Nat
      /\ Len(index) < Len(log)
  BY <1>1, <1>2, LenProperties DEF Ordered
<1>4. log[Len(log)] = entry
  BY <1>1 DEF IInv, Pending
<1>5. CASE InIndex(index, entry)
  <2>1. PICK k \in DOMAIN index : index[k] = entry
    BY <1>5 DEF InIndex
  <2>2. Len(index) - k < Len(log)
    BY <1>3, <2>1
  <2> QED  BY <1>1, <1>2, <1>3, <1>4, <1>5, <2>1, <2>2 DEF Ordered
<1>6. CASE ~InIndex(index, entry)
  <2>1. index' = <<entry>> \o index
    BY <1>2, <1>6
  <2>2. /\ Len(index') = Len(index) + 1
        /\ DOMAIN index' = 1 .. Len(index) + 1
        /\ index'[1] = entry
        /\ \A k \in 1 .. Len(index) : index'[k + 1] = index[k]
    BY <1>1, <2>1, LenProperties
  <2>3. 1 \in DOMAIN index' /\ Len(index') - 1 < Len(log)
    BY <1>3, <2>2
  <2>4. ASSUME NEW k \in DOMAIN index
        PROVE  /\ k + 1 \in DOMAIN index'
               /\ Len(index') - (k + 1) = Len(index) - k
    BY <1>3, <2>2
  <2>5. ASSUME NEW j \in DOMAIN log
        PROVE  \E k \in DOMAIN index' :
                 index'[k] = log[j] /\ Len(index') - k < j
    <3>1. CASE j = Len(log)
      BY <1>4, <2>2, <2>3, <3>1
    <3>2. CASE j # Len(log)
      <4>1. PICK k \in DOMAIN index :
              index[k] = log[j] /\ Len(index) - k < j
        BY <1>2, <3>2 DEF Ordered
      <4> QED  BY <1>3, <2>2, <2>4, <4>1
    <3> QED  BY <3>1, <3>2
  <2> QED  BY <1>1, <1>3, <2>2, <2>5 DEF Ordered
<1> QED  BY <1>5, <1>6

\* The log has no entry more than the index but the one to be inserted.
LEMMA NextOrdered == IInv /\ Ordered /\ [Next]_vars => Ordered'
<1> SUFFICES ASSUME IInv, Ordered, [Next]_vars PROVE Ordered'
  OBVIOUS
<1>1. CASE Tick \/ Start
  BY <1>1 DEF Tick, Start, Ensured, Ordered
<1>2. ASSUME NEW x \in Inputs, Remember(x) PROVE Ordered'
  BY <1>2 DEF Remember, Ordered
<1>3. CASE WritePage
  BY <1>3 DEF WritePage, Fails, Ordered
<1>4. CASE AppendLog
  <2>1. /\ pc = "log" /\ UNCHANGED <<index, entry>>
        /\ log \in Seq(Entries) /\ entry \in Entries /\ index \in Seq(Entries)
    BY <1>4 DEF AppendLog, IInv, TypeOK
  <2>2. CASE Fails
    BY <2>2 DEF Fails, Ordered
  <2>3. CASE log' = Append(log, entry) /\ pc' = "index" /\ UNCHANGED faulty
    <3>1. /\ DOMAIN log = 1 .. Len(log) /\ Len(log) \in Nat
          /\ DOMAIN log' = 1 .. Len(log) + 1 /\ Len(log') = Len(log) + 1
          /\ \A j \in 1 .. Len(log) : log'[j] = log[j]
          /\ Len(index) \in Nat
      BY <2>1, <2>3, AppendProperties, LenProperties
    <3>2. \A j \in DOMAIN log' : j \in DOMAIN log \/ j = Len(log')
      BY <3>1
    <3> QED  BY <2>1, <2>3, <3>1, <3>2 DEF Ordered
  <2> QED  BY <1>4, <2>2, <2>3 DEF AppendLog
<1>5. CASE InsertIndexEntry
  BY <1>5, InsertOrdered
<1>6. CASE Stop
  BY <1>6 DEF Stop, Ordered
<1>7. CASE UNCHANGED vars
  BY <1>7 DEF vars, Ordered
<1> QED
  BY <1>1, <1>2, <1>3, <1>4, <1>5, <1>6, <1>7 DEF Next

\* The order of the index holds in every reachable state.
LEMMA OrderKept == Spec => [](TypeOK /\ Ordered)
  BY InitOrdered, NextOrdered, Invariance, PTL DEF Spec, IInv

-----------------------------------------------------------------------------
(* What the log tells.  It has the turns in the order they were taken, each *)
(* beside the second it was saved in, and while nothing fails all of them.  *)

\* Two entries of the log are in the order of their turns and their seconds.
LogTellsOrder ==
  /\ Len(saved) = Len(log)
  /\ \A j, k \in DOMAIN log : j < k =>
       saved[j] < saved[k] /\ log[j].page[1] <= log[k].page[1]

\* MEMORY.md:10: between two turns, every one of them is in the log, if no
\* call failed and the program never died in the middle of one.
EveryTurnFiled ==
  ~faulty /\ pc \in {"idle", "down"} =>
    Len(log) = turn /\ \A k \in DOMAIN log : saved[k] = k

\* The turn being saved comes after all that are in the log.
Filing ==
  /\ LogTellsOrder
  /\ \A k \in DOMAIN log : saved[k] <= turn /\ log[k].page[1] <= clock
  /\ pc \in {"page", "log"} =>
       \A k \in DOMAIN log :
         saved[k] < turn /\ log[k].page[1] <= entry.page[1]
  /\ pc \in {"page", "log", "index"} => entry.page[1] <= clock
  /\ ~faulty =>
       /\ Len(log) = IF pc \in {"page", "log"} THEN turn - 1 ELSE turn
       /\ \A k \in DOMAIN log : saved[k] = k

\* What is known of the sequences, for the steps that read or append.
LEMMA FilingTypes ==
  ASSUME IInv, Filing
  PROVE  /\ clock \in Nat /\ turn \in Nat /\ entry.page[1] \in Nat
         /\ log \in Seq(Entries) /\ saved \in Seq(Turns) /\ entry \in Entries
         /\ Len(log) \in Nat /\ DOMAIN log = 1 .. Len(log)
         /\ \A k \in DOMAIN log :
              saved[k] \in Nat /\ log[k] \in Entries
                /\ log[k].page \in Names /\ log[k].page[1] \in Nat
<1>1. /\ clock \in Nat /\ turn \in Nat /\ entry \in Entries
      /\ log \in Seq(Entries) /\ saved \in Seq(Turns)
  BY DEF IInv, TypeOK, Seconds
<1>2. ASSUME NEW e \in Entries PROVE e.page \in Names /\ e.page[1] \in Nat
  <2>1. e.page \in Names
    BY DEF Entries
  <2>2. \A n \in Names : n[1] \in Seconds
    BY DEF Names
  <2>. QED
    BY <2>1, <2>2 DEF Seconds
<1>3. /\ Len(log) \in Nat /\ DOMAIN log = 1 .. Len(log)
      /\ DOMAIN saved = DOMAIN log
  BY <1>1, LenProperties DEF Filing, LogTellsOrder
<1>4. \A k \in DOMAIN log : saved[k] \in Turns /\ log[k] \in Entries
  BY <1>1, <1>3, ElementOfSeq
<1>. QED
  BY <1>1, <1>2, <1>3, <1>4 DEF Turns

\* The entry that is appended is the last, and those before it stay.
LEMMA Appended ==
  ASSUME IInv, Filing, log' = Append(log, entry), saved' = Append(saved, turn),
         pc = "log"
  PROVE  /\ Len(log') = Len(log) + 1 /\ Len(saved') = Len(log')
         /\ DOMAIN log' = 1 .. Len(log) + 1
         /\ log'[Len(log) + 1] = entry /\ saved'[Len(log) + 1] = turn
         /\ \A k \in DOMAIN log : log'[k] = log[k] /\ saved'[k] = saved[k]
<1>1. turn \in Turns
  BY DEF IInv, Pending
<1>2. Len(saved) = Len(log)
  BY DEF Filing, LogTellsOrder
<1>. QED
  BY <1>1, <1>2, FilingTypes, AppendProperties, LenProperties

LEMMA FilingStep == IInv /\ Filing /\ [Next]_vars => Filing'
<1>. SUFFICES ASSUME IInv, Filing, [Next]_vars PROVE Filing'
  OBVIOUS
<1>1. CASE Tick
  BY <1>1, FilingTypes DEF Tick, Filing, LogTellsOrder
<1>2. CASE Start
  BY <1>2 DEF Start, Ensured, Filing, LogTellsOrder
<1>3. ASSUME NEW x \in Inputs, Remember(x) PROVE Filing'
  <2>1. entry'.page[1] = clock
    BY <1>3 DEF Remember
  <2>. QED
    BY <1>3, <2>1, FilingTypes DEF Remember, Filing, LogTellsOrder
<1>4. CASE WritePage
  BY <1>4 DEF WritePage, Fails, Filing, LogTellsOrder
<1>5. CASE AppendLog
  <2>1. CASE Fails /\ UNCHANGED <<log, saved>>
    BY <1>5, <2>1 DEF AppendLog, Fails, Filing, LogTellsOrder
  <2>2. CASE /\ log' = Append(log, entry) /\ saved' = Append(saved, turn)
             /\ pc' = "index" /\ UNCHANGED faulty
    <3>1. pc = "log" /\ UNCHANGED <<clock, turn, entry>>
      BY <1>5 DEF AppendLog
    <3>2. \A k \in DOMAIN log' : k \in DOMAIN log \/ k = Len(log) + 1
      BY <2>2, <3>1, Appended, FilingTypes
    <3>3. LogTellsOrder'
      BY <2>2, <3>1, <3>2, Appended, FilingTypes DEF Filing, LogTellsOrder
    <3>4. \A k \in DOMAIN log' : saved'[k] <= turn /\ log'[k].page[1] <= clock
      BY <2>2, <3>1, <3>2, Appended, FilingTypes DEF Filing
    <3>5. ~faulty' => /\ Len(log') = turn
                      /\ \A k \in DOMAIN log' : saved'[k] = k
      BY <2>2, <3>1, <3>2, Appended, FilingTypes DEF Filing
    <3>. QED
      BY <2>2, <3>1, <3>3, <3>4, <3>5 DEF Filing
  <2>. QED
    BY <1>5, <2>1, <2>2 DEF AppendLog
<1>6. CASE InsertIndexEntry
  BY <1>6 DEF InsertIndexEntry, Fails, Filing, LogTellsOrder
<1>7. CASE Stop
  BY <1>7 DEF Stop, Filing, LogTellsOrder
<1>8. CASE UNCHANGED vars
  BY <1>8 DEF vars, Filing, LogTellsOrder
<1>. QED
  BY <1>1, <1>2, <1>3, <1>4, <1>5, <1>6, <1>7, <1>8 DEF Next

LEMMA FilingKept == Spec => []Filing
<1>1. Init => Filing
  BY DEF Init, Filing, LogTellsOrder
<1>. QED
  BY <1>1, FilingStep, Invariance, PTL DEF Spec

\* The log has the turns in their order, whatever failed between them and
\* however often the program died.  Their seconds are in order, too, because
\* the clock of the model is never set back.
THEOREM LogInOrder == Spec => []LogTellsOrder
<1>1. Filing => LogTellsOrder
  BY DEF Filing
<1>. QED
  BY <1>1, FilingKept, PTL

\* No turn is missing from the log while nothing has failed.
THEOREM TurnsFiled == Spec => []EveryTurnFiled
<1>1. Filing => EveryTurnFiled
  BY DEF Filing, EveryTurnFiled
<1>. QED
  BY <1>1, FilingKept, PTL

-----------------------------------------------------------------------------
(* What is left of a turn.  A page is replaced by that of a later turn with *)
(* the same second and slug, and by nothing else.                           *)

\* While nothing fails, the last of the turns that share a page is on it.
LatestTurnStays ==
  ~faulty /\ pc \in {"idle", "down"} =>
    \A k \in DOMAIN log :
      (\A j \in DOMAIN log : j > k => log[j].page # log[k].page) =>
        pages[log[k].page] = saved[k]

\* Whatever fails, a page holds no earlier turn than the log says.
NoOlderTurn ==
  \A k \in DOMAIN log :
    pages[log[k].page] = 0 \/ pages[log[k].page] >= saved[k]

\* What Remember has written is there until it has come to its end, and only
\* entries with the name it writes to lose their page.
Holding ==
  /\ NoOlderTurn
  /\ pc \in {"log", "index"} => pages[entry.page] = turn
  /\ ~faulty =>
       \A k \in DOMAIN log :
         \/ pc = "log" /\ log[k].page = entry.page
         \/ \E j \in DOMAIN log : j > k /\ log[j].page = log[k].page
         \/ pages[log[k].page] = saved[k]

LEMMA HoldingStep == IInv /\ Filing /\ Holding /\ [Next]_vars => Holding'
<1>. SUFFICES ASSUME IInv, Filing, Holding, [Next]_vars PROVE Holding'
  OBVIOUS
<1>1. CASE Tick \/ Start \/ Stop
  BY <1>1 DEF Tick, Start, Ensured, Stop, Holding, NoOlderTurn
<1>2. ASSUME NEW x \in Inputs, Remember(x) PROVE Holding'
  BY <1>2 DEF Remember, Holding, NoOlderTurn
<1>3. CASE WritePage
  <2>1. /\ pc = "page" /\ UNCHANGED <<log, turn, entry, saved>>
        /\ entry.page \in Names /\ pages \in [Names -> Turns \cup {0, NoPage}]
    BY <1>3 DEF WritePage, IInv, TypeOK, Entries
  <2>2. CASE pages' = [pages EXCEPT ![entry.page] = turn] /\ pc' = "log"
               /\ UNCHANGED faulty
    <3>1. \A k \in DOMAIN log :
            pages'[log[k].page] = IF log[k].page = entry.page THEN turn
                                  ELSE pages[log[k].page]
      BY <2>1, <2>2, FilingTypes
    <3>2. NoOlderTurn'
      BY <2>1, <3>1, FilingTypes DEF Holding, NoOlderTurn, Filing
    <3>. QED
      BY <2>1, <2>2, <3>1, <3>2 DEF Holding
  <2>3. CASE Fails /\ pages' \in {pages, [pages EXCEPT ![entry.page] = 0]}
    <3>1. \A k \in DOMAIN log :
            pages'[log[k].page] = pages[log[k].page] \/ pages'[log[k].page] = 0
      BY <2>1, <2>3, FilingTypes
    <3>2. NoOlderTurn'
      BY <2>1, <3>1 DEF Holding, NoOlderTurn
    <3>. QED
      BY <2>3, <3>2 DEF Fails, Holding
  <2>. QED
    BY <1>3, <2>2, <2>3 DEF WritePage
<1>4. CASE AppendLog
  <2>1. CASE Fails /\ UNCHANGED <<log, saved>>
    BY <1>4, <2>1 DEF AppendLog, Fails, Holding, NoOlderTurn
  <2>2. CASE /\ log' = Append(log, entry) /\ saved' = Append(saved, turn)
             /\ pc' = "index" /\ UNCHANGED faulty
    <3>1. pc = "log" /\ UNCHANGED <<pages, turn, entry>>
      BY <1>4 DEF AppendLog
    <3>2. \A k \in DOMAIN log' : k \in DOMAIN log \/ k = Len(log) + 1
      BY <2>2, <3>1, Appended, FilingTypes
    <3>3. pages'[entry.page] = turn
      BY <3>1 DEF Holding
    <3>4. NoOlderTurn'
      BY <2>2, <3>1, <3>2, <3>3, Appended, FilingTypes
         DEF Holding, NoOlderTurn
    <3>5. ASSUME ~faulty', NEW k \in DOMAIN log'
          PROVE  \/ \E j \in DOMAIN log' : j > k /\ log'[j].page = log'[k].page
                 \/ pages'[log'[k].page] = saved'[k]
      <4>1. CASE k = Len(log) + 1
        BY <2>2, <3>1, <3>3, <4>1, Appended
      <4>2. CASE k \in DOMAIN log
        <5>1. /\ Len(log) + 1 \in DOMAIN log' /\ Len(log) + 1 > k
              /\ log'[Len(log) + 1] = entry
              /\ log'[k] = log[k] /\ saved'[k] = saved[k]
              /\ \A j \in DOMAIN log : j \in DOMAIN log' /\ log'[j] = log[j]
          BY <2>2, <3>1, <4>2, Appended, FilingTypes
        <5>. QED
          BY <2>2, <3>1, <3>5, <4>2, <5>1 DEF Holding
      <4>. QED
        BY <3>2, <4>1, <4>2
    <3>. QED
      BY <2>2, <3>1, <3>3, <3>4, <3>5 DEF Holding
  <2>. QED
    BY <1>4, <2>1, <2>2 DEF AppendLog
<1>5. CASE InsertIndexEntry
  BY <1>5 DEF InsertIndexEntry, Fails, Holding, NoOlderTurn
<1>6. CASE UNCHANGED vars
  BY <1>6 DEF vars, Holding, NoOlderTurn
<1>. QED
  BY <1>1, <1>2, <1>3, <1>4, <1>5, <1>6 DEF Next

\* SavedTurnsStay fails, but only in this way: a page is lost to a later turn
\* of the same name, never to an earlier one, and while nothing fails the last
\* turn of a name is on its page.
THEOREM LostToLaterTurns == Spec => [](LatestTurnStays /\ NoOlderTurn)
<1>1. Init => Holding
  BY DEF Init, Holding, NoOlderTurn
<1>2. Holding /\ IInv /\ Filing => LatestTurnStays /\ NoOlderTurn
  BY FilingTypes DEF Holding, LatestTurnStays
<1>. QED
  BY <1>1, <1>2, HoldingStep, FilingKept, Invariance, PTL DEF Spec

\* Every turn is saved in a later second than those in the log.
OneTurnASecond ==
  [][turn' # turn => \A k \in DOMAIN log : log[k].page[1] < clock]_vars

\* Every turn gets a name that no entry of the log has.
FreshNames ==
  [][turn' # turn => \A k \in DOMAIN log : log[k].page # entry'.page]_vars

\* The entry being saved has a name of its own, and its page is written.
Apart ==
  /\ SavedTurnsStay
  /\ pc \in {"page", "log"} =>
       \A k \in DOMAIN log : log[k].page # entry.page
  /\ pc = "log" => pages[entry.page] = turn

LEMMA ApartStep ==
  ASSUME IInv, Filing, Apart, [Next]_vars,
         turn' # turn => \A k \in DOMAIN log : log[k].page # entry'.page
  PROVE  Apart'
<1>1. CASE Tick \/ Start \/ Stop
  BY <1>1 DEF Tick, Start, Ensured, Stop, Apart, SavedTurnsStay
<1>2. ASSUME NEW x \in Inputs, Remember(x) PROVE Apart'
  <2>1. turn' # turn
    BY <1>2, FilingTypes DEF Remember
  <2>. QED
    BY <1>2, <2>1 DEF Remember, Apart, SavedTurnsStay
<1>3. CASE WritePage
  <2>1. /\ pc = "page" /\ UNCHANGED <<log, turn, entry, saved>>
        /\ entry.page \in Names /\ pages \in [Names -> Turns \cup {0, NoPage}]
        /\ pc' \in {"log", "idle"}
    BY <1>3 DEF WritePage, Fails, IInv, TypeOK, Entries
  <2>2. pages' \in {pages, [pages EXCEPT ![entry.page] = turn],
                    [pages EXCEPT ![entry.page] = 0]}
    BY <1>3 DEF WritePage
  <2>3. \A k \in DOMAIN log : pages'[log[k].page] = pages[log[k].page]
    BY <2>1, <2>2, FilingTypes DEF Apart
  <2>4. pc' = "log" => pages'[entry.page] = turn
    BY <1>3, <2>1 DEF WritePage, Fails
  <2>. QED
    BY <2>1, <2>3, <2>4 DEF Apart, SavedTurnsStay
<1>4. CASE AppendLog
  <2>1. CASE Fails /\ UNCHANGED <<log, saved>>
    BY <1>4, <2>1 DEF AppendLog, Fails, Apart, SavedTurnsStay
  <2>2. CASE /\ log' = Append(log, entry) /\ saved' = Append(saved, turn)
             /\ pc' = "index"
    <3>1. pc = "log" /\ UNCHANGED pages
      BY <1>4 DEF AppendLog
    <3>2. \A k \in DOMAIN log' : k \in DOMAIN log \/ k = Len(log) + 1
      BY <2>2, <3>1, Appended, FilingTypes
    <3>. QED
      BY <2>2, <3>1, <3>2, Appended DEF Apart, SavedTurnsStay
  <2>. QED
    BY <1>4, <2>1, <2>2 DEF AppendLog
<1>5. CASE InsertIndexEntry
  BY <1>5 DEF InsertIndexEntry, Fails, Apart, SavedTurnsStay
<1>6. CASE UNCHANGED vars
  BY <1>6 DEF vars, Apart, SavedTurnsStay
<1>. QED
  BY <1>1, <1>2, <1>3, <1>4, <1>5, <1>6 DEF Next

\* MEMORY.md:10 holds as long as no two turns ask for one name: what the log
\* says was saved is on its page, whatever fails or dies between the turns.
THEOREM FreshNamesKeepTurns == Spec /\ FreshNames => []SavedTurnsStay
<1>1. Init => Apart
  BY DEF Init, Apart, SavedTurnsStay
<1>2. IInv /\ Filing /\ Apart /\ [Next]_vars
        /\ [turn' # turn =>
              \A k \in DOMAIN log : log[k].page # entry'.page]_vars => Apart'
  <2>1. UNCHANGED vars => turn' = turn
    BY DEF vars
  <2>. QED
    BY <2>1, ApartStep
<1>3. Apart => SavedTurnsStay
  BY DEF Apart
<1>. QED
  BY <1>1, <1>2, <1>3, FilingKept, Invariance, PTL DEF Spec, FreshNames

\* When every turn is saved in a later second than the ones before, none is
\* lost: the second in the name of a page (memory.go:97) is precision enough.
THEOREM OneTurnASecondKeepsTurns == Spec /\ OneTurnASecond => []SavedTurnsStay
<1>1. IInv /\ Filing /\ [Next]_vars
        /\ [turn' # turn => \A k \in DOMAIN log : log[k].page[1] < clock]_vars
        => [turn' # turn =>
              \A k \in DOMAIN log : log[k].page # entry'.page]_vars
  <2>. SUFFICES ASSUME IInv, Filing, Next, turn' # turn,
                       \A k \in DOMAIN log : log[k].page[1] < clock
                PROVE  \A k \in DOMAIN log : log[k].page # entry'.page
    BY DEF vars
  <2>1. PICK x \in Inputs : Remember(x)
    BY DEF Next, Tick, Start, WritePage, AppendLog, InsertIndexEntry, Stop
  <2>2. entry'.page[1] = clock
    BY <2>1 DEF Remember
  <2>. QED
    BY <2>2, FilingTypes
<1>2. Spec /\ OneTurnASecond => FreshNames
  BY <1>1, FilingKept, Invariance, PTL DEF Spec, OneTurnASecond, FreshNames
<1>. QED
  BY <1>2, FreshNamesKeepTurns, PTL
=============================================================================
