---------------------------- MODULE RotateWriter ----------------------------
(***************************************************************************)
(* tools/cmdrunner/rotate_writer.go: the log file of one output stream,    *)
(* and its backups.  All methods hold w.mu, so that only a crash of the    *)
(* program can come between the system calls of a rotation.                *)
(*                                                                         *)
(* A byte is named by its place among all bytes ever written to the log,   *)
(* and a file by the interval [first, next) of the bytes it holds: 0 is    *)
(* the log itself, i the backup "<path>.i".                                *)
(***************************************************************************)
EXTENDS Integers

CONSTANTS
  maxBytes, maxBackups,   \* as NewRotateWriter normalised them
  NoFile,                 \* a path at which there is no file
  CanFail,                \* system calls may fail
  ChunkBound,             \* bound on the length of one Write
  ByteBound               \* bound on the bytes ever written

ASSUME LimitAssumption == maxBytes \in Nat \ {0} /\ maxBackups \in Nat \ {0}
ASSUME FailAssumption == CanFail \in BOOLEAN
ASSUME BoundAssumption == ChunkBound \in Nat /\ ByteBound \in Nat

\* writes counts the calls of Write that have put bytes in the file.
Files == [first : Nat, next : Nat, writes : Nat]
ASSUME NoFileAssumption == NoFile \notin Files

Slots == 0 .. maxBackups

VARIABLES
  disk,      \* what each path holds
  file,      \* w.file: "open", "nil", or "stale" when its Close has failed
  size,      \* w.size
  pc,        \* where Write is, or "down" while the program is not running
  i,         \* the loop variable of rotate
  len,       \* the length of the chunk that Write was given
  next,      \* bytes written to the log so far
  ignored    \* history: of which files, "backup" or "log", rotate has ignored
             \* an error of Stat or Rename

vars == <<disk, file, size, pc, i, len, next, ignored>>

TypeOK ==
  /\ disk \in [Slots -> Files \cup {NoFile}]
  /\ file \in {"open", "nil", "stale"}
  /\ size \in Nat
  /\ pc \in {"ready", "remove", "shift", "main", "create", "append", "down"}
  /\ i \in 0 .. maxBackups
  /\ len \in 0 .. ChunkBound
  /\ next \in Nat
  /\ ignored \subseteq {"backup", "log"}

Exists(k) == disk[k] # NoFile
Size(k) == disk[k].next - disk[k].first
Empty == [first |-> next, next |-> next, writes |-> 0]

-----------------------------------------------------------------------------

\* Nothing is on the disk before the first NewRotateWriter.
Init ==
  /\ disk = [k \in Slots |-> NoFile]
  /\ file = "nil" /\ size = 0 /\ pc = "down" /\ i = 0 /\ len = 0
  /\ next = 0 /\ ignored = {}

OpenedMutant ==   \* opens with O_TRUNC, as rotate does
  Empty

\* O_CREATE | O_APPEND: what an earlier run has left is kept.
Opened == IF Exists(0) THEN disk[0] ELSE Empty

\* NewRotateWriter after a start or a restart of the program.
New ==
  /\ pc = "down"
  /\ disk' = [disk EXCEPT ![0] = Opened]
  /\ size' = disk'[0].next - disk'[0].first
  /\ file' = "open" /\ pc' = "ready"
  /\ UNCHANGED <<i, len, next, ignored>>

TooLargeMutant(n) ==   \* off by one
  size + n > maxBytes + 1

TooLarge(n) == size + n > maxBytes

\* Write up to the decision to rotate; without a file it is refused at once.
Write(n) ==
  /\ pc = "ready" /\ file # "nil"
  /\ ~TooLarge(n)
  /\ len' = n /\ pc' = "append"
  /\ UNCHANGED <<disk, file, size, i, next, ignored>>

\* Write that rotates, up to the Close of the full file; if Close fails, or
\* has failed before, Write returns its error and keeps the stale file.
WriteRotates(n) ==
  /\ pc = "ready" /\ file # "nil" /\ TooLarge(n)
  /\ \/ /\ file = "open"
        /\ file' = "nil" /\ len' = n /\ pc' = "remove"
     \/ /\ CanFail \/ file = "stale"
        /\ file' = "stale" /\ UNCHANGED <<len, pc>>
  /\ UNCHANGED <<disk, size, i, next, ignored>>

\* os.Remove of the oldest backup; its error is ignored.
RemoveOldest ==
  /\ pc = "remove"
  /\ \/ disk' = [disk EXCEPT ![maxBackups] = NoFile]
     \/ CanFail /\ UNCHANGED disk
  /\ i' = maxBackups - 1
  /\ pc' = IF maxBackups = 1 THEN "main" ELSE "shift"
  /\ UNCHANGED <<file, size, len, next, ignored>>

RenameMutant(from, to) ==   \* a copy that leaves the source behind
  disk' = [disk EXCEPT ![to] = disk[from]]

Rename(from, to) ==
  disk' = [disk EXCEPT ![to] = disk[from], ![from] = NoFile]

ShiftTargetMutant == i - 1   \* the wrong way

ShiftTarget == i + 1

LastTurn == i = 1

\* One turn of the loop that moves the backups on, from the oldest down; an
\* error of Stat leaves the backup where it is, and so does one of Rename.
ShiftBackup ==
  /\ pc = "shift"
  /\ \/ /\ Exists(i)
        /\ Rename(i, ShiftTarget)
        /\ UNCHANGED ignored
     \/ ~Exists(i) /\ UNCHANGED <<disk, ignored>>
     \/ CanFail /\ Exists(i) /\ UNCHANGED disk
        /\ ignored' = ignored \cup {"backup"}
  /\ i' = i - 1
  /\ pc' = IF LastTurn THEN "main" ELSE "shift"
  /\ UNCHANGED <<file, size, len, next>>

MoveMainMutant ==   \* an error of Rename is ignored here, too
  /\ pc = "main" /\ pc' = "create"
  /\ \/ Exists(0) /\ Rename(0, 1)
     \/ UNCHANGED disk
  /\ UNCHANGED <<file, size, i, len, next, ignored>>

\* The log becomes the first backup.  When its Rename fails rotate returns,
\* and as w.file is nil by now no later Write gets any further; an error of
\* Stat passes for "no such file".
MoveMain ==
  /\ pc = "main"
  /\ \/ Exists(0) /\ Rename(0, 1) /\ pc' = "create" /\ UNCHANGED ignored
     \/ ~Exists(0) /\ pc' = "create" /\ UNCHANGED <<disk, ignored>>
     \/ /\ CanFail /\ Exists(0) /\ UNCHANGED disk
        /\ \/ pc' = "create" /\ ignored' = ignored \cup {"log"}
           \/ pc' = "ready" /\ UNCHANGED ignored
  /\ UNCHANGED <<file, size, i, len, next>>

CreateMutant ==   \* size is not reset
  /\ pc = "create"
  /\ disk' = [disk EXCEPT ![0] = Empty]
  /\ file' = "open" /\ pc' = "append"
  /\ UNCHANGED <<size, i, len, next, ignored>>

\* O_CREATE | O_TRUNC, which empties a log that Stat has not seen; an error
\* is that of a Rename of the log.
Create ==
  /\ pc = "create"
  /\ \/ /\ disk' = [disk EXCEPT ![0] = Empty]
        /\ file' = "open" /\ size' = 0 /\ pc' = "append"
     \/ CanFail /\ pc' = "ready" /\ UNCHANGED <<disk, file, size>>
  /\ UNCHANGED <<i, len, next, ignored>>

\* A file after a Write has put n bytes in it.
Extended(f, n) ==
  [first |-> f.first, next |-> f.next + n,
   writes |-> IF n = 0 THEN f.writes ELSE f.writes + 1]

\* file.Write, which may write a part of the chunk, or nothing to a file that
\* was closed already.
Append ==
  /\ pc = "append"
  /\ \E n \in IF file = "stale" THEN {0}
              ELSE IF CanFail THEN 0 .. len ELSE {len} :
       /\ disk' = [disk EXCEPT ![0] = Extended(@, n)]
       /\ size' = size + n
       /\ next' = next + n
  /\ pc' = "ready"
  /\ UNCHANGED <<file, i, len, ignored>>

\* Close by the supervisor's loop; the writer is not used after it.
Close ==
  /\ pc = "ready" /\ file # "nil"
  /\ file' = "nil"
  /\ UNCHANGED <<disk, size, pc, i, len, next, ignored>>

\* The program dies, at any point; what was written stays with the system.
Crash ==
  /\ pc # "down"
  /\ file' = "nil" /\ pc' = "down"
  /\ UNCHANGED <<disk, size, i, len, next, ignored>>

Next ==
  \/ New \/ RemoveOldest \/ ShiftBackup \/ MoveMain \/ Create \/ Append
  \/ Close \/ Crash
  \/ \E n \in 0 .. ChunkBound :
       next + n <= ByteBound /\ (Write(n) \/ WriteRotates(n))

Spec == Init /\ [][Next]_vars

-----------------------------------------------------------------------------
(* Properties                                                              *)

\* w.size is the size of the file it stands for whenever Write relies on it,
\* after rotations, short writes and restarts alike.
SizeIsTrue ==
  file = "open" => Exists(0) /\ size = Size(0)

\* No file grows beyond maxBytes, unless all it has came by one Write.
FilesBounded ==
  \A k \in Slots : Exists(k) => Size(k) <= maxBytes \/ disk[k].writes = 1

\* A higher number is an older file: the log is read in order from the oldest
\* backup to the main file, whatever failed and wherever a crash came.
Chronological ==
  \A j, k \in Slots : j < k /\ Exists(j) /\ Exists(k) =>
    disk[k].next <= disk[j].first

\* Nothing is missing between two files that are left, or after the last,
\* unless rotate has ignored an error.
NoHoles ==
  ignored = {} =>
    \A k \in Slots : Exists(k) =>
      \/ disk[k].next = next
      \/ \E j \in Slots : j < k /\ Exists(j) /\ disk[j].first = disk[k].next

\* The file is still there after the step, under the same or the next number.
Survives(k) ==
  \E j \in Slots : /\ disk'[j] # NoFile
                   /\ disk'[j].first = disk[k].first
                   /\ disk'[j].next >= disk[k].next

OldestGoes == \A k \in Slots \ {maxBackups} : Exists(k) => Survives(k)

OneGoes ==
  /\ Exists(0) => Survives(0) \/ (pc = "create" /\ "log" \in ignored)
  /\ \A j, k \in Slots :
       j # k /\ Exists(j) /\ Exists(k) => Survives(j) \/ Survives(k)

\* Unless rotate has ignored an error, only the oldest backup is ever given
\* up.  What an ignored error costs is one file a step, and not the log, but
\* where O_TRUNC empties one that os.Stat at rotate_writer.go:130 did not see.
OnlyOldestLost == [][(ignored = {} => OldestGoes) /\ OneGoes]_vars
=============================================================================
