------------------------ MODULE OutputPipelineProofs ------------------------
(* Theorems about RotateWriter, on its own and within OutputPipeline, and  *)
(* about OutputPipeline, for every size, every limit, every number of      *)
(* backups and of children, and every pattern of failures and crashes.     *)
EXTENDS OutputPipeline, TLAPS

RingProofs == INSTANCE RingBufferProofs
WF == INSTANCE WellFoundedInduction

\* Which file Write and rotate have at each point.
Control ==
  /\ file = "open" => pc \in {"ready", "append"}
  /\ file = "stale" => pc \in {"ready", "append"} /\ Exists(0)
  /\ pc = "append" => file # "nil" /\ Exists(0)
  /\ pc = "shift" => i \in 1 .. (maxBackups - 1)
  /\ pc = "append" /\ file = "open" =>
       size = 0 \/ size + len <= maxBytes

\* Every file is an interval of the bytes written so far; no Write has put
\* anything in an empty one.
Intervals ==
  \A k \in Slots : Exists(k) =>
    /\ disk[k].first <= disk[k].next /\ disk[k].next <= next
    /\ disk[k].first = disk[k].next => disk[k].writes = 0

IInv ==
  TypeOK /\ Control /\ Intervals /\ SizeIsTrue /\ FilesBounded /\ Chronological

-----------------------------------------------------------------------------
(* Steps that leave the files alone                                        *)

\* Such a step keeps everything that is said of the files.
LEMMA SameFiles ==
  ASSUME UNCHANGED <<disk, next>>
  PROVE  /\ Intervals => Intervals'
         /\ FilesBounded => FilesBounded'
         /\ Chronological => Chronological'
  BY DEF Intervals, FilesBounded, Chronological, Exists, Size

\* The decision of Write, the end of the writer and the failed steps.
LEMMA QuietStep ==
  ASSUME IInv,
         \/ \E n \in 0 .. ChunkBound : Write(n) \/ WriteRotates(n)
         \/ Close \/ Crash \/ UNCHANGED vars
         \/ (ShiftBackup \/ MoveMain \/ RemoveOldest) /\ UNCHANGED disk
         \/ Create /\ pc' = "ready"
  PROVE  IInv'
<1>. USE LimitAssumption, BoundAssumption
     DEF IInv, TypeOK, Control, SizeIsTrue, Exists, Size
<1>1. CASE \E n \in 0 .. ChunkBound : Write(n)
  BY <1>1, SameFiles DEF Write, TooLarge
<1>2. CASE \E n \in 0 .. ChunkBound : WriteRotates(n)
  BY <1>2, SameFiles DEF WriteRotates
<1>3. CASE Close \/ Crash
  BY <1>3, SameFiles DEF Close, Crash
<1>4. CASE UNCHANGED vars
  BY <1>4, SameFiles DEF vars
<1>5. CASE RemoveOldest /\ UNCHANGED disk
  BY <1>5, SameFiles DEF RemoveOldest
<1>6. CASE ShiftBackup /\ UNCHANGED disk
  <2>1. ignored' \subseteq {"backup", "log"}
    BY <1>6 DEF ShiftBackup, IInv, TypeOK
  <2>2. /\ pc = "shift" /\ i' = i - 1 /\ UNCHANGED <<file, size, len, next>>
        /\ pc' = IF i = 1 THEN "main" ELSE "shift"
    BY <1>6 DEF ShiftBackup, LastTurn
  <2>. QED
    BY <1>6, <2>1, <2>2, SameFiles
<1>7. CASE MoveMain /\ UNCHANGED disk
  BY <1>7, SameFiles DEF MoveMain
<1>8. CASE Create /\ pc' = "ready"
  BY <1>8, SameFiles DEF Create
<1>. QED
  BY <1>1, <1>2, <1>3, <1>4, <1>5, <1>6, <1>7, <1>8

-----------------------------------------------------------------------------
(* Steps that move or remove a file                                        *)

\* Renaming a file to the next number, whatever was there, keeps the files
\* in order.
LEMMA RenameKeepsFiles ==
  ASSUME IInv, NEW k \in Slots, k + 1 \in Slots, Exists(k), Rename(k, k + 1),
         next' = next
  PROVE  /\ disk' \in [Slots -> Files \cup {NoFile}]
         /\ Intervals' /\ FilesBounded' /\ Chronological'
<1>1. disk' = [j \in Slots |-> IF j = k THEN NoFile
                               ELSE IF j = k + 1 THEN disk[k] ELSE disk[j]]
  BY DEF Rename, IInv, TypeOK, Slots
<1>2. disk' \in [Slots -> Files \cup {NoFile}]
  BY <1>1 DEF IInv, TypeOK
<1>3. Intervals'
  BY <1>1 DEF IInv, Intervals, Exists
<1>4. FilesBounded'
  BY <1>1 DEF IInv, FilesBounded, Exists, Size
<1>5. Chronological'
  BY <1>1 DEF IInv, Chronological, Exists, Slots
<1>. QED
  BY <1>2, <1>3, <1>4, <1>5

\* Removing a file keeps the others in order.
LEMMA RemoveKeepsFiles ==
  ASSUME IInv, NEW k \in Slots, disk' = [disk EXCEPT ![k] = NoFile],
         next' = next
  PROVE  /\ disk' \in [Slots -> Files \cup {NoFile}]
         /\ Intervals' /\ FilesBounded' /\ Chronological'
  BY DEF IInv, TypeOK, Intervals, FilesBounded, Chronological, Exists, Size

\* The oldest backup is removed.
LEMMA RemoveOldestStep == IInv /\ RemoveOldest => IInv'
<1>. SUFFICES ASSUME IInv, RemoveOldest PROVE IInv'
  OBVIOUS
<1>1. CASE UNCHANGED disk
  BY <1>1, QuietStep
<1>2. CASE disk' = [disk EXCEPT ![maxBackups] = NoFile]
  <2>1. maxBackups \in Slots /\ next' = next
    BY LimitAssumption DEF Slots, RemoveOldest
  <2>2. file # "open" /\ file # "stale" /\ pc' # "append"
    BY DEF RemoveOldest, IInv, Control
  <2>3. TypeOK'
    BY <1>2, <2>1, RemoveKeepsFiles, LimitAssumption
       DEF RemoveOldest, IInv, TypeOK
  <2>4. Control'
    BY <2>2, LimitAssumption DEF RemoveOldest, Control
  <2>. QED
    BY <1>2, <2>1, <2>2, <2>3, <2>4, RemoveKeepsFiles
       DEF RemoveOldest, IInv, SizeIsTrue
<1>. QED
  BY <1>1, <1>2 DEF RemoveOldest

\* A backup moves on to the next number.
LEMMA ShiftBackupStep == IInv /\ ShiftBackup => IInv'
<1>. SUFFICES ASSUME IInv, ShiftBackup PROVE IInv'
  OBVIOUS
<1>1. CASE UNCHANGED disk
  BY <1>1, QuietStep
<1>2. CASE Exists(i) /\ Rename(i, ShiftTarget) /\ UNCHANGED ignored
  <2>1. i \in 1 .. (maxBackups - 1) /\ i \in Slots /\ i + 1 \in Slots
    BY LimitAssumption DEF ShiftBackup, IInv, Control, Slots
  <2>2. file = "nil" /\ pc' # "append"
    BY DEF ShiftBackup, IInv, TypeOK, Control
  <2>3. Rename(i, i + 1) /\ next' = next
    BY <1>2 DEF ShiftTarget, ShiftBackup
  <2>4. /\ disk' \in [Slots -> Files \cup {NoFile}]
        /\ Intervals' /\ FilesBounded' /\ Chronological'
    BY <1>2, <2>1, <2>3, RenameKeepsFiles
  <2>5. TypeOK'
    BY <1>2, <2>1, <2>4, LimitAssumption DEF ShiftBackup, IInv, TypeOK
  <2>6. Control' /\ SizeIsTrue'
    BY <2>1, <2>2, LimitAssumption
       DEF ShiftBackup, LastTurn, Control, SizeIsTrue
  <2>. QED
    BY <2>4, <2>5, <2>6 DEF IInv
<1>. QED
  BY <1>1, <1>2 DEF ShiftBackup

\* The log becomes the first backup.
LEMMA MoveMainStep == IInv /\ MoveMain => IInv'
<1>. SUFFICES ASSUME IInv, MoveMain PROVE IInv'
  OBVIOUS
<1>1. CASE UNCHANGED disk
  BY <1>1, QuietStep
<1>2. CASE Exists(0) /\ Rename(0, 1) /\ pc' = "create"
  <2>1. 0 \in Slots /\ 0 + 1 \in Slots /\ Rename(0, 0 + 1) /\ next' = next
    BY <1>2, LimitAssumption DEF Slots, MoveMain
  <2>2. file = "nil"
    BY DEF MoveMain, IInv, TypeOK, Control
  <2>3. /\ disk' \in [Slots -> Files \cup {NoFile}]
        /\ Intervals' /\ FilesBounded' /\ Chronological'
    BY <1>2, <2>1, RenameKeepsFiles
  <2>4. TypeOK'
    BY <1>2, <2>3 DEF MoveMain, IInv, TypeOK
  <2>5. Control' /\ SizeIsTrue'
    BY <1>2, <2>2 DEF MoveMain, Control, SizeIsTrue
  <2>. QED
    BY <2>3, <2>4, <2>5 DEF IInv
<1>. QED
  BY <1>1, <1>2 DEF MoveMain

-----------------------------------------------------------------------------
(* Steps that open or extend the log                                       *)

\* A new, empty log is the newest file.
LEMMA EmptyKeepsFiles ==
  ASSUME IInv, disk' = [disk EXCEPT ![0] = Empty], next' = next
  PROVE  /\ disk' \in [Slots -> Files \cup {NoFile}]
         /\ Intervals' /\ FilesBounded' /\ Chronological'
         /\ disk'[0] = Empty /\ Exists(0)'
<1>1. 0 \in Slots /\ Empty \in Files /\ Empty # NoFile
  BY LimitAssumption, NoFileAssumption DEF Slots, Empty, Files, IInv, TypeOK
<1>2. disk' \in [Slots -> Files \cup {NoFile}] /\ disk'[0] = Empty
  BY <1>1 DEF IInv, TypeOK
<1>3. Empty.first = next /\ Empty.next = next /\ Empty.writes = 0
  BY DEF Empty
<1>4. Intervals'
  BY <1>1, <1>3 DEF IInv, TypeOK, Intervals, Exists
<1>5. FilesBounded'
  BY <1>1, <1>3, LimitAssumption DEF IInv, TypeOK, FilesBounded, Exists, Size
<1>6. Chronological'
  BY <1>1, <1>3, LimitAssumption
     DEF IInv, TypeOK, Chronological, Intervals, Exists, Slots
<1>. QED
  BY <1>1, <1>2, <1>4, <1>5, <1>6 DEF Exists

\* rotate opens a new log.
LEMMA CreateStep == IInv /\ Create => IInv'
<1>. SUFFICES ASSUME IInv, Create PROVE IInv'
  OBVIOUS
<1>1. CASE pc' = "ready"
  BY <1>1, QuietStep
<1>2. CASE /\ disk' = [disk EXCEPT ![0] = Empty]
           /\ file' = "open" /\ size' = 0 /\ pc' = "append"
  <2>1. next' = next
    BY DEF Create
  <2>2. TypeOK'
    BY <1>2, <2>1, EmptyKeepsFiles DEF Create, IInv, TypeOK
  <2>3. Control'
    BY <1>2, <2>1, EmptyKeepsFiles DEF Control
  <2>4. SizeIsTrue'
    BY <1>2, <2>1, EmptyKeepsFiles DEF SizeIsTrue, Size, Empty, IInv, TypeOK
  <2>. QED
    BY <1>2, <2>1, <2>2, <2>3, <2>4, EmptyKeepsFiles DEF IInv
<1>. QED
  BY <1>1, <1>2 DEF Create

\* NewRotateWriter opens what is there, or a new log.
LEMMA NewStep == IInv /\ New => IInv'
<1>. SUFFICES ASSUME IInv, New PROVE IInv'
  OBVIOUS
<1>1. next' = next /\ file' = "open" /\ pc' = "ready" /\ 0 \in Slots
  BY LimitAssumption DEF New, Slots
<1>2. /\ disk' \in [Slots -> Files \cup {NoFile}]
      /\ Intervals' /\ FilesBounded' /\ Chronological' /\ Exists(0)'
  <2>1. CASE Exists(0)
    <3>1. disk' = disk
      BY <1>1, <2>1 DEF New, Opened, IInv, TypeOK
    <3>. QED
      BY <1>1, <2>1, <3>1, SameFiles DEF IInv, TypeOK, Exists
  <2>2. CASE ~Exists(0)
    BY <1>1, <2>2, EmptyKeepsFiles DEF New, Opened
  <2>. QED
    BY <2>1, <2>2
<1>3. size' = disk'[0].next - disk'[0].first /\ size' \in Nat
  <2>1. disk'[0] \in Files /\ disk'[0].first <= disk'[0].next
    BY <1>1, <1>2 DEF Intervals, Exists
  <2>. QED
    BY <2>1 DEF New, Files
<1>4. TypeOK'
  BY <1>1, <1>2, <1>3 DEF New, IInv, TypeOK
<1>5. Control' /\ SizeIsTrue'
  BY <1>1, <1>2, <1>3 DEF Control, SizeIsTrue, Size
<1>. QED
  BY <1>2, <1>4, <1>5 DEF IInv

\* The chunk, or a part of it, goes behind the last byte of the log.
LEMMA AppendEffect ==
  ASSUME IInv, Append
  PROVE  /\ 0 \in Slots /\ Exists(0) /\ disk[0] \in Files
         /\ \E n \in Nat :
              /\ n <= len /\ (file = "stale" => n = 0)
              /\ size' = size + n /\ next' = next + n
              /\ disk'[0] = Extended(disk[0], n)
         /\ disk'[0] \in Files
         /\ disk' = [k \in Slots |-> IF k = 0 THEN disk'[0] ELSE disk[k]]
<1>1. PICK n \in IF file = "stale" THEN {0}
                 ELSE IF CanFail THEN 0 .. len ELSE {len} :
        /\ disk' = [disk EXCEPT ![0] = Extended(@, n)]
        /\ size' = size + n /\ next' = next + n
  BY DEF Append
<1>2. n \in Nat /\ n <= len /\ (file = "stale" => n = 0)
  BY BoundAssumption DEF IInv, TypeOK
<1>3. 0 \in Slots /\ Exists(0) /\ disk[0] \in Files
  BY LimitAssumption DEF Append, IInv, TypeOK, Control, Slots, Exists
<1>4. Extended(disk[0], n) \in Files
  BY <1>2, <1>3 DEF Extended, Files
<1>5. disk' = [k \in Slots |-> IF k = 0 THEN Extended(disk[0], n) ELSE disk[k]]
  BY <1>1 DEF IInv, TypeOK
<1>. QED
  BY <1>1, <1>2, <1>3, <1>4, <1>5

LEMMA AppendStep == IInv /\ Append => IInv'
<1>. SUFFICES ASSUME IInv, Append PROVE IInv'
  OBVIOUS
<1>0. len \in Nat
  BY BoundAssumption DEF IInv, TypeOK
<1>1. PICK n \in Nat :
        /\ n <= len /\ (file = "stale" => n = 0)
        /\ size' = size + n /\ next' = next + n
        /\ disk'[0] = Extended(disk[0], n)
  BY AppendEffect
<1>2. /\ 0 \in Slots /\ Exists(0) /\ disk[0] \in Files /\ file # "nil"
      /\ pc' = "ready" /\ UNCHANGED <<file, i, len, ignored>>
  BY AppendEffect DEF Append, IInv, Control
<1>. DEFINE log == disk'[0]
<1>3. disk' = [k \in Slots |-> IF k = 0 THEN log ELSE disk[k]]
  BY AppendEffect
<1>4. log \in Files /\ log # NoFile
  BY AppendEffect, NoFileAssumption
<1>5. /\ disk' \in [Slots -> Files \cup {NoFile}]
      /\ Exists(0)' /\ disk'[0] = log
  BY <1>2, <1>3, <1>4 DEF IInv, TypeOK, Exists
<1>6. /\ log.first = disk[0].first /\ log.next = disk[0].next + n
      /\ log.writes = IF n = 0 THEN disk[0].writes ELSE disk[0].writes + 1
  BY <1>1 DEF Extended
<1>7. /\ disk[0].first \in Nat /\ disk[0].next \in Nat /\ next \in Nat
      /\ disk[0].first <= disk[0].next /\ disk[0].next <= next
      /\ disk[0].first = disk[0].next => disk[0].writes = 0
      /\ disk[0].writes \in Nat
  BY <1>2 DEF IInv, TypeOK, Files, Intervals
<1>. HIDE DEF log
<1>8. TypeOK'
  BY <1>1, <1>2, <1>5 DEF IInv, TypeOK
<1>9. Intervals'
  <2>. SUFFICES ASSUME NEW k \in Slots, Exists(k)'
                PROVE  /\ disk'[k].first <= disk'[k].next
                       /\ disk'[k].next <= next'
                       /\ disk'[k].first = disk'[k].next => disk'[k].writes = 0
    BY DEF Intervals
  <2>1. CASE k = 0
    BY <1>1, <1>5, <1>6, <1>7, <2>1
  <2>2. CASE k # 0
    <3>1. disk'[k] = disk[k] /\ Exists(k)
      BY <1>3, <2>2 DEF Exists
    <3>2. disk[k] \in Files
      BY <3>1 DEF IInv, TypeOK, Exists
    <3>. QED
      BY <1>1, <1>7, <3>1, <3>2 DEF IInv, Intervals, Files
  <2>. QED
    BY <2>1, <2>2
<1>10. Chronological'
  BY <1>2, <1>3, <1>5, <1>6 DEF IInv, Chronological, Exists, Slots
<1>11. SizeIsTrue'
  BY <1>1, <1>2, <1>5, <1>6, <1>7 DEF IInv, SizeIsTrue, Size, TypeOK
<1>12. Size(0)' <= maxBytes \/ disk'[0].writes = 1
  <2>1. Size(0)' = Size(0) + n
    BY <1>5, <1>6, <1>7 DEF Size
  <2>2. CASE file = "stale"
    <3>1. n = 0 /\ disk'[0].writes = disk[0].writes /\ Size(0)' = Size(0)
      BY <1>1, <1>5, <1>6, <1>7, <2>1, <2>2 DEF Size
    <3>. QED
      BY <1>2, <3>1 DEF IInv, FilesBounded
  <2>3. CASE file = "open"
    <3>1. size = Size(0) /\ (size = 0 \/ size + len <= maxBytes)
      BY <2>3 DEF Append, IInv, SizeIsTrue, Control
    <3>2. size = 0 => disk[0].writes = 0
      BY <1>7, <3>1 DEF Size
    <3>. QED
      BY <1>1, <1>0, <1>5, <1>6, <1>7, <2>1, <3>1, <3>2, LimitAssumption
         DEF IInv, TypeOK
  <2>. QED
    BY <1>2, <2>2, <2>3 DEF IInv, TypeOK
<1>13. FilesBounded'
  BY <1>3, <1>12 DEF IInv, FilesBounded, Exists, Size
<1>14. Control'
  BY <1>2, <1>5 DEF Control
<1>. QED
  BY <1>8, <1>9, <1>10, <1>11, <1>13, <1>14 DEF IInv

-----------------------------------------------------------------------------
(* The theorems                                                            *)

\* The empty disk is in order.
LEMMA InitIInv == Init => IInv
<1>. SUFFICES ASSUME Init PROVE IInv
  OBVIOUS
<1>1. TypeOK
  <2>1. disk \in [Slots -> Files \cup {NoFile}]
    BY DEF Init
  <2>2. 0 \in 0 .. maxBackups /\ 0 \in 0 .. ChunkBound
    BY LimitAssumption, BoundAssumption
  <2>. QED
    BY <2>1, <2>2 DEF Init, TypeOK
<1>2. \A k \in Slots : ~Exists(k)
  BY DEF Init, Exists
<1>3. Control /\ SizeIsTrue
  BY DEF Init, Control, SizeIsTrue
<1>. QED
  BY <1>1, <1>2, <1>3
     DEF IInv, Intervals, FilesBounded, Chronological

\* What the log may do at a time, in the pipeline as on its own.
LogAction ==
  \/ New \/ RemoveOldest \/ ShiftBackup \/ MoveMain \/ Create \/ Append
  \/ Close \/ Crash \/ UNCHANGED vars
  \/ \E n \in 0 .. ChunkBound : Write(n) \/ WriteRotates(n)

\* Every step, failed ones and crashes included, preserves the invariant.
LEMMA StepIInv == IInv /\ LogAction => IInv'
  BY QuietStep, RemoveOldestStep, ShiftBackupStep, MoveMainStep, CreateStep,
     NewStep, AppendStep DEF LogAction

\* The inductive invariant holds in every reachable state.
LEMMA Invariance == Spec => []IInv
<1>1. [Next]_vars => LogAction
  BY DEF Next, LogAction
<1>. QED
  BY <1>1, InitIInv, StepIInv, PTL DEF Spec

\* The log and its backups are read in order, whatever failed or crashed.
THEOREM AlwaysChronological == Spec => []Chronological
<1>1. IInv => Chronological
  BY DEF IInv
<1>. QED
  BY <1>1, Invariance, PTL

\* The size that decides on rotation is the size of the file.
THEOREM SizeAlwaysTrue == Spec => []SizeIsTrue
<1>1. IInv => SizeIsTrue
  BY DEF IInv
<1>. QED
  BY <1>1, Invariance, PTL

\* No file exceeds its limit, but for one that a single Write has filled.
THEOREM AlwaysBounded == Spec => []FilesBounded
<1>1. IInv => FilesBounded
  BY DEF IInv
<1>. QED
  BY <1>1, Invariance, PTL

\* Every variable keeps its type.
THEOREM TypeCorrect == Spec => []TypeOK
<1>1. IInv => TypeOK
  BY DEF IInv
<1>. QED
  BY <1>1, Invariance, PTL

-----------------------------------------------------------------------------
(* What a rotation may overwrite                                           *)

\* A file is only ever moved to where there is none, or to the oldest number,
\* and a log is only created where there is none, unless rotate has ignored
\* an error.
Vacant ==
  /\ pc = "shift" /\ ignored = {} => i + 1 = maxBackups \/ ~Exists(i + 1)
  /\ pc = "main" /\ ignored = {} => maxBackups = 1 \/ ~Exists(1)
  /\ pc = "create" /\ "log" \notin ignored => ~Exists(0)

Adjacent == IInv /\ Vacant /\ NoHoles

\* The disk after a rename, path by path.
LEMMA Renamed ==
  ASSUME IInv, NEW k \in Slots, k + 1 \in Slots, Rename(k, k + 1)
  PROVE  disk' = [j \in Slots |-> IF j = k THEN NoFile
                                  ELSE IF j = k + 1 THEN disk[k] ELSE disk[j]]
  BY DEF Rename, IInv, TypeOK, Slots

\* The paths a rotation is about to use.
LEMMA Paths ==
  ASSUME IInv
  PROVE  /\ 0 \in Slots /\ 1 \in Slots /\ maxBackups \in Slots
         /\ pc = "shift" => i \in Slots /\ i + 1 \in Slots /\ i > 0
  BY LimitAssumption DEF IInv, Control, Slots

LEMMA VacantStep ==
  ASSUME IInv, Vacant, LogAction
  PROVE  Vacant'
<1>. USE LimitAssumption, Paths DEF Vacant
<1>1. CASE RemoveOldest
  BY <1>1 DEF RemoveOldest, IInv, TypeOK
<1>2. CASE ShiftBackup
  <2>1. /\ pc = "shift" /\ i' = i - 1 /\ i \in Nat
        /\ pc' = IF i = 1 THEN "main" ELSE "shift"
    BY <1>2 DEF ShiftBackup, LastTurn, IInv, TypeOK
  <2>2. ignored' = {} => disk'[i] = NoFile
    <3>1. CASE Exists(i) /\ Rename(i, ShiftTarget) /\ UNCHANGED ignored
      <4>1. /\ i \in Slots /\ i + 1 \in Slots /\ Rename(i, i + 1)
            /\ i # i + 1
        BY <2>1, <3>1 DEF ShiftTarget
      <4>. QED
        BY <4>1, Renamed
    <3>. QED
      BY <1>2, <2>1, <3>1 DEF ShiftBackup, Exists
  <2>3. i' + 1 = i
    BY <2>1
  <2>. QED
    BY <2>1, <2>2, <2>3 DEF Exists
<1>3. CASE MoveMain
  <2>1. CASE Exists(0) /\ Rename(0, 1) /\ pc' = "create"
    BY <2>1, Renamed DEF Exists
  <2>2. CASE ~Exists(0) /\ pc' = "create" /\ UNCHANGED disk
    BY <2>2 DEF Exists
  <2>3. CASE pc' = "ready"
    BY <2>3
  <2>. QED
    BY <1>3, <2>1, <2>2, <2>3 DEF MoveMain
<1>4. CASE UNCHANGED vars
  BY <1>4 DEF vars, Exists
<1>5. CASE pc' \notin {"shift", "main", "create"}
  BY <1>5
<1>. QED
  BY <1>1, <1>2, <1>3, <1>4, <1>5
     DEF LogAction, New, Create, Append, Close, Crash, Write, WriteRotates

\* NoHoles and OnlyOldestLost for one step.
Chained ==
  \A f \in Slots : disk'[f] # NoFile =>
    \/ disk'[f].next = next'
    \/ \E j \in Slots : /\ j < f /\ disk'[j] # NoFile
                        /\ disk'[j].first = disk'[f].next
AllSurvive == \A f \in Slots \ {maxBackups} : Exists(f) => Survives(f)

\* A file that moves on to an empty path, or over the oldest backup, keeps its
\* neighbours.
LEMMA RenameKeepsChain ==
  ASSUME Adjacent, NEW k \in Slots, k + 1 \in Slots, Exists(k),
         Rename(k, k + 1), k + 1 = maxBackups \/ ~Exists(k + 1),
         next' = next, ignored = {}
  PROVE  Chained /\ AllSurvive
<1>1. disk' = [j \in Slots |-> IF j = k THEN NoFile
                               ELSE IF j = k + 1 THEN disk[k] ELSE disk[j]]
  BY Renamed DEF Adjacent
<1>2. Chained
  <2>. SUFFICES ASSUME NEW f \in Slots, disk'[f] # NoFile,
                       disk'[f].next # next'
                PROVE  \E j \in Slots : /\ j < f /\ disk'[j] # NoFile
                                        /\ disk'[j].first = disk'[f].next
    BY DEF Chained
  <2>. DEFINE g == IF f = k + 1 THEN k ELSE f
  <2>1. g \in Slots /\ Exists(g) /\ disk[g] = disk'[f] /\ f # k
    BY <1>1 DEF Exists, Slots
  <2>2. PICK j \in Slots : j < g /\ Exists(j) /\ disk[j].first = disk[g].next
    BY <2>1 DEF Adjacent, NoHoles
  <2>3. CASE j = k
    <3>1. f # k + 1 /\ k + 1 < f /\ k + 1 # k
      BY <2>1, <2>2, <2>3 DEF Slots
    <3>2. /\ disk'[k + 1] = disk[k] /\ disk'[k + 1] # NoFile
          /\ disk[k].first = disk'[f].next
      <4>1. disk'[k + 1] = disk[k]
        BY <1>1, <3>1
      <4>2. disk[k].first = disk'[f].next
        BY <2>1, <2>2, <2>3
      <4>. QED
        BY <4>1, <4>2 DEF Exists
    <3>3. k + 1 < f /\ disk'[k + 1] # NoFile
          /\ disk'[k + 1].first = disk'[f].next
      BY <3>1, <3>2 DEF Exists
    <3>. HIDE DEF g
    <3>. QED
      BY <3>3
  <2>4. CASE j # k
    <3>1. j # k + 1
      BY <2>1, <2>2, LimitAssumption DEF Slots
    <3>2. j < f
      BY <2>2, LimitAssumption DEF Slots
    <3>. QED
      BY <1>1, <2>1, <2>2, <2>4, <3>1, <3>2 DEF Exists
  <2>. QED
    BY <2>3, <2>4
<1>3. AllSurvive
  <2>. SUFFICES ASSUME NEW f \in Slots \ {maxBackups}, Exists(f)
                PROVE  Survives(f)
    BY DEF AllSurvive
  <2>1. f # k + 1
    OBVIOUS
  <2>2. disk[f] \in Files
    BY DEF Adjacent, IInv, TypeOK, Exists
  <2>3. disk[f].next >= disk[f].next
    BY <2>2 DEF Files
  <2>4. CASE f = k
    BY <1>1, <2>3, <2>4 DEF Survives, Exists, Slots
  <2>5. CASE f # k
    BY <1>1, <2>1, <2>3, <2>5 DEF Survives, Exists
  <2>. QED
    BY <2>4, <2>5
<1>. QED
  BY <1>2, <1>3

\* A file that stays has survived.
LEMMA Stays ==
  ASSUME IInv, NEW f \in Slots, Exists(f), disk'[f] = disk[f]
  PROVE  Survives(f)
<1>1. disk[f] \in Files
  BY DEF IInv, TypeOK, Exists
<1>. QED
  BY <1>1 DEF Survives, Exists, Files

\* So it does when nothing happens to the files.
LEMMA SameChain ==
  ASSUME Adjacent, ignored = {}, UNCHANGED <<disk, next>>
  PROVE  Chained /\ AllSurvive
  BY Stays DEF Adjacent, NoHoles, Chained, AllSurvive, Exists

\* The newest file goes where there is none.
LEMMA EmptyKeepsChain ==
  ASSUME Adjacent, ignored = {}, ~Exists(0), disk' = [disk EXCEPT ![0] = Empty],
         next' = next
  PROVE  Chained /\ AllSurvive
<1>1. /\ disk'[0] = Empty /\ Empty.next = next
      /\ \A f \in Slots : f # 0 => disk'[f] = disk[f]
  BY Paths DEF Adjacent, IInv, TypeOK, Empty
<1>2. Chained
  BY <1>1 DEF Adjacent, NoHoles, Chained, Exists
<1>3. AllSurvive
  BY <1>1, Stays DEF Adjacent, AllSurvive, Exists
<1>. QED
  BY <1>2, <1>3

\* The log grows at its end, where no other file begins.
LEMMA AppendKeepsChain ==
  ASSUME Adjacent, ignored = {}, Append
  PROVE  Chained /\ AllSurvive
<1>1. PICK n \in Nat : disk'[0] = Extended(disk[0], n) /\ next' = next + n
  BY AppendEffect DEF Adjacent
<1>2. 0 \in Slots /\ Exists(0) /\ disk[0] \in Files
  BY AppendEffect DEF Adjacent
<1>3. /\ disk'[0].first = disk[0].first /\ disk'[0].next = disk[0].next + n
      /\ disk'[0] \in Files
      /\ \A f \in Slots : f # 0 => disk'[f] = disk[f]
  BY <1>1, AppendEffect DEF Adjacent, Extended
<1>4. disk'[0] # NoFile
  BY <1>3, NoFileAssumption
<1>5. \A j \in Slots : ~(j < 0)
  BY DEF Slots
<1>6. disk[0].next = next
  BY <1>2, <1>5 DEF Adjacent, NoHoles
<1>7. ASSUME NEW f \in Slots, f # 0, Exists(f)
      PROVE  \E j \in Slots : /\ j < f /\ disk'[j] # NoFile
                              /\ disk'[j].first = disk'[f].next
  <2>1. 0 < f
    BY <1>7, LimitAssumption DEF Slots
  <2>2. disk[f].next <= disk[0].first
    BY <1>2, <1>7, <2>1 DEF Adjacent, IInv, Chronological
  <2>3. CASE disk[f].next = next
    <3>1. disk[0].first = disk[f].next
      BY <1>2, <1>6, <2>2, <2>3 DEF Adjacent, IInv, Intervals, TypeOK, Files
    <3>. QED
      BY <1>2, <1>3, <1>4, <1>7, <2>1, <3>1
  <2>4. CASE disk[f].next # next
    <3>1. PICK j \in Slots : j < f /\ Exists(j) /\ disk[j].first = disk[f].next
      BY <1>7, <2>4 DEF Adjacent, NoHoles
    <3>. QED
      BY <1>3, <1>4, <1>7, <3>1 DEF Exists
  <2>. QED
    BY <2>3, <2>4
<1>8. Chained
  BY <1>1, <1>3, <1>6, <1>7 DEF Chained, Exists
<1>9. ASSUME NEW f \in Slots \ {maxBackups}, Exists(f)
      PROVE  Survives(f)
  <2>1. CASE f # 0
    BY <1>3, <1>9, <2>1, Stays DEF Adjacent
  <2>2. CASE f = 0
    BY <1>2, <1>3, <1>4, <2>2 DEF Survives, Files
  <2>. QED
    BY <2>1, <2>2
<1>. QED
  BY <1>8, <1>9 DEF AllSurvive

\* No step breaks the chain, or loses a file but the oldest.
LEMMA ChainStep ==
  ASSUME Adjacent, LogAction, ignored = {}
  PROVE  AllSurvive /\ (ignored' = {} => Chained)
<1>1. CASE UNCHANGED <<disk, next>>
  BY <1>1, SameChain
<1>2. CASE RemoveOldest /\ disk' = [disk EXCEPT ![maxBackups] = NoFile]
  <2>1. /\ next' = next /\ disk'[maxBackups] = NoFile
        /\ \A f \in Slots : f # maxBackups => disk'[f] = disk[f]
    BY <1>2, Paths DEF RemoveOldest, Adjacent, IInv, TypeOK
  <2>2. AllSurvive
    BY <2>1, Stays DEF AllSurvive, Adjacent
  <2>3. Chained
    <3>1. \A f, j \in Slots : j < f => j # maxBackups
      BY LimitAssumption DEF Slots
    <3>. QED
      BY <2>1, <3>1 DEF Chained, Adjacent, NoHoles, Exists
  <2>. QED
    BY <2>2, <2>3
<1>3. CASE ShiftBackup /\ Exists(i) /\ Rename(i, ShiftTarget)
  <2>1. /\ i \in Slots /\ i + 1 \in Slots /\ Rename(i, i + 1) /\ next' = next
        /\ i + 1 = maxBackups \/ ~Exists(i + 1)
    BY <1>3, Paths DEF ShiftBackup, ShiftTarget, Adjacent, Vacant
  <2>. QED
    BY <1>3, <2>1, RenameKeepsChain
<1>4. CASE MoveMain /\ Exists(0) /\ Rename(0, 1)
  <2>1. /\ 0 \in Slots /\ 0 + 1 \in Slots /\ Rename(0, 0 + 1) /\ next' = next
        /\ 0 + 1 = maxBackups \/ ~Exists(0 + 1)
    BY <1>4, Paths DEF MoveMain, Adjacent, Vacant
  <2>. QED
    BY <1>4, <2>1, RenameKeepsChain
<1>5. CASE Create /\ disk' = [disk EXCEPT ![0] = Empty]
  BY <1>5, EmptyKeepsChain DEF Create, Adjacent, Vacant
<1>6. CASE New
  <2>1. CASE Exists(0)
    BY <1>6, <2>1, SameChain DEF New, Opened, Adjacent, IInv, TypeOK
  <2>2. CASE ~Exists(0)
    BY <1>6, <2>2, EmptyKeepsChain DEF New, Opened
  <2>. QED
    BY <2>1, <2>2
<1>7. CASE Append
  BY <1>7, AppendKeepsChain
<1>. QED
  BY <1>1, <1>2, <1>3, <1>4, <1>5, <1>6, <1>7
     DEF LogAction, RemoveOldest, ShiftBackup, MoveMain, Create, Close, Crash,
         Write, WriteRotates, vars

LEMMA AdjacentStep == Adjacent /\ LogAction => Adjacent'
<1>. SUFFICES ASSUME Adjacent, LogAction PROVE Adjacent'
  OBVIOUS
<1>1. IInv' /\ Vacant'
  BY StepIInv, VacantStep DEF Adjacent
<1>2. ignored \subseteq ignored'
  BY DEF LogAction, New, RemoveOldest, ShiftBackup, MoveMain, Create, Append,
         Close, Crash, Write, WriteRotates, vars
<1>3. ignored' = {} => Chained
  BY <1>2, ChainStep
<1>4. NoHoles'
  BY <1>3 DEF NoHoles, Chained, Exists
<1>. QED
  BY <1>1, <1>4 DEF Adjacent

-----------------------------------------------------------------------------
(* The pipeline                                                            *)

\* A chunk is where stage says, and nowhere beyond.
Place ==
  /\ (child = "running" /\ stage = "read") \/ child = "ok" =>
       kept = userGot /\ userGot = ringGot /\ ringGot = logGot
  /\ stage = "user" =>
       kept = userGot + chunk /\ userGot = ringGot /\ ringGot = logGot
  /\ stage = "ring" =>
       kept = userGot /\ userGot = ringGot + chunk /\ ringGot = logGot
  /\ stage \in {"log", "writing"} =>
       kept = userGot /\ userGot = ringGot /\ ringGot = logGot + chunk

\* The log is at work on that chunk, and only then.
Stages ==
  /\ stage = "writing" => pc \notin {"down", "ready"} /\ len = chunk
  /\ stage # "writing" => pc \in {"down", "ready"}
  /\ child = "running" => pc # "down"
  /\ child # "running" => stage = "read"

Counts ==
  /\ child \in {"none", "running", "ok", "failed", "closed"}
  /\ stage \in {"read", "user", "ring", "log", "writing", "broken"}
  /\ chunk \in 0 .. ChunkBound
  /\ kept \in Nat /\ userGot \in Nat
  /\ start \in [ring : Nat, log : Nat]

PipeInv ==
  IInv /\ RingProofs!IInv /\ Counts /\ Stages /\ Place /\ WritersInOrder

-----------------------------------------------------------------------------

\* Within the pipeline the log does what it does on its own.
LEMMA LogStep ==
  ASSUME Counts, [PipeNext]_pipeVars
  PROVE  LogAction
<1>1. CASE NewSupervisor \/ Die \/ CloseLog
  BY <1>1 DEF NewSupervisor, Die, CloseLog, LogAction
<1>2. CASE LogBegins
  BY <1>2 DEF LogBegins, Counts, LogAction
<1>3. CASE LogWorks
  BY <1>3 DEF LogWorks, LogAction
<1>. QED
  BY <1>1, <1>2, <1>3
     DEF PipeNext, pipeVars, StartChild, ReadChunk, UserWrites, RingWrites,
         Exit, LogAction

\* The ring only ever writes, or is made anew.
LEMMA RingStep ==
  ASSUME RingProofs!IInv, Counts, [PipeNext]_pipeVars
  PROVE  RingProofs!IInv'
<1>1. CASE RingWrites
  <2>1. chunk \in Nat /\ Ring!Write(chunk)
    BY <1>1, BoundAssumption DEF Counts, RingWrites
  <2>2. Ring!max = RingProofs!max /\ Ring!Chunk(chunk) = RingProofs!Chunk(chunk)
    BY DEF Ring!max, RingProofs!max, Ring!Chunk, RingProofs!Chunk
  <2>3. Ring!Room(chunk) = RingProofs!Room(chunk)
    BY <2>2 DEF Ring!Room, RingProofs!Room
  <2>4. /\ Ring!Large(chunk) <=> RingProofs!Large(chunk)
        /\ Ring!Small(chunk) <=> RingProofs!Small(chunk)
    BY <2>2, <2>3
       DEF Ring!Large, RingProofs!Large, Ring!Small, RingProofs!Small
  <2>5. RingProofs!Write(chunk)
    BY <2>1, <2>4 DEF Ring!Write, RingProofs!Write
  <2>. QED
    BY <2>1, <2>5, RingProofs!WriteStep
<1>2. CASE Die
  BY <1>2
     DEF Die, RingProofs!IInv, RingProofs!TypeOK, RingProofs!KeepsTail,
         RingProofs!SizeAssumption, RingProofs!max
<1>3. CASE UNCHANGED ringVars
  BY <1>3
     DEF ringVars, RingProofs!IInv, RingProofs!TypeOK, RingProofs!KeepsTail,
         RingProofs!SizeAssumption, RingProofs!max
<1>. QED
  BY <1>1, <1>2, <1>3
     DEF PipeNext, pipeVars, NewSupervisor, StartChild, ReadChunk, UserWrites,
         LogBegins, LogWorks, Exit, CloseLog

\* Every step moves the chunk on by one writer, or stops it for good.
LEMMA PlaceStep ==
  ASSUME PipeInv, [PipeNext]_pipeVars
  PROVE  Counts' /\ Stages' /\ Place' /\ WritersInOrder'
<1>0. /\ written \in Nat /\ next \in Nat /\ len \in Nat
      /\ start.ring \in Nat /\ start.log \in Nat
      /\ kept \in Nat /\ userGot \in Nat /\ chunk \in Nat
      /\ ChunkBound \in Nat
  BY BoundAssumption
     DEF PipeInv, IInv, TypeOK, RingProofs!IInv, RingProofs!TypeOK, Counts
<1>. USE <1>0
     DEF PipeInv, Counts, Stages, Place, WritersInOrder, ringGot, logGot
<1>1. CASE NewSupervisor
  BY <1>1 DEF NewSupervisor, New, ringVars, childVars
<1>2. CASE StartChild
  BY <1>2 DEF StartChild, ringVars, vars
<1>3. ASSUME NEW n \in 1 .. ChunkBound, ReadChunk(n)
      PROVE  Counts' /\ Stages' /\ Place' /\ WritersInOrder'
  BY <1>3 DEF ReadChunk, ringVars, vars
<1>4. CASE UserWrites
  BY <1>4 DEF UserWrites, AfterUser, ringVars, vars
<1>5. CASE RingWrites
  <2>1. written' = written + chunk
    BY <1>5 DEF RingWrites, Ring!Write
  <2>. QED
    BY <1>5, <2>1 DEF RingWrites, vars
<1>6. CASE LogBegins
  <2>1. /\ stage = "log" /\ next' = next
        /\ pc' # "down" /\ (pc' # "ready" => len' = chunk)
    BY <1>6 DEF LogBegins, Write, WriteRotates, vars
  <2>. QED
    BY <1>6, <2>1 DEF LogBegins, ringVars
<1>7. CASE LogWorks
  <2>1. /\ pc' # "down" /\ len' = len
        /\ \/ next' = next
           \/ pc' = "ready" /\ \E n \in 0 .. len : next' = next + n
    <3>1. CASE Append
      <4>1. PICK n \in IF file = "stale" THEN {0}
                       ELSE IF CanFail THEN 0 .. len ELSE {len} :
              next' = next + n
        BY <3>1 DEF Append
      <4>2. n \in 0 .. len
        OBVIOUS
      <4>. QED
        BY <3>1, <4>1, <4>2 DEF Append
    <3>2. CASE RemoveOldest \/ ShiftBackup \/ MoveMain \/ Create
      BY <3>2 DEF RemoveOldest, ShiftBackup, MoveMain, Create
    <3>. QED
      BY <1>7, <3>1, <3>2 DEF LogWorks
  <2>2. /\ stage = "writing" /\ len = chunk
        /\ pc' # "ready" => stage' = "writing"
        /\ pc' = "ready" /\ Taken => stage' = "read"
        /\ pc' = "ready" /\ ~Taken => stage' = "broken"
        /\ UNCHANGED <<written, child, chunk, kept, userGot, start>>
    BY <1>7 DEF LogWorks, ringVars
  <2>3. Taken <=> next' = next + chunk
    BY DEF Taken
  <2>4. next' \in Nat /\ next <= next' /\ next' <= next + chunk
    BY <2>1, <2>2
  <2>5. pc' # "ready" => next' = next
    BY <2>1
  <2>. QED
    BY <2>1, <2>2, <2>3, <2>4, <2>5
<1>8. CASE Exit
  BY <1>8 DEF Exit, ringVars, vars
<1>9. CASE CloseLog
  <2>1. next' = next /\ pc' = pc
    BY <1>9 DEF CloseLog, Close, vars
  <2>. QED
    BY <1>9, <2>1 DEF CloseLog, ringVars
<1>10. CASE Die
  BY <1>10 DEF Die, Crash
<1>11. CASE UNCHANGED pipeVars
  BY <1>11 DEF pipeVars, vars, ringVars, childVars
<1>. QED
  BY <1>1, <1>2, <1>3, <1>4, <1>5, <1>6, <1>7, <1>8, <1>9, <1>10, <1>11
     DEF PipeNext

LEMMA PipeInitInv == PipeInit => PipeInv
<1>. SUFFICES ASSUME PipeInit PROVE PipeInv
  OBVIOUS
<1>1. IInv
  BY InitIInv DEF PipeInit
<1>2. RingProofs!IInv
  BY RingAssumption, RingProofs!InitIInv
     DEF PipeInit, Ring!Init, RingProofs!Init, Ring!SizeAssumption,
         RingProofs!SizeAssumption
<1>3. Counts /\ Stages /\ Place /\ WritersInOrder
  BY BoundAssumption
     DEF PipeInit, Init, Ring!Init, Counts, Stages, Place, WritersInOrder,
         ringGot, logGot
<1>. QED
  BY <1>1, <1>2, <1>3 DEF PipeInv

LEMMA PipeInvariance == PipeSpec => []PipeInv
<1>1. PipeInv /\ [PipeNext]_pipeVars => PipeInv'
  BY LogStep, StepIInv, RingStep, PlaceStep DEF PipeInv
<1>. QED
  BY <1>1, PipeInitInv, PTL DEF PipeSpec

\* Every variable of the pipeline keeps its type, and the log is at work
\* exactly while the pipeline waits for it.
THEOREM PipeTypes == PipeSpec => []PipeTypeOK
<1>1. RingProofs!IInv => Ring!TypeOK
  BY DEF RingProofs!IInv, RingProofs!TypeOK, RingProofs!max, Ring!TypeOK,
         Ring!max
<1>2. PipeInv => PipeTypeOK
  BY <1>1 DEF PipeInv, IInv, Counts, Stages, PipeTypeOK
<1>. QED
  BY <1>2, PipeInvariance, PTL

\* Nobody later among the writers has more of a child's output, and nobody
\* misses more than the chunk at which the copy stands or broke.
THEOREM OutputInOrder == PipeSpec => []WritersInOrder
<1>1. PipeInv => WritersInOrder
  BY DEF PipeInv
<1>. QED
  BY <1>1, PipeInvariance, PTL

\* The ring is the tail of the output of however many children.
THEOREM RingKeepsTail == PipeSpec => []KeepsTail
<1>1. PipeInv => KeepsTail
  BY DEF PipeInv, RingProofs!IInv, RingProofs!KeepsTail, KeepsTail,
         Ring!KeepsTail, RingProofs!max, Ring!max
<1>. QED
  BY <1>1, PipeInvariance, PTL

\* The log keeps its order, its limits and its size within the pipeline.
THEOREM LogHolds == PipeSpec => [](Chronological /\ SizeIsTrue /\ FilesBounded)
<1>1. PipeInv => Chronological /\ SizeIsTrue /\ FilesBounded
  BY DEF PipeInv, IInv
<1>. QED
  BY <1>1, PipeInvariance, PTL

LEMMA AdjacentInvariance == PipeSpec => []Adjacent
<1>1. PipeInit => Adjacent
  BY InitIInv DEF PipeInit, Init, Adjacent, Vacant, NoHoles, Exists
<1>2. Adjacent /\ PipeInv /\ [PipeNext]_pipeVars => Adjacent'
  BY LogStep, AdjacentStep DEF PipeInv
<1>. QED
  BY <1>1, <1>2, PipeInvariance, PTL DEF PipeSpec

\* Nothing is missing between two files of the log, or after the last, unless
\* rotate has ignored an error.
THEOREM NothingMissing == PipeSpec => []NoHoles
<1>1. Adjacent => NoHoles
  BY DEF Adjacent
<1>. QED
  BY <1>1, AdjacentInvariance, PTL

\* A set of natural numbers that is not empty has a least element.
LEMMA SmallestInSet ==
  ASSUME NEW S \in SUBSET Nat, S # {}
  PROVE  \E x \in S : \A y \in S : x <= y
<1>. DEFINE R == {ss \in Nat \X Nat : ss[1] < ss[2]}
<1>1. WF!IsWellFoundedOn(R, Nat)
  BY WF!NatLessThanWellFounded DEF WF!OpToRel
<1>2. \E x \in S : \A y \in S : <<y, x>> \notin R
  <2>. HIDE DEF R
  <2>. QED
    BY <1>1, WF!WFMin
<1>3. PICK x \in S : \A y \in S : <<y, x>> \notin R
  BY <1>2
<1>4. ASSUME NEW y \in S
      PROVE  x <= y
  <2>1. x \in Nat /\ y \in Nat /\ <<y, x>> \in Nat \X Nat
    OBVIOUS
  <2>2. <<y, x>>[1] = y /\ <<y, x>>[2] = x
    OBVIOUS
  <2>3. ~(y < x)
    BY <1>3, <2>1, <2>2
  <2>. QED
    BY <2>1, <2>3
<1>. QED
  BY <1>4

\* Where there are no holes every byte is in a file or older than all of them:
\* the newest of the files that begin before it has it.
LEMMA NoByteMissing ==
  ASSUME Adjacent, ignored = {}, NEW b \in Nat, b < next
  PROVE  OnDisk(b) \/ RotatedOut(b)
<1>. SUFFICES ASSUME ~RotatedOut(b) PROVE OnDisk(b)
  OBVIOUS
<1>. DEFINE before == {k \in Slots : Exists(k) /\ disk[k].first <= b}
<1>1. \A k \in Slots : Exists(k) => disk[k].first \in Nat /\ disk[k].next \in Nat
  BY DEF Adjacent, IInv, TypeOK, Exists, Files
<1>2. before # {} /\ before \subseteq Nat
  BY <1>1, LimitAssumption DEF RotatedOut, Slots
<1>3. PICK k \in before : \A j \in before : k <= j
  BY <1>2, SmallestInSet
<1>4. CASE b < disk[k].next
  BY <1>3, <1>4 DEF OnDisk
<1>5. CASE disk[k].next <= b
  <2>1. disk[k].next # next /\ next \in Nat
    BY <1>1, <1>3, <1>5 DEF Adjacent, IInv, TypeOK
  <2>2. PICK j \in Slots : j < k /\ Exists(j) /\ disk[j].first = disk[k].next
    BY <1>3, <2>1 DEF Adjacent, NoHoles
  <2>. QED
    BY <1>2, <1>3, <1>5, <2>2 DEF Slots
<1>. QED
  BY <1>1, <1>3, <1>4, <1>5

\* A successful child's output went to every writer, and unless rotate has
\* ignored an error, no byte of it is missing from the middle of the log.
THEOREM SuccessIsComplete == PipeSpec => []SuccessMeansAll
<1>1. ASSUME PipeInv, child = "ok"
      PROVE  kept = userGot /\ kept = ringGot /\ kept = logGot
  BY <1>1 DEF PipeInv, Place
<1>2. ASSUME PipeInv, Adjacent, ignored = {}, NEW b \in start.log .. next - 1
      PROVE  OnDisk(b) \/ RotatedOut(b)
  <2>1. b \in Nat /\ b < next
    BY <1>2 DEF PipeInv, Counts, IInv, TypeOK
  <2>. QED
    BY <1>2, <2>1, NoByteMissing
<1>3. PipeInv /\ Adjacent => SuccessMeansAll
  BY <1>1, <1>2 DEF SuccessMeansAll
<1>. QED
  BY <1>3, PipeInvariance, AdjacentInvariance, PTL

-----------------------------------------------------------------------------
(* What is lost when system calls fail, and how long a rotation is         *)

\* A file that is moved survives under its new number.
LEMMA MovedSurvives ==
  ASSUME IInv, NEW k \in Slots, k + 1 \in Slots, Exists(k), Rename(k, k + 1)
  PROVE  \A f \in Slots : f # k + 1 /\ Exists(f) => Survives(f)
<1>1. /\ disk'[k + 1] = disk[k]
      /\ \A f \in Slots : f # k /\ f # k + 1 => disk'[f] = disk[f]
  <2>1. k # k + 1
    BY DEF Slots
  <2>. QED
    BY <2>1, Renamed
<1>2. disk[k] \in Files
  BY DEF IInv, TypeOK, Exists
<1>3. Survives(k)
  BY <1>1, <1>2 DEF Survives, Exists, Files
<1>. QED
  BY <1>1, <1>3, Stays

\* The one file that a step may give up.
LEMMA OneGivenUp ==
  ASSUME IInv, Vacant, LogAction
  PROVE  \E g \in Slots : /\ g # 0 \/ (pc = "create" /\ "log" \in ignored)
                          /\ \A f \in Slots : f # g /\ Exists(f) => Survives(f)
<1>. USE Paths
<1>1. CASE UNCHANGED disk
  <2>1. \A f \in Slots : Exists(f) => Survives(f)
    BY <1>1, Stays
  <2>. QED
    BY <2>1
<1>2. CASE RemoveOldest /\ disk' = [disk EXCEPT ![maxBackups] = NoFile]
  <2>1. \A f \in Slots : f # maxBackups => disk'[f] = disk[f]
    BY <1>2 DEF IInv, TypeOK
  <2>. QED
    BY <2>1, Stays, LimitAssumption
<1>3. CASE ShiftBackup /\ Exists(i) /\ Rename(i, ShiftTarget)
  <2>1. i \in Slots /\ i + 1 \in Slots /\ i + 1 # 0 /\ Rename(i, i + 1)
    BY <1>3 DEF ShiftBackup, ShiftTarget, Slots
  <2>. QED
    BY <1>3, <2>1, MovedSurvives
<1>4. CASE MoveMain /\ Exists(0) /\ Rename(0, 1)
  <2>1. 0 + 1 \in Slots /\ Rename(0, 0 + 1) /\ 0 + 1 # 0
    BY <1>4
  <2>. QED
    BY <1>4, <2>1, MovedSurvives
<1>5. CASE ~Exists(0) /\ disk' = [disk EXCEPT ![0] = Empty]
  <2>1. \A f \in Slots : Exists(f) => disk'[f] = disk[f]
    BY <1>5 DEF IInv, TypeOK
  <2>. QED
    BY <2>1, Stays
<1>6. CASE Create
  <2>1. CASE disk' = [disk EXCEPT ![0] = Empty] /\ "log" \in ignored
    <3>1. \A f \in Slots : f # 0 => disk'[f] = disk[f]
      BY <2>1 DEF IInv, TypeOK
    <3>. QED
      BY <1>6, <2>1, <3>1, Stays DEF Create
  <2>. QED
    BY <1>1, <1>5, <1>6, <2>1 DEF Create, Vacant
<1>7. CASE New
  <2>1. Exists(0) => UNCHANGED disk
    BY <1>7 DEF New, Opened, IInv, TypeOK
  <2>2. ~Exists(0) => disk' = [disk EXCEPT ![0] = Empty]
    BY <1>7 DEF New, Opened
  <2>. QED
    BY <1>1, <1>5, <2>1, <2>2
<1>8. CASE Append
  <2>1. PICK n \in Nat : disk'[0] = Extended(disk[0], n)
    BY <1>8, AppendEffect
  <2>2. n >= 0
    OBVIOUS
  <2>3. 0 \in Slots /\ Exists(0) /\ disk[0] \in Files
    BY <1>8, AppendEffect
  <2>4. /\ disk'[0].first = disk[0].first /\ disk'[0].next = disk[0].next + n
        /\ disk'[0] \in Files
        /\ \A f \in Slots : f # 0 => disk'[f] = disk[f]
    BY <1>8, <2>1, AppendEffect DEF Extended
  <2>5. Survives(0)
    BY <2>2, <2>3, <2>4, NoFileAssumption DEF Survives, Files
  <2>. QED
    BY <2>4, <2>5, Stays
<1>. QED
  BY <1>1, <1>2, <1>3, <1>4, <1>6, <1>7, <1>8
     DEF LogAction, RemoveOldest, ShiftBackup, MoveMain, Close, Crash,
         Write, WriteRotates, vars

\* As long as rotate has ignored no error of Stat or Rename, no step, restart
\* or other failure gives up a file that is not the oldest backup; whatever
\* it has ignored, a step gives up one file at most, and the log only where
\* rotate empties one that Stat has failed to see.
THEOREM OldestOnly == PipeSpec => OnlyOldestLost
<1>1. Adjacent /\ PipeInv /\ [PipeNext]_pipeVars =>
        [(ignored = {} => OldestGoes) /\ OneGoes]_vars
  <2>. SUFFICES ASSUME Adjacent, PipeInv, [PipeNext]_pipeVars, ~UNCHANGED vars
                PROVE  (ignored = {} => OldestGoes) /\ OneGoes
    OBVIOUS
  <2>1. LogAction
    BY LogStep DEF PipeInv
  <2>2. ignored = {} => OldestGoes
    BY LogStep, ChainStep DEF PipeInv, AllSurvive, OldestGoes
  <2>3. OneGoes
    BY <2>1, OneGivenUp, Paths DEF Adjacent, PipeInv, OneGoes
  <2>. QED
    BY <2>2, <2>3
<1>. QED
  BY <1>1, AdjacentInvariance, PipeInvariance, PTL DEF PipeSpec, OnlyOldestLost

\* The system calls that a Write has still to make, at most.
CallsLeft ==
  CASE pc = "remove" -> maxBackups + 3
    [] pc = "shift" -> i + 3
    [] pc = "main" -> 3
    [] pc = "create" -> 2
    [] pc = "append" -> 1
    [] OTHER -> 0

\* Each of them leaves fewer: a Write that rotates, and holds w.mu while it
\* does, makes maxBackups + 3 of them after its Close, whatever fails.
RotationEnds == [][LogWorks => CallsLeft' < CallsLeft]_pipeVars

\* The loop over the backups ends, with one backup as with any number.
THEOREM RotationShortens == PipeSpec => RotationEnds
<1>1. PipeInv /\ [PipeNext]_pipeVars => [LogWorks => CallsLeft' < CallsLeft]_pipeVars
  <2>. SUFFICES ASSUME PipeInv, LogWorks
                PROVE  CallsLeft' < CallsLeft
    OBVIOUS
  <2>. USE LimitAssumption DEF CallsLeft, PipeInv, IInv, TypeOK, Control
  <2>1. CASE RemoveOldest
    BY <2>1 DEF RemoveOldest
  <2>2. CASE ShiftBackup
    BY <2>2 DEF ShiftBackup, LastTurn
  <2>3. CASE MoveMain
    BY <2>3 DEF MoveMain
  <2>4. CASE Create
    BY <2>4 DEF Create
  <2>5. CASE Append
    BY <2>5 DEF Append
  <2>. QED
    BY <2>1, <2>2, <2>3, <2>4, <2>5 DEF LogWorks
<1>. QED
  BY <1>1, PipeInvariance, PTL DEF PipeSpec, RotationEnds
=============================================================================
