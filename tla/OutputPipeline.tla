--------------------------- MODULE OutputPipeline ---------------------------
(***************************************************************************)
(* The way of one output stream of the supervised children: os/exec copies *)
(* the pipe to the process's own buffer, then the user's writer, then the  *)
(* ring buffer, then the rotating log, by two io.MultiWriters one in the   *)
(* other (buildOutputWriter in cmdrunner.go, combineWriters in             *)
(* supervisor.go).  The ring and the log outlive the child, the ring until *)
(* the program ends, the log on the disk.                                  *)
(*                                                                         *)
(* The module extends RotateWriter and has a RingBuffer as Ring.           *)
(***************************************************************************)
EXTENDS RotateWriter

CONSTANTS
  option, DefaultMax   \* as in RingBuffer

VARIABLES
  buf, written, cleared,   \* as in RingBuffer
  child,     \* "none", "running", or how the last one ended; "closed" when
             \* the supervisor's loop has closed the log
  stage,     \* who is to get the chunk now
  chunk,     \* its length
  kept,      \* bytes of this child in the process's own buffer
  userGot,   \* bytes of this child the user's writer has taken
  start      \* history: written and next when the child was started

ringVars == <<buf, written, cleared>>
childVars == <<child, stage, chunk, kept, userGot, start>>
pipeVars == <<vars, ringVars, childVars>>

Ring == INSTANCE RingBuffer

ASSUME RingAssumption == Ring!SizeAssumption

PipeTypeOK ==
  /\ TypeOK /\ Ring!TypeOK
  /\ child \in {"none", "running", "ok", "failed", "closed"}
  /\ stage \in {"read", "user", "ring", "log", "writing", "broken"}
  /\ chunk \in 0 .. ChunkBound
  /\ stage = "writing" <=> pc \notin {"down", "ready"}
  /\ child # "running" => stage = "read"

-----------------------------------------------------------------------------

PipeInit ==
  /\ Init /\ Ring!Init
  /\ child = "none" /\ stage = "read" /\ chunk = 0
  /\ kept = 0 /\ userGot = 0 /\ start = [ring |-> 0, log |-> 0]

\* NewSupervisor: a new ring, and the log as the last run has left it.
NewSupervisor ==
  /\ New
  /\ UNCHANGED <<ringVars, childVars>>

\* Start of the package, with the writers combined anew for every child.
StartChild ==
  /\ pc = "ready" /\ child \in {"none", "ok", "failed"}
  /\ child' = "running" /\ kept' = 0 /\ userGot' = 0
  /\ start' = [ring |-> written, log |-> next]
  /\ UNCHANGED <<ringVars, vars, stage, chunk>>

\* The child writes and os/exec reads n bytes; the process's own buffer is
\* the first to get them and takes all.
ReadChunk(n) ==
  /\ child = "running" /\ stage = "read"
  /\ chunk' = n /\ kept' = kept + n
  /\ stage' = "user"
  /\ UNCHANGED <<ringVars, vars, child, userGot, start>>

AfterUserMutant == "log"   \* no ring among the writers

AfterUser == "ring"

\* An error or a short write of the user's writer ends the copy; what it has
\* taken of that chunk is not counted.
UserWrites ==
  /\ stage = "user"
  /\ \/ userGot' = userGot + chunk /\ stage' = AfterUser
     \/ CanFail /\ stage' = "broken" /\ UNCHANGED userGot
  /\ UNCHANGED <<ringVars, vars, child, chunk, kept, start>>

RingWrites ==
  /\ stage = "ring"
  /\ Ring!Write(chunk)
  /\ stage' = "log"
  /\ UNCHANGED <<vars, child, chunk, kept, userGot, start>>

\* RotateWriter.Write up to its first system call.  A writer that has no file
\* since a rotation failed refuses the chunk.
LogBegins ==
  /\ stage = "log"
  /\ \/ file = "nil" /\ UNCHANGED vars
     \/ Write(chunk) \/ WriteRotates(chunk)
  /\ stage' = IF pc' = "ready" THEN "broken" ELSE "writing"
  /\ UNCHANGED <<ringVars, child, chunk, kept, userGot, start>>

\* RotateWriter.Write returns the length of the chunk and no error.
Taken == next' = next + chunk

LogWorks ==
  /\ stage = "writing"
  /\ RemoveOldest \/ ShiftBackup \/ MoveMain \/ Create \/ Append
  /\ stage' = IF pc' # "ready" THEN "writing"
              ELSE IF Taken THEN "read" ELSE "broken"
  /\ UNCHANGED <<ringVars, child, chunk, kept, userGot, start>>

\* Process.Wait: the child has ended and the copy too.  The error of the copy
\* is reported unless the child's own exit is an error already.
Exit ==
  /\ child = "running" /\ stage \in {"read", "broken"}
  /\ child' \in IF stage = "broken" THEN {"failed"} ELSE {"ok", "failed"}
  /\ stage' = "read"
  /\ UNCHANGED <<ringVars, vars, chunk, kept, userGot, start>>

\* The end of the supervisor's loop.
CloseLog ==
  /\ pc = "ready" /\ child \in {"none", "ok", "failed"}
  /\ \/ Close
     \/ file = "nil" /\ UNCHANGED vars
  /\ child' = "closed"
  /\ UNCHANGED <<ringVars, stage, chunk, kept, userGot, start>>

\* The program dies; its buffers are gone.
Die ==
  /\ Crash
  /\ buf' = <<>> /\ written' = 0 /\ cleared' = 0
  /\ child' = "none" /\ stage' = "read"
  /\ kept' = 0 /\ userGot' = 0 /\ start' = [ring |-> 0, log |-> next]
  /\ UNCHANGED chunk

PipeNext ==
  \/ NewSupervisor \/ StartChild \/ UserWrites \/ RingWrites
  \/ LogBegins \/ LogWorks \/ Exit \/ CloseLog \/ Die
  \/ \E n \in 1 .. ChunkBound :
       next + n <= ByteBound /\ written + n <= ByteBound /\ ReadChunk(n)

PipeSpec == PipeInit /\ [][PipeNext]_pipeVars

-----------------------------------------------------------------------------
(* Properties                                                              *)

\* The ring is the tail of what it was given, by however many children.
KeepsTail == Ring!KeepsTail

ringGot == written - start.ring
logGot == next - start.log

\* Whoever comes later among the writers never has more of a child's output,
\* and misses at most the chunk on its way or the one at which the copy broke.
WritersInOrder ==
  /\ kept >= userGot /\ userGot >= ringGot /\ ringGot >= logGot
  /\ kept - logGot <= chunk

OnDisk(b) == \E k \in Slots : /\ Exists(k)
                              /\ disk[k].first <= b /\ b < disk[k].next
RotatedOut(b) == \A k \in Slots : Exists(k) => b < disk[k].first

\* Of a child that is reported as a success every writer was given all of its
\* output.  Unless rotate has ignored an error, each of its bytes that is not
\* on the disk went the regular way out, with the oldest backups.
SuccessMeansAll ==
  child = "ok" =>
    /\ kept = userGot /\ kept = ringGot /\ kept = logGot
    /\ ignored = {} =>
         \A b \in start.log .. next - 1 : OnDisk(b) \/ RotatedOut(b)
=============================================================================
