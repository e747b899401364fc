----------------------------- MODULE RingBuffer -----------------------------
(***************************************************************************)
(* tools/cmdrunner/ring_buffer.go: the tail of a child's output that       *)
(* LastStdout and LastStderr return.  Every method holds r.mu throughout,  *)
(* so each is one step.  A byte is named by its place in the whole output, *)
(* which makes "the tail" something an invariant can state.                *)
(***************************************************************************)
EXTENDS Integers, Sequences

CONSTANTS
  option,      \* the argument of NewRingBuffer
  DefaultMax,  \* 64 * 1024
  ByteBound    \* bound on the bytes ever written

SizeAssumption ==
  option \in Int /\ DefaultMax \in Nat \ {0} /\ ByteBound \in Nat

VARIABLES
  buf,
  written,   \* bytes offered to Write so far
  cleared    \* history: their number when Clear was last called

vars == <<buf, written, cleared>>

max == IF option <= 0 THEN DefaultMax ELSE option

TypeOK ==
  /\ buf \in Seq(Nat)
  /\ Len(buf) <= max      \* append never outgrows the array made by New
  /\ written \in Nat /\ cleared \in Nat

-----------------------------------------------------------------------------

Init == buf = <<>> /\ written = 0 /\ cleared = 0

\* The next n bytes of the output.
Chunk(n) == [i \in 1 .. n |-> written + i]

\* What is kept of buf to make room for n more bytes.
RoomMutant(n) ==   \* drops one byte too few
  LET drop == Len(buf) + n - max
  IN  IF drop <= 0 THEN buf
      ELSE IF drop >= Len(buf) THEN <<>> ELSE SubSeq(buf, drop, Len(buf))

Room(n) ==
  LET drop == Len(buf) + n - max
  IN  IF drop <= 0 THEN buf
      ELSE IF drop >= Len(buf) THEN <<>> ELSE SubSeq(buf, drop + 1, Len(buf))

LargeMutant(n) ==   \* keeps the beginning of the chunk
  n >= max /\ buf' = SubSeq(Chunk(n), 1, max)

\* A chunk that fills the buffer replaces it by the chunk's own tail.
Large(n) == n >= max /\ buf' = SubSeq(Chunk(n), n - max + 1, n)

Small(n) == n < max /\ buf' = Room(n) \o Chunk(n)

\* Write: n = 0 returns at once.
Write(n) ==
  /\ n > 0
  /\ Large(n) \/ Small(n)
  /\ written' = written + n
  /\ UNCHANGED cleared

Clear ==
  /\ buf' = <<>>
  /\ cleared' = written
  /\ UNCHANGED written

Next ==
  \/ \E n \in 1 .. (ByteBound - written) : Write(n)
  \/ Clear

Spec == Init /\ [][Next]_vars

-----------------------------------------------------------------------------
(* Properties                                                              *)

\* The buffer holds the last bytes written, in order and without a gap, and
\* as many of them as there are since Clear, up to its size: whatever the
\* sizes of the writes that brought them and wherever they wrapped.
KeepsTail ==
  /\ Len(buf) = IF written - cleared < max THEN written - cleared ELSE max
  /\ \A i \in 1 .. Len(buf) : buf[i] = written - Len(buf) + i
=============================================================================
