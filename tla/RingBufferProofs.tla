-------------------------- MODULE RingBufferProofs --------------------------
(* Theorems about RingBuffer, for every size and every chunk.              *)
EXTENDS RingBuffer, SequenceTheorems, TLAPS

IInv == SizeAssumption /\ TypeOK /\ cleared <= written /\ KeepsTail

\* NewRingBuffer never makes a buffer without room.
LEMMA MaxPositive == IInv => max \in Nat \ {0}
  BY DEF IInv, SizeAssumption, max

\* The last k elements of a sequence.
LEMMA LastOf ==
  ASSUME NEW c \in Seq(Nat), NEW k \in Nat, k <= Len(c),
         NEW b, b = SubSeq(c, Len(c) - k + 1, Len(c))
  PROVE  /\ b \in Seq(Nat) /\ Len(b) = k
         /\ \A i \in 1 .. k : b[i] = c[Len(c) - k + i]
<1>. DEFINE m == Len(c) - k + 1
<1>1. Len(c) \in Nat /\ m \in Int /\ \A i \in m .. Len(c) : c[i] \in Nat
  OBVIOUS
<1>2. b = SubSeq(c, m, Len(c))
  OBVIOUS
<1>3. Len(c) - m + 1 = k /\ \A i \in 1 .. k : m + i - 1 = Len(c) - k + i
  BY <1>1
<1>4. m <= Len(c) \/ k = 0
  BY <1>1
<1>. HIDE DEF m
<1>5. /\ b \in Seq(Nat)
      /\ Len(b) = IF m <= Len(c) THEN Len(c) - m + 1 ELSE 0
      /\ \A i \in 1 .. Len(c) - m + 1 : b[i] = c[m + i - 1]
  BY <1>1, <1>2, SubSeqProperties
<1>. QED
  BY <1>1, <1>3, <1>4, <1>5

\* The next bytes of the output, in order.
LEMMA ChunkBytes ==
  ASSUME IInv, NEW n \in Nat
  PROVE  /\ Chunk(n) \in Seq(Nat) /\ Len(Chunk(n)) = n
         /\ \A i \in 1 .. n : Chunk(n)[i] = written + i
  BY DEF IInv, TypeOK, Chunk

\* A buffer that ends with the last byte and is as long as it can be.
LEMMA TailAfter ==
  ASSUME IInv, NEW n \in Nat \ {0}, NEW b, buf' = b, written' = written + n,
         cleared' = cleared, b \in Seq(Nat),
         Len(b) = IF written + n - cleared < max THEN written + n - cleared
                                                 ELSE max,
         \A i \in 1 .. Len(b) : b[i] = written + n - Len(b) + i
  PROVE  IInv'
  BY MaxPositive DEF IInv, TypeOK, KeepsTail, max

\* A chunk at least as large as the buffer leaves its own tail.
LEMMA LargeKeepsTail ==
  ASSUME IInv, NEW n \in Nat \ {0}, Large(n), written' = written + n,
         cleared' = cleared
  PROVE  IInv'
<1>0. max \in Nat \ {0}
  BY MaxPositive
<1>. DEFINE b == SubSeq(Chunk(n), n - max + 1, n)
<1>1. n >= max /\ buf' = b
  BY DEF Large
<1>2. /\ b \in Seq(Nat) /\ Len(b) = max
      /\ \A i \in 1 .. max : b[i] = Chunk(n)[n - max + i]
  <2>. DEFINE c == Chunk(n)
  <2>1. c \in Seq(Nat) /\ Len(c) = n
    BY ChunkBytes
  <2>2. b = SubSeq(c, Len(c) - max + 1, Len(c))
    BY <2>1
  <2>3. max \in Nat /\ max <= Len(c)
    BY <1>1, <2>1, <1>0
  <2>. HIDE DEF b, c
  <2>4. /\ b \in Seq(Nat) /\ Len(b) = max
        /\ \A i \in 1 .. max : b[i] = c[Len(c) - max + i]
    BY <2>1, <2>2, <2>3, LastOf
  <2>. QED
    BY <2>1, <2>4 DEF c
<1>. HIDE DEF b
<1>3. \A i \in 1 .. Len(b) : b[i] = written + n - Len(b) + i
  <2>. SUFFICES ASSUME NEW i \in 1 .. max
                PROVE  b[i] = written + n - max + i
    BY <1>2
  <2>1. n - max + i \in 1 .. n
    BY <1>1, <1>0
  <2>2. Chunk(n)[n - max + i] = written + (n - max + i)
    BY <2>1, ChunkBytes
  <2>. QED
    BY <1>2, <2>2, <1>0 DEF IInv, TypeOK
<1>4. Len(b) = IF written + n - cleared < max THEN written + n - cleared
                                              ELSE max
  BY <1>1, <1>2, <1>0 DEF IInv, TypeOK
<1>. QED
  BY <1>1, <1>2, <1>3, <1>4, TailAfter

\* What Room keeps is the end of the buffer, as much as fits.
LEMMA RoomKeepsEnd ==
  ASSUME IInv, NEW n \in Nat, n < max
  PROVE  /\ Room(n) \in Seq(Nat)
         /\ Len(Room(n)) = IF Len(buf) + n - max <= 0 THEN Len(buf)
                                                      ELSE max - n
         /\ \A i \in 1 .. Len(Room(n)) :
              Room(n)[i] = written - Len(Room(n)) + i
<1>0. max \in Nat \ {0}
  BY MaxPositive
<1>. DEFINE drop == Len(buf) + n - max
<1>1. Len(buf) \in Nat /\ Len(buf) <= max /\ buf \in Seq(Nat)
  BY DEF IInv, TypeOK
<1>2. CASE drop <= 0
  BY <1>1, <1>2 DEF Room, IInv, KeepsTail
<1>3. CASE drop > 0
  <2>1. drop < Len(buf) /\ drop \in Nat
    BY <1>1, <1>3, <1>0
  <2>2. Room(n) = SubSeq(buf, drop + 1, Len(buf))
    BY <1>3, <2>1, <1>1, <1>0 DEF Room
  <2>3. max - n \in Nat /\ Len(buf) - (max - n) = drop /\ max - n <= Len(buf)
    BY <1>1, <1>3, <2>1, <1>0
  <2>. DEFINE k == max - n
             r == Room(n)
  <2>4. r = SubSeq(buf, Len(buf) - k + 1, Len(buf))
    BY <2>2, <2>3
  <2>5. k \in Nat /\ k <= Len(buf)
    BY <2>3
  <2>. HIDE DEF k, r
  <2>6. /\ r \in Seq(Nat) /\ Len(r) = k
        /\ \A i \in 1 .. k : r[i] = buf[Len(buf) - k + i]
    BY <1>1, <2>4, <2>5, LastOf, SMTT(60)
  <2>7. \A i \in 1 .. k : r[i] = written - k + i
    <3>. SUFFICES ASSUME NEW i \in 1 .. k PROVE r[i] = written - k + i
      OBVIOUS
    <3>1. Len(buf) - k + i \in 1 .. Len(buf)
      BY <1>1, <2>5
    <3>2. buf[Len(buf) - k + i] = written - Len(buf) + (Len(buf) - k + i)
      BY <3>1 DEF IInv, KeepsTail
    <3>. QED
      BY <1>1, <2>5, <2>6, <3>2 DEF IInv, TypeOK
  <2>8. ~(Len(buf) + n - max <= 0)
    BY <1>1, <1>3, <1>0
  <2>. QED
    BY <2>6, <2>7, <2>8 DEF k, r
<1>. QED
  BY <1>1, <1>2, <1>3, <1>0

\* A smaller chunk goes behind what Room kept.
LEMMA SmallKeepsTail ==
  ASSUME IInv, NEW n \in Nat \ {0}, Small(n), written' = written + n,
         cleared' = cleared
  PROVE  IInv'
<1>0. max \in Nat \ {0}
  BY MaxPositive
<1>. DEFINE r == Room(n)
            c == Chunk(n)
            b == r \o c
<1>1. n < max /\ buf' = b
  BY DEF Small
<1>2. /\ r \in Seq(Nat)
      /\ Len(r) = IF Len(buf) + n - max <= 0 THEN Len(buf) ELSE max - n
      /\ \A i \in 1 .. Len(r) : r[i] = written - Len(r) + i
  BY <1>1, RoomKeepsEnd
<1>c. c \in Seq(Nat) /\ Len(c) = n /\ \A i \in 1 .. n : c[i] = written + i
  BY ChunkBytes
<1>. HIDE DEF r, c
<1>3. /\ b \in Seq(Nat) /\ Len(b) = Len(r) + n
      /\ \A i \in 1 .. Len(r) + n :
           b[i] = IF i <= Len(r) THEN r[i] ELSE c[i - Len(r)]
  BY <1>2, <1>c, ConcatProperties
<1>4. Len(b) = IF written + n - cleared < max THEN written + n - cleared
                                              ELSE max
  BY <1>1, <1>2, <1>3, <1>0 DEF IInv, TypeOK, KeepsTail
<1>5. \A i \in 1 .. Len(b) : b[i] = written + n - Len(b) + i
  <2>. SUFFICES ASSUME NEW i \in 1 .. Len(b)
                PROVE  b[i] = written + n - Len(b) + i
    OBVIOUS
  <2>. HIDE DEF b
  <2>1. CASE i <= Len(r)
    BY <2>1, <1>2, <1>3 DEF IInv, TypeOK
  <2>2. CASE i > Len(r)
    <3>1. i - Len(r) \in 1 .. n
      BY <2>2, <1>2, <1>3
    <3>2. b[i] = c[i - Len(r)]
      BY <2>2, <1>2, <1>3
    <3>3. c[i - Len(r)] = written + (i - Len(r))
      BY <3>1, <1>c
    <3>4. /\ Len(b) = Len(r) + n /\ Len(r) \in Nat
          /\ written \in Nat /\ i \in Int
      BY <1>2, <1>3 DEF IInv, TypeOK
    <3>. QED
      BY <3>2, <3>3, <3>4
  <2>. QED
    BY <2>1, <2>2, <1>2, <1>3
<1>. HIDE DEF b
<1>. QED
  BY <1>1, <1>3, <1>4, <1>5, TailAfter

\* So does every Write.
LEMMA WriteStep ==
  ASSUME IInv, NEW n \in Nat, Write(n)
  PROVE  IInv'
  BY LargeKeepsTail, SmallKeepsTail DEF Write

\* A new buffer is the tail of no output.
LEMMA InitIInv == SizeAssumption /\ Init => IInv
  BY DEF Init, IInv, TypeOK, KeepsTail, SizeAssumption, max

\* Every operation keeps the buffer a tail of the output.
LEMMA StepIInv == IInv /\ [Next]_vars => IInv'
<1>. SUFFICES ASSUME IInv, [Next]_vars PROVE IInv'
  OBVIOUS
<1>1. CASE \E n \in 1 .. (ByteBound - written) : Write(n)
  BY <1>1, WriteStep DEF IInv, TypeOK, SizeAssumption
<1>2. CASE Clear
  BY <1>2, MaxPositive DEF Clear, IInv, TypeOK, KeepsTail, max
<1>3. CASE UNCHANGED vars
  BY <1>3 DEF vars, IInv, TypeOK, KeepsTail, max
<1>. QED
  BY <1>1, <1>2, <1>3 DEF Next

\* The buffer is the tail of the output, for every size and every chunk.
THEOREM TailKept == SizeAssumption /\ Spec => []KeepsTail
<1>1. IInv => KeepsTail
  BY DEF IInv
<1>. QED
  BY <1>1, InitIInv, StepIInv, PTL DEF Spec

\* Its length never exceeds its capacity.
THEOREM TypeCorrect == SizeAssumption /\ Spec => []TypeOK
<1>1. IInv => TypeOK
  BY DEF IInv
<1>. QED
  BY <1>1, InitIInv, StepIInv, PTL DEF Spec
=============================================================================
