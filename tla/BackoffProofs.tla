--------------------------- MODULE BackoffProofs ---------------------------
(***************************************************************************)
(* Theorems about Backoff, for words of any width, any arguments, any      *)
(* ratio and any number of restarts.                                       *)
(***************************************************************************)
EXTENDS Backoff, TLAPS

USE HalfAssumption, DefaultAssumption, ArgumentAssumption, PartsAssumption,
    RestartAssumption

-----------------------------------------------------------------------------
(* Arithmetic                                                              *)

\* An overflow stays within the word.
LEMMA WrapWord == \A x \in Int : Wrap(x) \in Durations
  BY DEF Wrap, Durations

\* There is none as long as the result fits.
LEMMA WrapFits == \A x \in Durations : Wrap(x) = x
  BY DEF Wrap, Durations

LEMMA TimesMonotone ==
  ASSUME NEW x \in Nat, NEW y \in Nat, NEW z \in Nat, x <= y
  PROVE  x * z <= y * z
<1>1. (y - x) * z \in Nat
  BY Z3
<1>2. y * z = x * z + (y - x) * z
  BY Z3
<1> QED  BY <1>1, <1>2

-----------------------------------------------------------------------------
(* The invariant                                                           *)

\* While the loop runs there has been no overflow, and after its first
\* iteration the maximum has not been reached; what it returns is at least
\* the smaller of its two arguments.
Doubling ==
  Sane =>
    /\ pc \in {"loop", "jitter"} => 0 < d /\ Lesser(base, max) <= d
    /\ pc = "loop" => d = exact /\ (d = base \/ d < max)
    /\ pc = "jitter" => d <= max /\ d = Lesser(exact, max)

IInv ==
  /\ TypeOK
  /\ max > 0 /\ (kind = "exponential" => base > 0)
  /\ Doubling
  /\ WaitsAreBounded

\* The defaults are sane, and what is replaced by them was not positive.
LEMMA InitIInv == Init => IInv
<1> SUFFICES ASSUME Init PROVE IInv
  OBVIOUS
<1>1. /\ max \in Durations /\ max > 0
      /\ base \in Durations /\ (kind = "exponential" => base > 0)
      /\ kind \in {"fixed", "exponential"}
  <2>1. PICK m \in Maxes : max = OrDefault(m, DefaultMax)
    BY DEF Init
  <2>2. max \in Durations /\ max > 0
    BY <2>1 DEF OrDefault, Durations
  <2>3. CASE kind = "fixed" /\ base \in Bases
    BY <2>2, <2>3
  <2>4. ASSUME kind = "exponential", NEW b \in Bases,
               base = OrDefault(b, DefaultBase)
        PROVE  base \in Durations /\ base > 0
    BY <2>4 DEF OrDefault, Durations
  <2> QED  BY <2>2, <2>3, <2>4 DEF Init
<1>2. 0 \in Durations /\ 1 \in Nat \ {0} /\ 0 \in 0 .. RestartBound
  BY DEF Durations
<1>3. TypeOK
  BY <1>1, <1>2 DEF Init, TypeOK
<1>4. Doubling /\ WaitsAreBounded
  BY DEF Init, Doubling, WaitsAreBounded
<1> QED  BY <1>1, <1>3, <1>4 DEF IInv

\* A call starts with the base.
LEMMA RestartIInv == IInv /\ Restart => IInv'
<1> SUFFICES ASSUME IInv, Restart PROVE IInv'
  OBVIOUS
<1> USE DEF IInv, Restart, options
<1>1. TypeOK'
  BY DEF TypeOK, Durations
<1>2. Doubling'
  BY DEF TypeOK, Durations, Doubling, Sane, Lesser
<1>3. WaitsAreBounded'
  BY DEF WaitsAreBounded
<1> QED  BY <1>1, <1>2, <1>3

\* Below a quarter of the range the doubled delay fits.
LEMMA DoubleIInv == IInv /\ Double => IInv'
<1> SUFFICES ASSUME IInv, Double PROVE IInv'
  OBVIOUS
<1> DEFINE doubled == Wrap(2 * d)
<1>1. /\ pc = "loop" /\ i' = i + 1 /\ exact' = 2 * exact
      /\ UNCHANGED <<kind, base, max, ratio, restarts, delay>>
      /\ \/ doubled >= max /\ d' = max /\ pc' = "jitter"
         \/ ~(doubled >= max) /\ d' = doubled /\ pc' = "loop"
  BY DEF Double, Reached, options
<1>2. /\ d \in Int /\ exact \in Int /\ i \in Nat \ {0}
      /\ base \in Int /\ max \in Durations /\ max > 0
  BY DEF IInv, TypeOK, Durations
<1>3. doubled \in Durations
  BY <1>2, WrapWord
<1>4. TypeOK'
  BY <1>1, <1>2, <1>3 DEF IInv, TypeOK
<1>5. Sane => doubled = 2 * d /\ 0 < d /\ d = exact /\ Lesser(base, max) <= d
  <2> SUFFICES ASSUME Sane
               PROVE doubled = 2 * d /\ 0 < d /\ d = exact
                     /\ Lesser(base, max) <= d
    OBVIOUS
  <2>1. /\ 0 < d /\ d = exact /\ (d = base \/ d < max)
        /\ Lesser(base, max) <= d
    BY <1>1 DEF IInv, Doubling
  <2>2. 2 * d \in Durations
    BY <1>2, <2>1 DEF Sane, Durations
  <2> QED  BY <2>1, <2>2, WrapFits
<1> HIDE DEF doubled
<1>6. Doubling'
  <2> SUFFICES ASSUME Sane PROVE Doubling'
    BY <1>1 DEF Doubling, Sane
  <2>1. max \in Int /\ Lesser(base, max) <= max
    BY <1>2 DEF Lesser, Durations
  <2> QED  BY <1>1, <1>2, <1>5, <2>1 DEF Doubling, Lesser
<1>7. WaitsAreBounded'
  BY <1>1 DEF WaitsAreBounded
<1> QED  BY <1>1, <1>4, <1>6, <1>7 DEF IInv

\* The second comparison is for a loop that has not run.
LEMMA ReturnIInv == IInv /\ Return => IInv'
<1> SUFFICES ASSUME IInv, Return PROVE IInv'
  OBVIOUS
<1>1. /\ pc = "loop" /\ pc' = "jitter"
      /\ d' = IF d > max THEN max ELSE d
      /\ UNCHANGED <<kind, base, max, ratio, restarts, i, exact, delay>>
  BY DEF Return, Cap, options
<1>2. /\ d \in Int /\ exact \in Int /\ base \in Int /\ max \in Int /\ max > 0
  BY DEF IInv, TypeOK, Durations
<1>3. TypeOK'
  BY <1>1 DEF IInv, TypeOK
<1>4. Doubling'
  BY <1>1, <1>2 DEF IInv, Doubling, Sane, Lesser
<1>5. WaitsAreBounded'
  BY <1>1 DEF WaitsAreBounded
<1> QED  BY <1>1, <1>3, <1>4, <1>5 DEF IInv

\* The jitter multiplies a delay that is neither longer than the maximum nor
\* shorter than the smaller argument.
LEMMA JitterIInv == IInv /\ Jitter => IInv'
<1> SUFFICES ASSUME IInv, Jitter PROVE IInv'
  OBVIOUS
<1>1. /\ pc = "jitter" /\ pc' = "up"
      /\ UNCHANGED <<kind, base, max, ratio, restarts, i, d, exact>>
  BY DEF Jitter, options
<1>2. /\ d \in Int /\ exact \in Int /\ base \in Int /\ max \in Int /\ max > 0
      /\ ratio \in Nat /\ Parts - ratio \in Nat /\ Parts + ratio \in Nat
      /\ Parts \in Nat \ {0}
  BY DEF IInv, TypeOK, Durations
<1>3. delay' \in Durations
  BY DEF Jitter, Converted, IInv, TypeOK, Durations
<1>4. TypeOK'
  BY <1>1, <1>3 DEF IInv, TypeOK
<1>5. Doubling'
  BY <1>1 DEF Doubling
<1>6. ASSUME Sane
      PROVE  /\ Parts * delay' <= max * (Parts + ratio)
             /\ Lesser(base, max) * (Parts - ratio) >= Parts => delay' > 0
  <2>1. 0 < d /\ d <= max /\ Lesser(base, max) <= d /\ 2 * max < Half
        /\ 0 < Lesser(base, max) /\ Lesser(base, max) \in Int
    BY <1>1, <1>2, <1>6 DEF IInv, Doubling, Sane, Lesser
  <2>2. /\ d * (Parts + ratio) <= max * (Parts + ratio)
        /\ Lesser(base, max) * (Parts - ratio) <= d * (Parts - ratio)
    BY <1>2, <2>1, TimesMonotone
  <2>3. CASE ratio = 0
    <3>1. delay' = d
      BY <2>3 DEF Jitter
    <3> QED  BY <1>2, <2>1, <2>2, <2>3, <3>1
  <2>4. CASE ratio # 0
    <3>1. PICK y \in Stretched(d) : delay' \in Converted(y)
      BY <1>2, <2>1, <2>4 DEF Jitter
    <3>2. /\ y \in 0 .. 2 * d
          /\ Parts * y <= d * (Parts + ratio)
          /\ Parts * (y + 1) > d * (Parts - ratio)
      BY DEF Stretched
    <3>3. y \in Durations
      BY <1>2, <2>1, <3>2 DEF Durations
    <3>4. delay' = y
      BY <3>1, <3>3 DEF Converted
    <3>5. Parts * delay' <= max * (Parts + ratio)
      BY <1>2, <2>1, <2>2, <3>2, <3>4
    <3>6. ASSUME Lesser(base, max) * (Parts - ratio) >= Parts
          PROVE  delay' > 0
      <4>1. y # 0
        <5> SUFFICES ASSUME y = 0 PROVE FALSE
          OBVIOUS
        <5>1. Parts > d * (Parts - ratio)
          BY <1>2, <3>2
        <5> QED  BY <1>2, <2>1, <2>2, <3>6, <5>1
      <4> QED  BY <1>2, <3>2, <3>4, <4>1
    <3> QED  BY <3>5, <3>6
  <2> QED  BY <2>3, <2>4
<1>7. WaitsAreBounded'
  BY <1>1, <1>6 DEF WaitsAreBounded, Sane
<1> QED  BY <1>1, <1>4, <1>5, <1>7 DEF IInv

LEMMA Invariance == Spec => []IInv
<1>1. IInv /\ UNCHANGED vars => IInv'
  BY DEF vars, options, IInv, TypeOK, Doubling, WaitsAreBounded, Sane, Lesser
<1>2. IInv /\ [Next]_vars => IInv'
  BY <1>1, RestartIInv, DoubleIInv, ReturnIInv, JitterIInv DEF Next
<1> QED  BY <1>2, InitIInv, PTL DEF Spec

-----------------------------------------------------------------------------

\* No computation leaves the word it is made in, with any arguments.
THEOREM TypeCorrect == Spec => []TypeOK
  BY Invariance, PTL DEF IInv

\* With arguments below a quarter of the range no doubling overflows before
\* the maximum stops it, after however many restarts.
THEOREM DoublingIsExact == Spec => []DoublesUpToMax
<1>1. IInv => DoublesUpToMax
  BY DEF IInv, Doubling, DoublesUpToMax
<1> QED  BY <1>1, Invariance, PTL

\* With such arguments no restart comes without a wait, and none waits longer
\* than the maximum and its jitter.
THEOREM AlwaysWaits == Spec => []WaitsAreBounded
  BY Invariance, PTL DEF IInv

-----------------------------------------------------------------------------
(* The waits of successive calls.  Each call doubles the same base, so that *)
(* one curve f holds what any call has computed after its n-th iteration:   *)
(* the last wait is bounded by f at the number of its call.                 *)

\* The calls that have returned.
Calls == IF pc = "up" THEN restarts ELSE restarts - 1

Curve(f, top) ==
  /\ f[1] = base
  /\ \A n \in 1 .. top : n < top => f[n + 1] = 2 * f[n]
  /\ \A m, n \in 1 .. top : m <= n => f[m] <= f[n]

\* What the call that runs has computed so far.
Present(f, top) ==
  pc \in {"loop", "jitter"} =>
    /\ i <= top /\ i <= restarts /\ exact = f[i]
    /\ pc = "jitter" => i = restarts \/ exact >= max

\* The last call has reached the maximum, or its wait is that of the curve.
Past(f, top) ==
  /\ Calls = 0 => delay = 0
  /\ Calls > 0 =>
       \/ \E m \in 1 .. top : m <= Calls /\ f[m] >= max
       \/ Calls <= top /\ Parts * delay <= f[Calls] * (Parts + ratio)

Growth ==
  Sane => \E f \in [Nat -> Nat], top \in Nat \ {0} :
            Curve(f, top) /\ Present(f, top) /\ Past(f, top)

\* The curve of a base goes on as long as a call does.
LEMMA CurveExtends ==
  ASSUME NEW f \in [Nat -> Nat], NEW top \in Nat \ {0}, Curve(f, top)
  PROVE  LET g == [f EXCEPT ![top + 1] = 2 * f[top]]
         IN  /\ g \in [Nat -> Nat]
             /\ Curve(g, top + 1)
             /\ \A n \in 1 .. top : g[n] = f[n]
             /\ g[top + 1] = 2 * f[top]
<1> DEFINE g == [f EXCEPT ![top + 1] = 2 * f[top]]
<1>1. /\ g \in [Nat -> Nat] /\ g[top + 1] = 2 * f[top]
      /\ \A n \in 1 .. top : g[n] = f[n]
      /\ 1 \in 1 .. top /\ top \in 1 .. top /\ f[top] \in Nat
      /\ \A n \in 1 .. top + 1 : n \in 1 .. top \/ n = top + 1
  OBVIOUS
<1> HIDE DEF g
<1>2. \A n \in 1 .. top + 1 : n < top + 1 => g[n + 1] = 2 * g[n]
  <2> SUFFICES ASSUME NEW n \in 1 .. top + 1, n < top + 1
               PROVE  g[n + 1] = 2 * g[n]
    OBVIOUS
  <2>1. CASE n = top
    BY <1>1, <2>1
  <2>2. CASE n # top
    <3>1. n \in 1 .. top /\ n + 1 \in 1 .. top /\ n < top
      BY <2>2
    <3> QED  BY <1>1, <3>1 DEF Curve
  <2> QED  BY <2>1, <2>2
<1>3. \A m, n \in 1 .. top + 1 : m <= n => g[m] <= g[n]
  <2> SUFFICES ASSUME NEW m \in 1 .. top + 1, NEW n \in 1 .. top + 1, m <= n
               PROVE  g[m] <= g[n]
    OBVIOUS
  <2>1. CASE n \in 1 .. top
    <3>1. m \in 1 .. top
      BY <2>1
    <3> QED  BY <1>1, <2>1, <3>1 DEF Curve
  <2>2. CASE m \in 1 .. top /\ n = top + 1
    <3>1. f[m] <= f[top] /\ f[m] \in Nat
      BY <1>1, <2>2 DEF Curve
    <3>2. f[m] <= 2 * f[top]
      BY <1>1, <3>1
    <3> QED  BY <1>1, <2>2, <3>2
  <2>3. CASE m = top + 1 /\ n = top + 1
    BY <1>1, <2>3
  <2> QED  BY <1>1, <2>1, <2>2, <2>3
<1>4. Curve(g, top + 1)
  BY <1>1, <1>2, <1>3 DEF Curve
<1> QED  BY <1>1, <1>4 DEF g

\* While the loop runs, the delay is exact and its double fits in the word.
LEMMA DoubleFits ==
  ASSUME IInv, Sane, pc = "loop"
  PROVE  d = exact /\ Wrap(2 * d) = 2 * exact
<1>1. /\ 0 < d /\ d = exact /\ (d = base \/ d < max)
      /\ d \in Int /\ base \in Int /\ max \in Int
  BY DEF IInv, TypeOK, Durations, Doubling
<1>2. 2 * d \in Durations
  BY <1>1 DEF Sane, Durations
<1> QED  BY <1>1, <1>2, WrapFits

\* What the jitter makes of a positive delay, without overflow.
LEMMA JitterBounds ==
  ASSUME IInv, Sane, Jitter
  PROVE  /\ delay' \in Nat
         /\ Parts * delay' <= d * (Parts + ratio)
         /\ Parts * (delay' + 1) > d * (Parts - ratio)
<1>1. /\ 0 < d /\ d <= max /\ 2 * max < Half /\ d \in Int /\ max \in Int
      /\ ratio \in Nat /\ Parts \in Nat \ {0}
  BY DEF Jitter, IInv, TypeOK, Durations, Doubling, Sane
<1>2. CASE ratio = 0
  <2>1. delay' = d
    BY <1>2 DEF Jitter
  <2> QED  BY <1>1, <1>2, <2>1
<1>3. CASE ratio # 0
  <2>1. PICK y \in Stretched(d) : delay' \in Converted(y)
    BY <1>1, <1>3 DEF Jitter
  <2>2. /\ y \in 0 .. 2 * d
        /\ Parts * y <= d * (Parts + ratio)
        /\ Parts * (y + 1) > d * (Parts - ratio)
    BY DEF Stretched
  <2>3. y \in Durations
    BY <1>1, <2>2 DEF Durations
  <2> QED  BY <1>1, <2>1, <2>2, <2>3 DEF Converted
<1> QED  BY <1>2, <1>3

\* Before the first restart nothing has been computed.
LEMMA InitGrowth == Init => Growth
<1> SUFFICES ASSUME Init, Sane
             PROVE  \E f \in [Nat -> Nat], top \in Nat \ {0} :
                      Curve(f, top) /\ Present(f, top) /\ Past(f, top)
  BY DEF Growth
<1>1. base \in Nat
  BY InitIInv DEF IInv, TypeOK, Durations, Sane
<1>2. DEFINE f == [n \in Nat |-> base]
<1>3. f \in [Nat -> Nat] /\ \A n \in 1 .. 1 : n = 1 /\ f[n] = base
  BY <1>1
<1>4. pc = "up" /\ restarts = 0 /\ delay = 0
  BY DEF Init
<1> HIDE DEF f
<1>5. Curve(f, 1)
  BY <1>1, <1>3 DEF Curve
<1>6. Present(f, 1) /\ Past(f, 1)
  BY <1>4 DEF Present, Past, Calls
<1> QED  BY <1>3, <1>5, <1>6

\* A call goes along the curve of the calls before it, or extends it.
LEMMA NextGrowth == IInv /\ Growth /\ [Next]_vars => Growth'
<1> SUFFICES ASSUME IInv, Growth, [Next]_vars, Sane'
             PROVE  \E f \in [Nat -> Nat], top \in Nat \ {0} :
                      (Curve(f, top) /\ Present(f, top) /\ Past(f, top))'
  BY DEF Growth
<1>1. /\ Sane /\ UNCHANGED options
      /\ kind = "exponential" /\ base' = base /\ max' = max /\ ratio' = ratio
  BY DEF Next, vars, Restart, Double, Return, Jitter, options, Sane
<1>2. PICK f \in [Nat -> Nat], top \in Nat \ {0} :
        Curve(f, top) /\ Present(f, top) /\ Past(f, top)
  BY <1>1 DEF Growth
<1>3. /\ i \in Nat \ {0} /\ restarts \in Nat /\ max \in Int /\ exact \in Int
      /\ pc \in {"up", "loop", "jitter"} /\ 1 \in 1 .. top
  BY DEF IInv, TypeOK, Durations
<1>4. Curve(f, top)'
  BY <1>1, <1>2 DEF Curve
<1>5. CASE Restart
  <2>1. /\ pc = "up" /\ pc' = "loop" /\ restarts' = restarts + 1
        /\ i' = 1 /\ exact' = base /\ delay' = delay
    BY <1>1, <1>5 DEF Restart
  <2>2. Present(f, top)'
    BY <1>2, <1>3, <2>1 DEF Present, Curve
  <2>3. Past(f, top)'
    BY <1>1, <1>2, <1>3, <2>1 DEF Past, Calls
  <2> QED  BY <1>2, <1>4, <2>2, <2>3
<1>6. CASE Double
  <2>1. /\ pc = "loop" /\ i < restarts
        /\ i' = i + 1 /\ exact' = 2 * exact /\ pc' \in {"loop", "jitter"}
        /\ pc' = "jitter" => exact' >= max
        /\ UNCHANGED <<restarts, delay>>
    BY <1>1, <1>6, DoubleFits DEF Double, Longer, Reached
  <2>2. i \in 1 .. top /\ exact = f[i]
    BY <1>2, <1>3, <2>1 DEF Present
  <2>3. CASE i < top
    <3>1. f[i + 1] = 2 * f[i] /\ i + 1 <= top
      BY <1>2, <1>3, <2>2, <2>3 DEF Curve
    <3>2. Present(f, top)'
      BY <1>1, <1>3, <2>1, <2>2, <3>1 DEF Present
    <3>3. Past(f, top)'
      BY <1>1, <1>2, <2>1 DEF Past, Calls
    <3> QED  BY <1>2, <1>4, <3>2, <3>3
  <2>4. CASE i = top
    <3> DEFINE g == [f EXCEPT ![top + 1] = 2 * f[top]]
    <3>1. /\ g \in [Nat -> Nat] /\ Curve(g, top + 1)
          /\ \A n \in 1 .. top : g[n] = f[n]
          /\ g[top + 1] = 2 * f[top]
      BY <1>2, CurveExtends
    <3> HIDE DEF g
    <3>2. Curve(g, top + 1)'
      BY <1>1, <3>1 DEF Curve
    <3>3. Present(g, top + 1)'
      BY <1>1, <1>3, <2>1, <2>2, <2>4, <3>1 DEF Present
    <3>4. Past(g, top + 1)'
      <4>1. Calls' = Calls /\ Calls \in Nat
        BY <1>3, <2>1 DEF Calls
      <4>2. ASSUME NEW m \in 1 .. top, m <= Calls /\ f[m] >= max
            PROVE  m \in 1 .. top + 1 /\ g[m] >= max
        BY <3>1, <4>2
      <4>3. Calls > 0 /\ Calls <= top => g[Calls] = f[Calls] /\ Calls <= top + 1
        BY <3>1, <4>1
      <4> QED  BY <1>1, <1>2, <2>1, <4>1, <4>2, <4>3 DEF Past
    <3>5. top + 1 \in Nat \ {0}
      OBVIOUS
    <3> QED  BY <3>1, <3>2, <3>3, <3>4, <3>5
  <2> QED  BY <2>2, <2>3, <2>4
<1>7. CASE Return
  <2>1. /\ pc = "loop" /\ pc' = "jitter" /\ ~(i < restarts)
        /\ UNCHANGED <<restarts, i, exact, delay>>
    BY <1>7 DEF Return, Longer
  <2>2. Present(f, top)'
    BY <1>1, <1>2, <1>3, <2>1 DEF Present
  <2>3. Past(f, top)'
    BY <1>1, <1>2, <2>1 DEF Past, Calls
  <2> QED  BY <1>2, <1>4, <2>2, <2>3
<1>8. CASE Jitter
  <2>1. /\ pc = "jitter" /\ pc' = "up" /\ UNCHANGED <<restarts, i, exact>>
    BY <1>8 DEF Jitter
  <2>2. /\ i \in 1 .. top /\ i <= restarts /\ exact = f[i]
        /\ i = restarts \/ exact >= max
    BY <1>2, <1>3, <2>1 DEF Present
  <2>3. Calls' = restarts /\ restarts # 0
    BY <1>3, <2>1, <2>2 DEF Calls
  <2>4. CASE exact >= max
    BY <1>1, <1>2, <1>4, <2>1, <2>2, <2>3, <2>4 DEF Present, Past
  <2>5. CASE ~(exact >= max)
    <3>1. d = exact
      BY <1>1, <1>3, <2>1, <2>5 DEF IInv, Doubling, Lesser
    <3>2. Parts * delay' <= f[restarts] * (Parts + ratio)
      BY <1>1, <1>8, <2>2, <2>5, <3>1, JitterBounds
    <3> QED
      BY <1>1, <1>2, <1>4, <2>1, <2>2, <2>3, <2>5, <3>2 DEF Present, Past
  <2> QED  BY <2>4, <2>5
<1>9. CASE UNCHANGED vars
  <2>1. Present(f, top)' /\ Past(f, top)'
    BY <1>1, <1>2, <1>9 DEF vars, Present, Past, Calls
  <2> QED  BY <1>2, <1>4, <2>1
<1> QED  BY <1>5, <1>6, <1>7, <1>8, <1>9 DEF Next

\* A third more than x is not more than a third less than 2 * x.
LEMMA ThirdsMeet ==
  ASSUME NEW x \in Nat, NEW r \in Nat, NEW y \in Nat, NEW z \in Nat,
         3 * r <= Parts,
         Parts * y <= x * (Parts + r),
         Parts * (z + 1) > (2 * x) * (Parts - r)
  PROVE  y <= z
<1>1. (Parts - 3 * r) \in Nat
  OBVIOUS
<1>2. x * (Parts - 3 * r) >= 0
  BY <1>1, Z3
<1>3. (2 * x) * (Parts - r) = x * (Parts + r) + x * (Parts - 3 * r)
  BY Z3
<1>4. x * (Parts + r) \in Int /\ x * (Parts - 3 * r) \in Int
      /\ (2 * x) * (Parts - r) \in Int /\ Parts * y \in Int
      /\ Parts * (z + 1) \in Int
  OBVIOUS
<1>5. Parts * y < Parts * (z + 1)
  BY <1>2, <1>3, <1>4
<1>6. SUFFICES ASSUME ~(y <= z) PROVE FALSE
  OBVIOUS
<1>7. z + 1 \in Nat /\ z + 1 <= y
  BY <1>6
<1>8. (z + 1) * Parts <= y * Parts
  BY <1>7, TimesMonotone
<1> QED  BY <1>4, <1>5, <1>8

\* A jitter of up to a third, as the comment of JitterBackoff recommends,
\* shortens no wait after an earlier one before the maximum is reached.
THEOREM WaitsNeverShrink == Spec => WaitsGrow
<1>1. IInv /\ Growth /\ [Next]_vars =>
        [Sane /\ 3 * ratio <= Parts /\ exact < max => delay' >= delay]_delay
  <2> SUFFICES ASSUME IInv, Growth, [Next]_vars, delay' # delay,
                      Sane, 3 * ratio <= Parts, exact < max
               PROVE  delay' >= delay
    OBVIOUS
  <2>1. Jitter
    BY DEF Next, vars, Restart, Double, Return
  <2>2. PICK f \in [Nat -> Nat], top \in Nat \ {0} :
          Curve(f, top) /\ Present(f, top) /\ Past(f, top)
    BY DEF Growth
  <2>3. /\ pc = "jitter" /\ i \in Nat \ {0} /\ restarts \in Nat
        /\ max \in Int /\ exact \in Int /\ ratio \in Nat /\ delay \in Int
    BY <2>1 DEF Jitter, IInv, TypeOK, Durations
  <2>4. i = restarts /\ i \in 1 .. top /\ exact = f[restarts]
    BY <2>2, <2>3 DEF Present
  <2>5. d = f[restarts]
    BY <2>3, <2>4 DEF IInv, Doubling, Lesser
  <2>6. /\ delay' \in Nat
        /\ Parts * (delay' + 1) > d * (Parts - ratio)
    BY <2>1, JitterBounds
  <2>7. CASE restarts = 1
    <3>1. delay = 0
      BY <2>2, <2>3, <2>7 DEF Past, Calls
    <3> QED  BY <2>6, <3>1
  <2>8. CASE restarts # 1
    <3>1. /\ Calls = restarts - 1 /\ Calls \in 1 .. top /\ Calls < top
          /\ Calls + 1 = restarts
      BY <2>3, <2>4, <2>8 DEF Calls
    <3>2. f[restarts] = 2 * f[Calls]
      BY <2>2, <3>1 DEF Curve
    <3>3. ~\E m \in 1 .. top : m <= Calls /\ f[m] >= max
      <4> SUFFICES ASSUME NEW m \in 1 .. top, m <= Calls, f[m] >= max
                   PROVE  FALSE
        OBVIOUS
      <4>1. f[m] <= f[restarts]
        BY <2>2, <2>3, <2>4, <3>1 DEF Curve
      <4>2. f[m] \in Nat
        OBVIOUS
      <4> QED  BY <2>3, <2>4, <4>1, <4>2
    <3>4. Parts * delay <= f[Calls] * (Parts + ratio)
      BY <2>2, <3>1, <3>3 DEF Past
    <3>5. f[Calls] \in Nat
      BY <3>1
    <3>6. CASE delay < 0
      BY <2>3, <2>6, <3>6
    <3>7. CASE delay \in Nat
      BY <2>3, <2>5, <2>6, <3>2, <3>4, <3>5, <3>7, ThirdsMeet
    <3> QED  BY <2>3, <3>6, <3>7
  <2> QED  BY <2>7, <2>8
<1> QED
  BY <1>1, InitGrowth, NextGrowth, Invariance, PTL DEF Spec, WaitsGrow
=============================================================================
