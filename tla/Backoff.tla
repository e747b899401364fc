------------------------------ MODULE Backoff ------------------------------
(***************************************************************************)
(* The backoff functions of supervisor.go: how long loop() waits before a  *)
(* restart.  A supervisor calls its function after every restart it        *)
(* records, with the number of all the restarts so far; the doubling of    *)
(* ExponentialBackoff is one step of the model for each step of its loop,  *)
(* in words of any width, beside the same doubling without a limit.        *)
(***************************************************************************)
EXTENDS Integers

CONSTANTS
  Half,            \* a duration is one of -Half .. Half - 1
  DefaultBase, DefaultMax,
  Bases, Maxes,    \* the arguments of the backoff functions
  Parts,           \* a ratio is a number of parts, Parts of which make 1
  RestartBound     \* bound on the restarts

Durations == -Half .. Half - 1

ASSUME HalfAssumption == Half \in Nat \ {0}
ASSUME DefaultAssumption ==
  /\ DefaultBase \in Durations /\ DefaultBase > 0
  /\ DefaultMax \in Durations /\ DefaultMax > 0
ASSUME ArgumentAssumption == Bases \subseteq Durations /\ Maxes \subseteq Durations
ASSUME PartsAssumption == Parts \in Nat \ {0}
ASSUME RestartAssumption == RestartBound \in Nat

VARIABLES
  kind,       \* which function stands under the jitter
  base, max,  \* what its closure keeps
  ratio,      \* parts of the jitter's ratio
  restarts,   \* metrics.restarts
  pc,
  i, d,       \* the locals of the function
  exact,      \* history: d without overflow and without a maximum
  delay       \* the latest delay

options == <<kind, base, max, ratio>>
vars == <<options, restarts, pc, i, d, exact, delay>>

TypeOK ==
  /\ kind \in {"fixed", "exponential"}
  /\ base \in Durations /\ max \in Durations /\ ratio \in 0 .. Parts
  /\ restarts \in 0 .. RestartBound
  /\ pc \in {"up", "loop", "jitter"}
  /\ i \in Nat \ {0} /\ d \in Durations /\ exact \in Int /\ delay \in Durations

-----------------------------------------------------------------------------

\* Two's complement arithmetic.
Wrap(x) == ((x + Half) % (2 * Half)) - Half

\* What is not positive is replaced by the default.
OrDefault(x, default) == IF x <= 0 THEN default ELSE x

\* FixedBackoff keeps what it is given.
Init ==
  /\ \/ kind = "fixed" /\ base \in Bases
     \/ kind = "exponential" /\ base \in {OrDefault(b, DefaultBase) : b \in Bases}
  /\ max \in {OrDefault(m, DefaultMax) : m \in Maxes}
  /\ ratio \in 0 .. Parts
  /\ restarts = 0 /\ pc = "up"
  /\ i = 1 /\ d = 0 /\ exact = 0 /\ delay = 0

\* recordRestart, then sleepBackoff with the count of all restarts.
Restart ==
  /\ pc = "up" /\ restarts < RestartBound
  /\ restarts' = restarts + 1
  /\ i' = 1 /\ d' = base /\ exact' = base
  /\ pc' = IF kind = "fixed" THEN "jitter" ELSE "loop"
  /\ UNCHANGED <<options, delay>>

Longer == i < restarts

ReachedMutant(x) == x = max

Reached(x) == x >= max

Double ==
  /\ pc = "loop" /\ Longer
  /\ LET doubled == Wrap(2 * d)
     IN  IF Reached(doubled)
         THEN d' = max /\ pc' = "jitter"
         ELSE d' = doubled /\ UNCHANGED pc
  /\ i' = i + 1 /\ exact' = 2 * exact
  /\ UNCHANGED <<options, restarts, delay>>

CapMutant(x) == x   \* no second comparison

Cap(x) == IF x > max THEN max ELSE x

\* The loop is through; one that never ran may have a base beyond the maximum.
Return ==
  /\ pc = "loop" /\ ~Longer
  /\ d' = Cap(d) /\ pc' = "jitter"
  /\ UNCHANGED <<options, restarts, i, exact, delay>>

\* A float64 converted to a duration; out of range it depends on the machine.
Converted(x) == IF x \in Durations THEN {x} ELSE {-Half, Half - 1}

StretchedMutant(x) ==   \* twice the ratio
  {y \in 0 .. 3 * x : /\ Parts * y <= x * (Parts + 2 * ratio)
                      /\ Parts * (y + 1) > x * (Parts - 2 * ratio)}

\* x times a factor from 1 - ratio to 1 + ratio, without its fraction.
Stretched(x) ==
  {y \in 0 .. 2 * x : /\ Parts * y <= x * (Parts + ratio)
                      /\ Parts * (y + 1) > x * (Parts - ratio)}

Jitter ==
  /\ pc = "jitter"
  /\ IF d <= 0 \/ ratio = 0
     THEN delay' = d
     ELSE \E y \in Stretched(d) : delay' \in Converted(y)
  /\ pc' = "up"
  /\ UNCHANGED <<options, restarts, i, d, exact>>

Next == Restart \/ Double \/ Return \/ Jitter

Spec == Init /\ [][Next]_vars

-----------------------------------------------------------------------------
(* Properties                                                              *)

\* Arguments up to a quarter of the range, 73 years for a time.Duration.
Sane == kind = "exponential" /\ 2 * base < Half /\ 2 * max < Half

Lesser(x, y) == IF x < y THEN x ELSE y

\* Overflow never happens before the maximum is reached: after any number of
\* restarts ExponentialBackoff returns the base doubled that often, or the
\* maximum.
DoublesUpToMax == Sane /\ pc = "jitter" => d = Lesser(exact, max)

\* With one of these functions as its Backoff no supervisor restarts a child
\* without a wait, and none waits longer than the maximum and the jitter make
\* together.  Only a ratio that can shorten a delay to nothing is excepted.
WaitsAreBounded ==
  Sane /\ pc = "up" /\ restarts > 0 =>
    /\ Parts * delay <= max * (Parts + ratio)
    /\ Lesser(base, max) * (Parts - ratio) >= Parts => delay > 0

\* Up to a third, as the comment of JitterBackoff recommends, the jitter never
\* makes a later wait shorter than an earlier one, before the maximum is
\* reached.
WaitsGrow ==
  [][Sane /\ 3 * ratio <= Parts /\ exact < max => delay' >= delay]_delay
=============================================================================
