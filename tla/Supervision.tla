---------------------------- MODULE Supervision ----------------------------
(***************************************************************************)
(* What a Supervisor (tools/cmdrunner/supervisor.go) promises, without its *)
(* goroutines, locks and metrics: one child at a time, every launch paid   *)
(* for by a retry from a bounded budget, no fresh decision to launch or to *)
(* retry once a halt was asked for, and nothing alive after the end.       *)
(* Supervisor implements this specification (Supervisor!Promise).          *)
(***************************************************************************)
EXTENDS Naturals

CONSTANT MaxRestarts      \* retry budget, a natural; 0 stands for "unlimited"

VARIABLES
  phase,      \* where the supervisor stands, see Phases
  halted,     \* a caller or the parent context asked for the end
  alive,      \* a child exists whose end has not been recorded
  launches,   \* children launched so far
  retries     \* retries granted so far

vars == <<phase, halted, alive, launches, retries>>

Phases == {"idle", "checking", "launching", "up", "down", "retrying",
           "ending", "over"}

BudgetLeft == MaxRestarts > 0 => retries < MaxRestarts

-----------------------------------------------------------------------------

Init ==
  /\ phase = "idle"
  /\ halted = FALSE
  /\ alive = FALSE
  /\ launches = 0
  /\ retries = 0

Begin ==
  /\ phase = "idle"
  /\ phase' = "checking"
  /\ UNCHANGED <<halted, alive, launches, retries>>

Halt ==
  /\ phase # "idle"
  /\ halted' = TRUE
  /\ UNCHANGED <<phase, alive, launches, retries>>

\* Permission to launch is only given while nobody asked for the end.
Permit ==
  /\ phase = "checking"
  /\ ~halted
  /\ phase' = "launching"
  /\ UNCHANGED <<halted, alive, launches, retries>>

\* A launch under way may still succeed after a halt: the check came first.
Launch ==
  /\ phase = "launching"
  /\ phase' = "up"
  /\ alive' = TRUE
  /\ launches' = launches + 1
  /\ UNCHANGED <<halted, retries>>

LaunchFails ==
  /\ phase = "launching"
  /\ phase' = "down"
  /\ UNCHANGED <<halted, alive, launches, retries>>

ChildEnds ==
  /\ phase = "up"
  /\ alive' = FALSE
  /\ UNCHANGED <<phase, halted, launches, retries>>

Notice ==
  /\ phase = "up"
  /\ ~alive
  /\ phase' = "down"
  /\ UNCHANGED <<halted, alive, launches, retries>>

DecideRetry ==
  /\ phase = "down"
  /\ ~halted
  /\ BudgetLeft
  /\ phase' = "retrying"
  /\ UNCHANGED <<halted, alive, launches, retries>>

Retry ==
  /\ phase = "retrying"
  /\ phase' = "checking"
  /\ retries' = retries + 1
  /\ UNCHANGED <<halted, alive, launches>>

\* Between two launches the end needs a halt; after a child it does not.
GiveUp ==
  /\ phase = "down" \/ (phase = "checking" /\ halted)
  /\ phase' = "ending"
  /\ UNCHANGED <<halted, alive, launches, retries>>

Close ==
  /\ phase = "ending"
  /\ phase' = "over"
  /\ UNCHANGED <<halted, alive, launches, retries>>

Next ==
  \/ Begin \/ Halt \/ Permit \/ Launch \/ LaunchFails \/ ChildEnds
  \/ Notice \/ DecideRetry \/ Retry \/ GiveUp \/ Close

Spec == Init /\ [][Next]_vars
=============================================================================
