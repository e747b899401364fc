---------------------------- MODULE ManagedChild ----------------------------
(***************************************************************************)
(* What a Process (tools/cmdrunner/cmdrunner.go) promises to whoever       *)
(* manages it: a result only once the child and everything that holds its  *)
(* output is gone, one result, and an end for every child that was killed. *)
(* Process implements this specification, and each child of a Supervisor   *)
(* is one, too.                                                            *)
(***************************************************************************)

VARIABLES
  life,     \* "unborn", "alive", "gone" or, its result recorded, "finished"
  result,   \* "none" until then "clean" or "failed"
  killed    \* SIGKILL was sent to its group

vars == <<life, result, killed>>

Init ==
  /\ life \in {"unborn", "alive"}
  /\ result = "none"
  /\ killed = FALSE

Launch == life = "unborn" /\ life' = "alive" /\ UNCHANGED <<result, killed>>

Kill ==
  /\ life \in {"alive", "gone"}
  /\ killed' = TRUE
  /\ UNCHANGED <<life, result>>

\* The child and every holder of its pipes has ended.
End == life = "alive" /\ life' = "gone" /\ UNCHANGED <<result, killed>>

Finish ==
  /\ life = "gone"
  /\ life' = "finished"
  /\ result' \in {"clean", "failed"}
  /\ UNCHANGED killed

Next == Launch \/ Kill \/ End \/ Finish

Spec == Init /\ [][Next]_vars

FairSpec == Spec /\ WF_vars(killed /\ End) /\ WF_vars(Finish)
=============================================================================
