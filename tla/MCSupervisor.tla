---------------------------- MODULE MCSupervisor ----------------------------
(* Small instances of Supervisor for TLC.                                  *)
EXTENDS Supervisor, TLC

\* Callers of Stop are interchangeable; no temporal property uses this.
Symmetry == Permutations(Stoppers)
=============================================================================
