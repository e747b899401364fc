----------------------------- MODULE MCProcess -----------------------------
(* Process with its callers as model values.                               *)
EXTENDS Process, TLC

\* Callers are interchangeable; used for invariants only.
Symmetry == Permutations(UserWaiters) \cup Permutations(Stoppers)
=============================================================================
