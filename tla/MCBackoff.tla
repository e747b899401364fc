----------------------------- MODULE MCBackoff -----------------------------
(* Backoff in words of seven bits, with arguments on both sides of zero, of *)
(* each other and of the limit beyond which doubling overflows.            *)
EXTENDS Backoff

MCBases == {-1, 1, 5, 6, 31, 32, 63}
MCMaxes == {0, 6, 20, 24, 31, 63}
=============================================================================
