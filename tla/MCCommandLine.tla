--------------------------- MODULE MCCommandLine ---------------------------
(* CommandLine with one builtin, spelled with one character.               *)
EXTENDS CommandLine

MCBuiltins == {<<"b">>}
=============================================================================
