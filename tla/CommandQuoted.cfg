\* Enough characters for a program and a quoted expansion.
SPECIFICATION Spec
CONSTANTS
  Builtins <- MCBuiltins
  LengthBound = 5
INVARIANT ArgsHasNoShellSyntax
CHECK_DEADLOCK FALSE
