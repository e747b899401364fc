\* Every request, and every command of up to six characters of eleven kinds.
SPECIFICATION Spec
CONSTANTS
  Builtins <- MCBuiltins
  LengthBound = 6
INVARIANTS
  ScansAgree ArgsMeanShellWords ShellOnlyWhenNeeded NormalIsStable
CHECK_DEADLOCK FALSE
