SPECIFICATION Spec
CONSTANTS
  MaxRestarts = 1
  HealthCheck = TRUE
  HealthCheckFailures = 1
  HooksFail = FALSE
  Lingers = FALSE
  Stoppers = {c1}
  RestartBound = 2
  CheckBound = 2
INVARIANTS
  CleanExitBreaksChain
