\* One restart, hooks and launches that fail, a health check that condemns at
\* its first failure, and descendants that may hold the pipes for ever.
SPECIFICATION FairSpec
CONSTANTS
  MaxRestarts = 1
  HealthCheck = TRUE
  HealthCheckFailures = 1
  HooksFail = TRUE
  Lingers = TRUE
  Stoppers = {c1}
  RestartBound = 2
  CheckBound = 1
INVARIANTS
  RestartBudget
PROPERTIES
  StopReturns
  CondemnedChildEnds
  Promise
