SPECIFICATION Spec
CONSTANTS
  MaxRestarts = 1
  HealthCheck = TRUE
  HealthCheckFailures = 1
  HooksFail = FALSE
  Lingers = TRUE
  Stoppers = {c1, c2}
  RestartBound = 2
  CheckBound = 2
SYMMETRY Symmetry
INVARIANTS
  TypeOK
  NoOrphan
  GaugeTracksProcess
  CondemnedIsUnhealthy
  StopSignalsLastChild
  RestartsPaidByCrashes
  EndIsJustified
