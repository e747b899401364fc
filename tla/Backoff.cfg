\* Durations of seven bits; six restarts are one more than it takes to double
\* 1 until the range is exceeded.
SPECIFICATION Spec
CONSTANTS
  Half = 64
  DefaultBase = 2
  DefaultMax = 30
  Bases <- MCBases
  Maxes <- MCMaxes
  Parts = 6
  RestartBound = 8
INVARIANTS DoublesUpToMax WaitsAreBounded
PROPERTY WaitsGrow
CHECK_DEADLOCK FALSE
