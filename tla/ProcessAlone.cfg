\* The reaper is the only caller of Wait, as under a Supervisor.
SPECIFICATION FairSpec
CONSTANTS
  reaper = reaper
  UserWaiters = {}
  Stoppers = {c1, c2}
  Lingers = TRUE
  WriterFails = TRUE
INVARIANT ResultIsTruthful
PROPERTIES StopEndsChild ChildPromise
