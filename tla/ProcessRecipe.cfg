\* The recipe "start a process and wait later": one Wait besides the reaper.
SPECIFICATION Spec
CONSTANTS
  reaper = reaper
  UserWaiters = {u1}
  Stoppers = {}
  Lingers = FALSE
  WriterFails = FALSE
INVARIANT WaitTellsExit
CHECK_DEADLOCK FALSE
