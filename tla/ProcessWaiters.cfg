\* Two more callers of Wait; one of them may be left waiting for ever, for
\* the watcher that has answered another, so the system may really stop.
SPECIFICATION Spec
CONSTANTS
  reaper = reaper
  UserWaiters = {u1, u2}
  Stoppers = {c1, c2}
  Lingers = TRUE
  WriterFails = TRUE
SYMMETRY Symmetry
INVARIANTS TypeOK OneResult
CHECK_DEADLOCK FALSE
