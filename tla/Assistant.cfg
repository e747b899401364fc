\* Three turns of at most two commands each, two entries of context; any call
\* may fail, any reply be cut short and the program die at any point.
SPECIFICATION MainSpec
CONSTANTS
  hello = hello
  nihao = nihao
  zaijian = zaijian
  Inputs = {hello, nihao, zaijian}
  Slug <- MCSlug
  NoPage = NoPage
  CanFail = TRUE
  TurnBound = 3
  ClockBound = 1
  IndexKeep = 1
  LogKeep = 1
  CommandBound = 2
INVARIANTS MainTypeOK NoDanglingLinks TurnsIndexed CommandsAnswered RememberedIsFinal ContextComplete
PROPERTIES LogIsHistory TurnEnds
CHECK_DEADLOCK FALSE
