\* Nothing fails; two turns are remembered within one second.
SPECIFICATION Spec
CONSTANTS
  hello = hello
  nihao = nihao
  zaijian = zaijian
  Inputs = {hello, nihao, zaijian}
  Slug <- MCSlug
  NoPage = NoPage
  CanFail = FALSE
  TurnBound = 2
  ClockBound = 1
INVARIANT SavedTurnsStay
