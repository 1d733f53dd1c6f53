SPECIFICATION Spec
CONSTANTS
  A = A
  B = B
  C = C
  NULL = NULL
  Proc = {p1, p2}
  User <- TwoUsers
  Ops <- TalkOps
  MaxCalls = 1
  MaxFailures = 1
  MaxCrashes = 0
  MaxExpiries = 0
  MaxAges = 0
  SlowEnds = TRUE
SYMMETRY Symmetry
INVARIANT CompletedWasAnswered
PROPERTY LoggedBeforeGone
