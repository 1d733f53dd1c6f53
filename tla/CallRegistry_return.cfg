SPECIFICATION FairSpec
CONSTANTS
  A = A
  B = B
  C = C
  NULL = NULL
  Proc = {p1, p2}
  User <- TwoUsers
  Ops <- EndOps
  MaxCalls = 1
  MaxFailures = 0
  MaxCrashes = 1
  MaxExpiries = 0
  MaxAges = 0
  SlowEnds = TRUE
PROPERTY HandlersReturn
