SPECIFICATION Spec
CONSTANTS
  A = A
  B = B
  C = C
  NULL = NULL
  Proc = {p1, p2, p3}
  User <- TwoUsers
  Ops <- EndOps
  MaxCalls = 1
  MaxFailures = 0
  MaxCrashes = 0
  MaxExpiries = 0
  MaxAges = 1
  SlowEnds = FALSE
SYMMETRY Symmetry
INVARIANT TypeOK OneRow EndersExclude EndedIsOver
