SPECIFICATION Spec
CONSTANTS
  u1 = u1
  u2 = u2
  c1 = c1
  c2 = c2
  NULL = NULL
  Proc = {p1, p2}
  User <- TwoUsers
  Code <- TwoCodes
  Before <- AllKnown
  Ops <- AllOps
  MaxCalls = 4
  MaxFaults = 1
SYMMETRY Symmetry
INVARIANT TypeOK LoginWasApproved OnePc
CHECK_DEADLOCK FALSE
