SPECIFICATION Spec
CONSTANTS
  m1 = m1
  m2 = m2
  NULL = NULL
  Proc = {p1, p2}
  Worker = {w1, w2}
  Media <- OneFile
  Visual <- OneFile
  Ops <- AllOps
  MaxCalls = 3
  MaxFaults = 1
INVARIANT TypeOK ReadyIsStored SentIsKept PurgeLeavesNoOriginal
PROPERTY JobsEnd
CHECK_DEADLOCK FALSE
