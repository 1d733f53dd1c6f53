SPECIFICATION Spec
CONSTANTS
  d1 = d1
  d2 = d2
  NULL = NULL
  Proc = {p1, p2, p3}
  Device <- TwoDevices
  Kind <- Mixed
  Ops <- AllOps
  MaxCalls = 3
  MaxFaults = 1
SYMMETRY Symmetry
INVARIANT TypeOK RenewalKeepsPassword ChangeReplacesWhatItVerified NoFalseAlarm OneLivePerFamily
PROPERTY SecurityLockIsLease
CHECK_DEADLOCK FALSE
