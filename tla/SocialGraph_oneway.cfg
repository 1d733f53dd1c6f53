SPECIFICATION FairSpec
CONSTANTS
    Proc = {p1, p2}
    UserA = UserA
    UserB = UserB
    NULL = NULL
    Ops <- OneWayOps
    MaxEvents = 0
    MaxFaults = 1
INVARIANT OneVerdictPerRequest
PROPERTY EndsOnlyByRemoveOrBlock
PROPERTY CallsReturn
PROPERTY LocksAreLeases
CHECK_DEADLOCK FALSE
