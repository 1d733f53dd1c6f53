SPECIFICATION Spec
CONSTANTS
    Proc = {p1, p2}
    UserA = UserA
    UserB = UserB
    NULL = NULL
    Ops <- CrossingOps
    MaxEvents = 2
    MaxFaults = 0
SYMMETRY Symmetry
INVARIANT TypeOK
INVARIANT ConsentOfBoth
CHECK_DEADLOCK FALSE
