SPECIFICATION Spec
CONSTANTS
    A = A
    B = B
    C = C
    Proc = {p1, p2}
    User <- Users
    Admin = A
    Founders <- OneFounder
    Msg = {m1, m2}
    Ops <- MemberOps
    MaxGroupSize = 3
    MaxPinned = 1
    MaxRequests = 0
SYMMETRY Symmetry
INVARIANTS TypeOK OneAdmin PinLimit
