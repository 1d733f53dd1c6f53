SPECIFICATION Spec
CONSTANTS
    A = A
    B = B
    C = C
    Proc = {p1, p2}
    User <- Users
    Admin = A
    Founders <- OneFounder
    Msg = {m1}
    Ops <- JoinOps
    MaxGroupSize = 3
    MaxPinned = 2
    MaxRequests = 3
SYMMETRY Symmetry
INVARIANT EntryIsAllowed
PROPERTY WithdrawnStaysOut
