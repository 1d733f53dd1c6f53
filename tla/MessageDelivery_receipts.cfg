SPECIFICATION Spec
CONSTANTS
    Proc = {p1, p2}
    alice = alice
    bob = bob
    k1 = k1
    Users = {alice, bob}
    Present <- Connected
    Keys <- OneKey
    SenderOf <- AliceSends
    NULL = NULL
    Kinds = {"DIRECT", "GROUP"}
    Ops <- AliceToBob
    MaxIds = 2
    MaxSends = 2
    MaxSockets = 1
    MaxFaults <- DirectFaults
    MaxOwn = 1
    MaxQueue = 1
SYMMETRY Symmetry
INVARIANT TypeOK
INVARIANT SameAnswer
INVARIANT CacheNamesRow
INVARIANT CountsAgree
INVARIANT TickAfterEmit
CHECK_DEADLOCK FALSE
