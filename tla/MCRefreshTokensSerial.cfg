CONSTANTS
    u1 = u1
    u2 = u2
    t1 = t1
    t2 = t2
    t3 = t3
    t4 = t4
    r1 = r1
    r2 = r2
    r3 = r3
    Users <- TwoUsers
    Tokens <- ThreeTokens
    Requests <- TwoRequests
    NoUser = NoUser
    NoToken = NoToken
SPECIFICATION SerialSpec
SYMMETRY Symmetry
INVARIANTS
    SingleUse
    ReuseLeavesNoSurvivor
PROPERTY ImplementsFamilies
