CONSTANTS
    Files = {f1}
    Downloads = {d1}
    Ttl = 3
    Bucket = 2
    Horizon = 7
    Never = Never
    Users = {u1}
    Tokens = {t1, t2, t3}
    NoUser = NoUser
    NoToken = NoToken
    Requests = {r1}
    Shown <- MCShown
    AccessTtl = 2
    RequestTime = 1
SPECIFICATION SystemSpec
INVARIANTS
    SystemTypeOK
    LinkOutlivesTtl
    FallbackIsShortLived
PROPERTIES
    ExposureIsBounded
SYMMETRY Symmetry
CHECK_DEADLOCK FALSE
