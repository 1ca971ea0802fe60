SPECIFICATION Spec
CONSTANTS
    a = a
    b = b
    j1 = j1
    c1 = c1
    c2 = c2
    c3 = c3
    s1 = s1
    s2 = s2
    s3 = s3
    NoConn = NoConn
    Instances = {a, b}
    Jobs = {j1}
    Crons = {j1}
    Conns = {c1, c2, c3}
    ConnsOf <- PoolAndClient
    Slots = {s1, s2, s3}
    SlotsOf <- TwoAndOne
    MaxTime = 1
    MayThrow = TRUE
    MayFail = TRUE
    MayCrash = TRUE
SYMMETRY PoolSymmetry
ACTION_CONSTRAINTS FewCalls HeldTwice
INVARIANTS
    LockGoverns
