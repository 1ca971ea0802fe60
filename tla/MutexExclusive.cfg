SPECIFICATION Spec
CONSTANTS
    p1 = p1
    p2 = p2
    p3 = p3
    k1 = k1
    k2 = k2
    r1 = r1
    r2 = r2
    r3 = r3
    r4 = r4
    u1 = u1
    u2 = u2
    acme = acme
    NoOrg = NoOrg
    NoId = NoId
    Owners <- AllOwners
    Procs = {p1, p2, p3}
    OwnerOf <- ThreeOwners
    Keys = {k1}
    Ids = {r1, r2, r3}
    Ttls = {0, 1}
    UniqueKey = FALSE
    Wildcard = TRUE
    MayThrow = TRUE
    MayCrash = TRUE
SYMMETRY RowSymmetry
ACTION_CONSTRAINT MuddleEnds
INVARIANTS
    TypeOK
    MutualExclusion
    GrantBacked
    CallsBacked
PROPERTIES
    LiveLockKept
    ImplementsService
