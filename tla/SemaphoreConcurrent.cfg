SPECIFICATION Spec
CONSTANTS
    p1 = p1
    p2 = p2
    p3 = p3
    k1 = k1
    u1 = u1
    u2 = u2
    NoOrg = NoOrg
    NoId = NoId
    Owners <- AllOwners
    Procs = {p1, p2, p3}
    OwnerOf <- SharedAndAlone
    Keys = {k1}
    Ids = {r1, r2, r3, r4}
    Counts = {1, 2}
    MaxUnits = 2
    UniqueKey = FALSE
    Wildcard = TRUE
    MayThrow = TRUE
    MayCrash = TRUE
    Leftovers <- ExpiredRow
SYMMETRY Symmetry
ACTION_CONSTRAINT FewUnits
CHECK_DEADLOCK FALSE
INVARIANTS
    UnitsHonoured
PROPERTIES
    CapacityHonest
