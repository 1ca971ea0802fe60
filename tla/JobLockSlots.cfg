SPECIFICATION LiveJobSpec
CONSTANTS
    p1 = p1
    p2 = p2
    p3 = p3
    k1 = k1
    A = A
    B = B
    default = default
    workerA = workerA
    workerB = workerB
    NoOrg = NoOrg
    NoId = NoId
    Owners <- AllOwners
    Procs = {p1, p2, p3}
    OwnerOf <- OwnerPerInstance
    InstanceOf <- TwoSlotsAndOne
    Keys = {k1}
    Ids = {1, 2, 3}
    Ttls = {1}
    UniqueKey = TRUE
    Wildcard = TRUE
    MayThrow = FALSE
    MayCrash = TRUE
ACTION_CONSTRAINT LowestFree
INVARIANTS
    NoDoubleExecution
PROPERTIES
    LocksAccounted
    JobResumes
