CONSTANTS
    c1 = c1
    c2 = c2
    o1 = o1
    Undefined = Undefined
    Null = Null
    Never = Never
    NullMatches = FALSE
    MayFail = TRUE
    Callers = {c1, c2}
    Persons <- People
    Splits <- OfAnn
    Orgs = {o1}
    MaxTime = 2
    Deployments <- Waiting
SPECIFICATION Spec
INVARIANTS ActorsOnce CallsHonoured InvitationsHonoured
PROPERTIES RemovesItsOwn Fifo
