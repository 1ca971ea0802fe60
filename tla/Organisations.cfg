CONSTANTS
    c1 = c1
    c2 = c2
    alice = alice
    robot = robot
    o1 = o1
    o2 = o2
    s1 = s1
    s2 = s2
    r1 = r1
    Undefined = Undefined
    Null = Null
    Elsewhere = Elsewhere
    NoSlug = NoSlug
    NoMember = NoMember
    NullMatches = FALSE
    MayFail = TRUE
    Clients = {c1, c2}
    Members = {alice, robot}
    Accepted = {alice}
    OrgIds = {o1, o2}
    Slugs = {s1, s2}
    Resources = {r1}
    Deployments <- Serving
SPECIFICATION Spec
INVARIANTS RolesOfMembersOnly AnswersTrue OverrideStands RevocationsHonoured
PROPERTY ChangeVouched
