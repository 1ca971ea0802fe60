CONSTANTS
    c1 = c1
    c2 = c2
    a = a
    b = b
    s = s
    t = t
    none = none
    shop = shop
    Callers = {c1, c2}
    Versions = {c1, c2}
    Namespaces = {none, shop}
    Keys = {a, b}
    Tags = {s, t}
    Null = Null
    Never = Never
    NoTtl = NoTtl
    Refused = Refused
    NoCall = NoCall
    Off = Off
    MaxTime = 2
    Deployments <- MCDeployments
SYMMETRY Alike
CHECK_DEADLOCK FALSE
SPECIFICATION Spec
INVARIANTS NoZombie AnswersKept
