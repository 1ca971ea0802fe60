SPECIFICATION LiveSpec
CONSTANTS
    NoTask = NoTask
    NoCron = NoCron
    Crons = {c1}
    Tasks = {t1, t2}
    Runs = {n1, n2}
    MaxTime = 1
    MaxAsks = 1
INVARIANTS
    TasksKnown
PROPERTIES
    SkipsHonoured
