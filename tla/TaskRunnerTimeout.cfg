SPECIFICATION Spec
CONSTANTS
    t1 = t1
    t2 = t2
    c = c
    Tasks = {t1, t2, c}
    Parent <- MCParent
    Seconds <- MCSeconds
    Suspenders = {}
    MaxClock = 4
    Runner = Runner
    None = None
INVARIANTS
    NextTimeoutIsSoonest
CHECK_DEADLOCK FALSE
