SPECIFICATION Spec
CONSTANTS
    t1 = t1
    t2 = t2
    c = c
    Tasks = {t1, t2, c}
    Parent <- MCParent
    Seconds <- MCSeconds
    Suspenders = {t1}
    MaxClock = 3
    Runner = Runner
    None = None
PROPERTIES
    ParentThere
CHECK_DEADLOCK FALSE
