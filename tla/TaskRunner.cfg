SPECIFICATION Spec
CONSTANTS
    t1 = t1
    t2 = t2
    c = c
    Tasks = {t1, t2, c}
    Parent <- MCParent
    Seconds <- MCSeconds
    Suspenders = {t1}
    MaxClock = 3
    Runner = Runner
    None = None
INVARIANTS
    NoDangling
    NoForgottenTask
    TimeoutArmed
PROPERTIES
    NoCallbackAfterAbort
CHECK_DEADLOCK FALSE
