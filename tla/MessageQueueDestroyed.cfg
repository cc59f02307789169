\* A handler destroyed by a thread other than the one that dispatches.
SPECIFICATION Spec
CONSTANTS
    p1 = p1
    p2 = p2
    m1 = m1
    m2 = m2
    m3 = m3
    h1 = h1
    h2 = h2
    Posters = {p1, p2}
    Msgs = {m1, m2}
    Disposals = {}
    Handlers = {h1, h2}
    HandlerOf <- MCHandlerOf
    ClearSets <- MCClearSets
    DelaysOf <- MCDelaysOf
    Waits = {0}
    ClockMod = 8
    MaxClock = 2
    MaxClears = 2
    UsePeek = FALSE
    ForeignClear = TRUE
    Getter = Getter
    Cleaner = Cleaner
    Free = Free
    NoMsg = NoMsg
    Forever = Forever
INVARIANT NoDispatchToDestroyed
