\* Peek in use; clear is called by handlers, on the getter's own thread.
SPECIFICATION Spec
CONSTANTS
    p1 = p1
    p2 = p2
    m1 = m1
    m2 = m2
    m3 = m3
    h1 = h1
    h2 = h2
    Posters = {p1, p2}
    Msgs = {m1, m2, m3}
    Disposals = {m3}
    Handlers = {h1, h2}
    HandlerOf <- MCHandlerOf
    ClearSets <- MCClearSets
    DelaysOf <- MCDelaysOf
    Waits = {0}
    ClockMod = 8
    MaxClock = 1
    MaxClears = 1
    UsePeek = TRUE
    ForeignClear = FALSE
    Getter = Getter
    Cleaner = Cleaner
    Free = Free
    NoMsg = NoMsg
    Forever = Forever
INVARIANTS
    TypeOK
    NoLostWakeup
    NotEarly
    FifoOrder
    DestroyedNotHeld
PROPERTIES
    ImplementsMailbox
SYMMETRY MCSymmetry
