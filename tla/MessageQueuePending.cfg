\* A post that overlaps a stop, or follows the message being dispatched at it.
SPECIFICATION Spec
CONSTANTS
    p1 = p1
    p2 = p2
    m1 = m1
    m2 = m2
    m3 = m3
    h1 = h1
    h2 = h2
    Posters = {p1, p2}
    Msgs = {m1, m2}
    Disposals = {}
    Handlers = {h1, h2}
    HandlerOf <- MCHandlerOf
    ClearSets <- MCClearSets
    DelaysOf <- MCDelaysOf
    Waits = {0}
    ClockMod = 8
    MaxClock = 2
    MaxClears = 0
    UsePeek = FALSE
    ForeignClear = TRUE
    Getter = Getter
    Cleaner = Cleaner
    Free = Free
    NoMsg = NoMsg
    Forever = Forever
INVARIANT ReadyPostsDelivered
