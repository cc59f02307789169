\* The use QyMessageThread makes of the queue: get only, and handlers that are
\* cleared or destroyed by another thread.
SPECIFICATION FairSpec
CONSTANTS
    p1 = p1
    p2 = p2
    m1 = m1
    m2 = m2
    m3 = m3
    h1 = h1
    h2 = h2
    Posters = {p1, p2}
    Msgs = {m1, m2}
    Disposals = {}
    Handlers = {h1, h2}
    HandlerOf <- MCHandlerOf
    ClearSets <- MCClearSets
    DelaysOf <- MCDelaysOf
    Waits = {}
    ClockMod = 8
    MaxClock = 1
    MaxClears = 1
    UsePeek = FALSE
    ForeignClear = TRUE
    Getter = Getter
    Cleaner = Cleaner
    Free = Free
    NoMsg = NoMsg
    Forever = Forever
PROPERTIES
    Served
