\* startSSL on a socket that is connected to its proxy, not yet through it.
SPECIFICATION NetSpec
CONSTANTS
    Bytes = {10, 1}
    BufSize = 2
    Round = 4
    MaxCalls = 4
    MaxChunk = 2
    BuffSize = 2
    Room = 1
    MaxBytes = 4
    StreamIds = {0, 1}
    MaxAtoms = 3
    BufLens = {1, 4, 7, 64}
    Sigs = {s1, s2}
    Objects = {o1, o2, o3}
    End = End
    MaxSteps = 7
    Fronts = {"socks", "ssl"}
    SendRoom = 3
    MaxRecords = 2
    MaxSends = 2
    MaxConnects = 2
    StartWhen = {"during"}
INVARIANTS
    ConnectedMeansNegotiated
CHECK_DEADLOCK FALSE
