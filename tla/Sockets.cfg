\* Two connections of each socket, the first of which may leave bytes behind.
SPECIFICATION Spec
CONSTANTS
    a = a
    b = b
    Sockets = {a, b}
    Peer <- MCPeer
    Radix = 2
    PktLenSize = 2
    Packets <- MCPackets
    KernelBuf = 3
    MaxSends = 2
    MaxConnects = 4
    MaxCloses = 2
    Nobody = Nobody
INVARIANTS
    Framed
    Registered
    DataIsHeard
SYMMETRY MCSymmetry
\* The sends, connections and closes are used up.
CHECK_DEADLOCK FALSE
