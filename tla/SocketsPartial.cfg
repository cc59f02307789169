\* Partial sends: what is left waits for an event nobody has asked for.
SPECIFICATION FairSpec
CONSTANTS
    a = a
    b = b
    Sockets = {a, b}
    Peer <- MCPeer
    Radix = 2
    PktLenSize = 2
    Packets <- MCPackets
    KernelBuf = 4
    MaxSends = 2
    MaxConnects = 2
    MaxCloses = 0
    Nobody = Nobody
PROPERTIES
    PartialIsSent
CHECK_DEADLOCK FALSE
