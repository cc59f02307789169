SPECIFICATION FairSpec
CONSTANTS
    Packets <- MCPackets
    Length <- MCLength
    Header = 1
    Slots = 2
    ReadMax = 8
    Empty = Empty
    Nobody = Nobody
INVARIANTS
    NothingLost
PROPERTIES
    Delivered
    CloseReported
\* The pipe may be closed and everything heard of.
CHECK_DEADLOCK FALSE
