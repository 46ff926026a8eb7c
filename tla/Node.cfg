SPECIFICATION FairSpec
CONSTANTS
    Name <- Timers
    Slot <- ThreeSlots
    Conn = {c1, c2}
    Socket = c1
    Cap = 2
    Setups <- FourNodes
    MaxRead <- ReadBound
INVARIANTS
    TypeOK
    NoOrphanTicker
    QuietOnceStopped
    UdpNeverBlocks
    NewestKept
PROPERTIES
    NothingAfterStop
    UdpStops
CHECK_DEADLOCK FALSE
