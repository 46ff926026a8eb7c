SPECIFICATION FairSpec
CONSTANTS
    Name <- Timers
    Slot <- ThreeSlots
    Conn = {c1}
    Socket = c1
    Cap = 1
    Setups <- TcpNode
    MaxRead <- ReadBound
PROPERTY TcpStops
CHECK_DEADLOCK FALSE
