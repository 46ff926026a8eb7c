SPECIFICATION Spec
CONSTANTS
    p1 = p1
    p2 = p2
    Producer = {p1, p2}
    Priority = {0, 1}
    Cap = 2
    MaxPush = 4
    None = None
CHECK_DEADLOCK FALSE
INVARIANTS
    TypeOK
    NoLostWakeup
    Bounded
    ServiceOrder
    Accounted
PROPERTIES
    EventuallyServed
    StopReturns
