SPECIFICATION SyncSpec
CONSTANTS
    n1 = n1
    n2 = n2
    k1 = k1
    k2 = k2
    v1 = v1
    Node = {n1, n2}
    Key = {k1, k2}
    Value = {v1}
    NoValue = NoValue
    Writers <- OwnKeys
    t1 = t1
    Senders = {n2}
    Clock = {t1}
    MaxResend = 1
    Fanout = 1
    Aging = {n1}
    MaxVersion <- Versions
    MaxInFlight = 1
CHECK_DEADLOCK FALSE
INVARIANTS
    DeltaLosesNothing
PROPERTIES
    NoRegress
    Converges
