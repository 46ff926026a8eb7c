SPECIFICATION PartitionSpec
CONSTANTS
    n1 = n1
    n2 = n2
    n3 = n3
    n4 = n4
    k1 = k1
    v1 = v1
    Node = {n1, n2, n3, n4}
    Key = {k1}
    Value = {v1}
    NoValue = NoValue
    Writers <- OneWriter
    Senders = {}
    Clock = {}
    MaxResend = 0
    Fanout = 3
    Aging = {}
    MaxVersion <- OneWrite
    MaxInFlight = 1
ACTION_CONSTRAINT TwoIslands
CHECK_DEADLOCK FALSE
PROPERTY Converges
