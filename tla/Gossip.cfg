SPECIFICATION FairSpec
CONSTANTS
    n1 = n1
    n2 = n2
    n3 = n3
    k1 = k1
    v1 = v1
    v2 = v2
    Node = {n1, n2, n3}
    Key = {k1}
    Value = {v1, v2}
    NoValue = NoValue
    Writers <- OneWriter
    Fanout = 1
    MaxVersion = 2
    MaxCopies = 2
    MaxInFlight = 2
ACTION_CONSTRAINT FirstIsV1
CHECK_DEADLOCK FALSE
INVARIANTS
    TypeOK
    VersionsAgree
PROPERTIES
    NoRegress
    Converges
