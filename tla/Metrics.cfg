SPECIFICATION Spec
CONSTANTS
    RingSize = 3
    Latency <- ThreeLatencies
    MaxArrived = 4
    MaxLines = 2
    MaxCrashes = 2
CONSTRAINT RingOrReporter
INVARIANTS
    TypeOK
    SkewBounded
    FinalReport
    HeaderUnlessMissed
PROPERTY RingShowsLatest
CHECK_DEADLOCK FALSE
