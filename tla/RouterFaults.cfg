SPECIFICATION Spec
CONSTANTS
    a = a
    Channel = {a}
    W = 2
    SeqLimit = 4
    MaxSend = 4
    MaxRestarts = 1
CHECK_DEADLOCK FALSE
INVARIANTS
    TypeOK
    WindowBounded
    RefusedWithinRun
PROPERTY DeliversAtMostOnce
