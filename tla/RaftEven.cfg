SPECIFICATION Spec
CONSTANTS
    n1 = n1
    n2 = n2
    n3 = n3
    n4 = n4
    Node = {n1, n2, n3, n4}
    c1 = c1
    Command = {c1}
    Nil = Nil
    MaxTerm = 1
    MaxLog = 0
    MaxInFlight = 6
SYMMETRY Symmetry
CHECK_DEADLOCK FALSE
INVARIANT ElectionSafety
