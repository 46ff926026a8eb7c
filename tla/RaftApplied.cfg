SPECIFICATION Spec
CONSTANTS
    Node = {"n1", "n2", "n3"}
    Command = {"c1", "c2"}
    Nil = "nil"
    MaxTerm = 3
    MaxLog = 2
    MaxInFlight = 3
ACTION_CONSTRAINT Scenario
VIEW AppliedView
CHECK_DEADLOCK FALSE
INVARIANT AppliedAgree
