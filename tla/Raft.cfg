SPECIFICATION Spec
CONSTANTS
    n1 = n1
    n2 = n2
    n3 = n3
    Node = {n1, n2, n3}
    c1 = c1
    c2 = c2
    Command = {c1, c2}
    Nil = Nil
    MaxTerm = 2
    MaxLog = 2
    MaxInFlight = 3
CONSTRAINTS
    FewWithEntries
    OneStartsLate
    CommandsDiffer
SYMMETRY Symmetry
CHECK_DEADLOCK FALSE
INVARIANTS
    TypeOK
    ElectionSafety
    VotesCounted
    TimersArmed
    LeaderKnown
    LogMatching
    TermsRise
PROPERTIES
    LeaderAppendOnly
    SharedKept
