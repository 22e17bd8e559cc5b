SPECIFICATION AllSpec
CONSTANTS
    p1 = p1
    p2 = p2
    NoCloser = "nobody"
    Closers <- TwoClosers
    RetainedRows <- Tables
    Budget <- CloseoutFaults
SYMMETRY ProcsAlike
INVARIANTS
    RunsAreExplained
    CloseoutHolds
    ScansReconciled
PROPERTIES
    FinalStays
CHECK_DEADLOCK FALSE
