SPECIFICATION HarnessSpec
CONSTANTS
    c1 = c1
    c2 = c2
    s1 = s1
    s2 = s2
    t1 = t1
    None = None
    Clients = {c1, c2}
    Sources = {s1, s2}
    MaxId = 2
    MaxRun = 2
    Tasks = {t1}
    Results = {"clean", "crashes"}
    Faults = {"write", "drop"}
    Budget <- OneDrop
SYMMETRY Symmetry
INVARIANTS
    RanAsApproved
    AttemptsAreEvidence
    RecordsAreTrue
PROPERTIES
    EvidenceStays
CHECK_DEADLOCK FALSE
