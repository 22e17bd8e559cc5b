SPECIFICATION Spec
CONSTANTS
    Interval = 1
    MaxTime = 2
    Slots = {1, 2, 3}
    Permits = 2
    QueueCap = 1
    Kinds = {"tick", "write", "crash", "stop", "edit", "disarm", "explicit"}
    Cases <- AllCases
INVARIANTS
    RecoveryHolds
PROPERTIES
    FileAdvances
CHECK_DEADLOCK FALSE
