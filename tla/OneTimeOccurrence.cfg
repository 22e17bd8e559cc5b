SPECIFICATION Spec
CONSTANTS
    p1 = p1
    p2 = p2
    Processes = {p1, p2}
    LeaseLength = 1
    Outcomes = {"ok"}
    NoReceipt = NoReceipt
    MaxClock = 2
    MaxInstances <- OneRestart
    Stoppable = {p1}
    MaxQueued = 1
INVARIANTS
    AtMostOnce
PROPERTIES
    KeepsPromise
    LiveLeaseRespected
