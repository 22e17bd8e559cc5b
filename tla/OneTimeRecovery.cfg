SPECIFICATION FairSpec
CONSTANTS
    p1 = p1
    p2 = p2
    Processes = {p1}
    LeaseLength = 1
    Outcomes = {"ok", "failed", "unsure"}
    NoReceipt = NoReceipt
    MaxClock = 3
    MaxInstances <- TwoRestarts
    Stoppable = {p1}
    MaxQueued = 1
INVARIANTS
    ConsumedHasEvidence
PROPERTIES
    LostLeaseWritesNothing
    AbandonedIsSettled
