SPECIFICATION AllSpec
CONSTANTS
    c1 = c1
    c2 = c2
    a = a
    b = b
    p1 = p1
    p2 = p2
    None = None
    Clients = {c1, c2}
    Orders = {p1, p2}
    Sources = {a, b}
    Limit = 2
    MaxSub = 4
SYMMETRY Symmetry
INVARIANTS
    SubmissionsHold
    DepthQualifies
    RemediationHolds
    HourlyLimitHolds
    EventsHold
    FilingAgrees
    RetirementHolds
PROPERTIES
    ServicesStay
CHECK_DEADLOCK FALSE
