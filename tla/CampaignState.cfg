SPECIFICATION Spec
CONSTANTS
    p1 = p1
    a = a
    b = b
    f1 = f1
    f2 = f2
    s1 = s1
    s2 = s2
    None = None
    Procs <- OneProc
    Campaigns <- CampaignSet
    Fires <- FireSet
    Setters <- SetterSet
    Guarded <- SetterSet
    MaxRuns <- RunBudgets
    Timed <- TimedSet
    Limits <- LimitSet
    NTargets = 2
    DefaultLimit = 1
    MaxU32 = 2
    CursorSpan = 2
    PerFire = 2
    Budgets <- FaultsOrResizing
SYMMETRY Symmetry
INVARIANTS
    GateHolds
    AllowanceHolds
CHECK_DEADLOCK FALSE
