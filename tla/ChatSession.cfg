SPECIFICATION ChatSpec
CONSTANTS
    main = main
    b1 = b1
    b2 = b2
    c1 = c1
    c2 = c2
    None = None
    Main = main
    Sessions = {main, b1}
    Callers = {c1, c2}
    MaxTurns = 2
    ForkCounts = {1}
    Faults = {"write", "die"}
    Budgets <- WritesOrDeath
SYMMETRY Symmetry
INVARIANTS
    TranscriptsHold
    UndoRestores
CHECK_DEADLOCK FALSE
