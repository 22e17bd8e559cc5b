SPECIFICATION Spec
CONSTANTS
    NumProviders = 2
    Calls = {c1, c2}
    MaxConcurrency = 1
    GlobalMax = 2
    Priorities = {"idle"}
    Routes <- AnyProvider
    Preferences = {NoProvider, 1}
    Kinds = {"chat", "stream"}
    Durations = {0, 3}
    BaseFreeze = 1
    MaxFreeze = 2
    StreakCap = 2
    MaxAttempts = 1
    Probers = {"operator"}
    NoProvider = NoProvider
    NoCall = NoCall
    NoThaw = NoThaw
SYMMETRY CallSymmetry
INVARIANTS
    PermitsBalance
    CountedOnce
PROPERTIES
    FreezeLiftedRightly
