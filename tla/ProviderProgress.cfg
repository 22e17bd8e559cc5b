SPECIFICATION FairSpec
CONSTANTS
    NumProviders = 1
    Calls = {c1, c2, c3}
    MaxConcurrency = 1
    GlobalMax = 2
    Priorities = {"critical"}
    Routes <- AnyProvider
    Preferences = {NoProvider}
    Kinds = {"chat"}
    Durations = {1}
    BaseFreeze = 1
    MaxFreeze = 1
    StreakCap = 1
    MaxAttempts = 2
    Probers = {"loop"}
    NoProvider = NoProvider
    NoCall = NoCall
    NoThaw = NoThaw
PROPERTIES
    PoolRecovers
