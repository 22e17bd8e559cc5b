SPECIFICATION Spec
CONSTANTS
    Callers = {c1, c2}
    Scopes = {s1}
    Policies <- MCPolicies
    Providers <- MCProviders
    Requests <- MCRequests
    Usages <- MCUsages
    CacheTokens = {0, 1}
    RateUnit = 2
    I64Max = 12
    MaxAttempts = 3
    NoRow = NoRow
    NoUsage = NoUsage
SYMMETRY CallerSymmetry
INVARIANTS
    LedgerBalanced
    WithinLimits
    RealSpendWithinLimit
    OverrunsBlock
PROPERTIES
    FailedStreamKeepsCharge
