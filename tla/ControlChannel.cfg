SPECIFICATION MCSpec
CONSTANTS
    c1 = c1
    c2 = c2
    Client = {c1, c2}
    Instance = {i1, i2}
    Id = {1, 2}
    Body = {"set", "show"}
    Mutating = {"set"}
    NoClient = NoClient
    NoRequest = NoRequest
    NoAnswer = NoAnswer
    MaxRequestRecords = 1
    MaxRequestCacheBytes = 2
    ReservedBytes = 2
    RequestRecordLifetime = 3
    AcknowledgedLifetime = 1
    Horizon = 3
    RearmLimit = 1
    Budgets <- MCBudgets
    RequestTimeout = 1
    MaxReplayAttempts = 2
    OverallTimeout = 1
INVARIANTS CommandsRunAtMostOnce CacheIsSound NoInstanceIsLost
SYMMETRY Symmetry
PROPERTIES ImplementsControlCall
CHECK_DEADLOCK FALSE
