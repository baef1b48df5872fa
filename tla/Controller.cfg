SPECIFICATION MCSpec
CONSTANTS
    o1 = o1
    o2 = o2
    NoOne = NoOne
    Device = {"d1", "d2"}
    Caller = {"c1", "c2"}
    Name <- MCName
    Hex <- MCHex
    Budgets <- MCBudgets
    Attempts = 3
INVARIANTS CallsTellTheTruth StreamIsWhole RequestsAreUnderstood ResponsesKeepToTheRequest
PROPERTIES NotificationsAreCurrent
CHECK_DEADLOCK FALSE
