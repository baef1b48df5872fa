SPECIFICATION MCSpec
CONSTANTS
    s1 = s1
    s2 = s2
    c1 = c1
    t1 = t1
    x1 = x1
    w1 = w1
    w2 = w2
    NoOne = NoOne
    Device = {d1, d2}
    Pool = {p1, p2}
    UI = UI
    MaxAttempts = 2
    MaxCycles = 2
    MaxFailures = 1
INVARIANTS
    NothingRunsAfterReturn WhatIsToldIsSo PendingIsAwaited
    RecoveryIsExact LogIsAccountedFor ToastsBelongToTheService
PROPERTIES NothingHappensAfterStop EverythingSettles
CHECK_DEADLOCK FALSE
