SPECIFICATION MCSpec
CONSTANTS
    Pool = {p1, p2}
    Observation <- MCObservation
    Budgets <- MCBudgets
    PressureToCold = 1
    ColdToWarm = 1
    WarmToHot = 1
    InteractionHold = 2
    MaximumAge = 3
    InitialRetry = 1
    MaximumRetry = 2
INVARIANTS
    TrayIsConsistent
    MonitorTellsInOrderAndStops
    ViewIsTrue
PROPERTIES
    PickerFollowsTheLoad
    PresenterKeepsItsWindow
    InterfaceComesToRest
CHECK_DEADLOCK FALSE
