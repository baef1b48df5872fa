CONSTANTS
  MaxAttempts = 1
  InitialRetryDelay = 5
  BlockedRetryDelay = 5
  MaximumRetryDelay = 60
  NoConnection = NoConnection
  TransientOpenRetryMaxAttempts = 2
  Address <- MCAddress
  OpenStatus = {"Success", "UnknownFailure"}
  Operation = {"ManualConnect", "Startup"}
  Platform <- EachRefusal
  MaxEpoch = 3
  MaxTimerEpoch = 3
  MaxCallbacks = 4
SPECIFICATION Spec
CHECK_DEADLOCK FALSE
INVARIANT AbandonedCloseStaysTerminal
