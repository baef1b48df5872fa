CONSTANTS
  MaxAttempts = 1
  InitialRetryDelay = 5
  BlockedRetryDelay = 5
  MaximumRetryDelay = 60
  NoConnection = NoConnection
  TransientOpenRetryMaxAttempts = 2
  Address <- MCAddress
  OpenStatus = {"Success", "UnknownFailure"}
  Operation = {"ManualConnect"}
  Platform <- FewRefusals
  MaxEpoch = 2
  MaxTimerEpoch = 2
  MaxCallbacks = 3
SPECIFICATION TimerFairSpec
INVARIANT RetriesFollowTheSchedule
PROPERTIES LateCallbacksChangeNothing OperationsSettle
CHECK_DEADLOCK FALSE
