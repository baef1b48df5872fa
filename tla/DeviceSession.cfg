CONSTANTS
  MaxAttempts = 1
  InitialRetryDelay = 5
  BlockedRetryDelay = 5
  MaximumRetryDelay = 60
  NoConnection = NoConnection
  TransientOpenRetryMaxAttempts = 2
  Address <- MCAddress
  OpenStatus = {"Success", "UnknownFailure"}
  Operation = {"ManualConnect", "Startup"}
  Platform <- EachRefusal
  MaxEpoch = 100
  MaxTimerEpoch = 100
  MaxCallbacks = 100
SPECIFICATION Spec
VIEW CurrentEpochs
INVARIANTS
  TypeOK
  ConnectionsDoNotOverlap
  LiveConnectionIsHeard
  BusyIsAwaited
  StoppedStaysStopped
  SettledStateIsPublished
CHECK_DEADLOCK FALSE
