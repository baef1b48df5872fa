CONSTANTS
  MaxAttempts = 1
  InitialRetryDelay = 5
  BlockedRetryDelay = 5
  MaximumRetryDelay = 60
  NoConnection = NoConnection
  TransientOpenRetryMaxAttempts = 1
  Address <- MCAddress
  Device = {"d1"}
  Command = {}
  Policies <- MCPolicies
  Scopes <- PowerOnly
  MaxEvents = 1
SPECIFICATION Spec
VIEW CurrentEpochs
INVARIANT HeldSessionsAreRecoverable
CHECK_DEADLOCK FALSE
