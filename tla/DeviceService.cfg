CONSTANTS
  MaxAttempts = 1
  InitialRetryDelay = 5
  BlockedRetryDelay = 5
  MaximumRetryDelay = 60
  NoConnection = NoConnection
  TransientOpenRetryMaxAttempts = 1
  Address <- MCAddress
  Device = {"d1"}
  Command = {"c1", "c2"}
  Policies <- MCPolicies
  Scopes <- MCScopes
  MaxEvents = 1
SPECIFICATION Spec
VIEW CurrentEpochs
INVARIANTS
  WaitsAreSound
  SettingsReachSessions
PROPERTIES
  LateWorkIsFenced
CHECK_DEADLOCK FALSE
