CONSTANTS
  Client = {c1, c2}
  Worker = worker
  Subscriber = {s1}
  NoOne = NoOne
  Scopes <- ProgressScopes
SPECIFICATION FairSpec
PROPERTIES
  EverythingIsDone
