CONSTANTS
  Client = {c1, c2}
  Worker = worker
  Subscriber = {s1, s2}
  NoOne = NoOne
  Scopes <- SafetyScopes
SPECIFICATION Spec
SYMMETRY Alike
INVARIANTS
  NothingIsLost
  AnswersAreTrue
  SubscribersMissNothing
PROPERTIES
  WhatIsSettledStays
