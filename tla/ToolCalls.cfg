SPECIFICATION MCSpec
CONSTANTS
  Callers = {c1, c2, c3, c4, c5}
  MaxConcurrent = 2
  Requests = {r1, r2, r3, r4, r5}
  Keys = {k1, k2}
  WindowMs = 3
  MaxRequests = 2
  PurgeEvery = 2
  BaseDelay = 1
  DelayCap = 2
  MaxTime = 5
  Calls = {a}
  Middlewares <- Customs
  MaxNext = 2
  MaxVersions = 2
CHECK_DEADLOCK FALSE
INVARIANTS
  RunsInOnion
PROPERTIES
  FirstComeFirstServed
  ImplementsSlots
  QueuedServed
  LimiterHonest
