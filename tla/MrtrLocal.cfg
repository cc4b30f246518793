SPECIFICATION FairSpec
CONSTANTS
  Requests = {r1, r2, r3}
  Processes = {p1}
  Principals = {alice, bob}
  NoSubject = NoSubject
  Calls = {c1, c2}
  Shared = FALSE
  Ttl = 2
  MaxEntries = 1
  MaxTokens = 2
  MaxTime = 4
  Restarts = 1
  alice = alice
  bob = bob
  c1 = c1
  c2 = c2
  Traffic <- Retries
CHECK_DEADLOCK FALSE
INVARIANTS
  SpentOnce
PROPERTIES
  AnsweredFairly
