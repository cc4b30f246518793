SPECIFICATION Spec
CONSTANTS
  Requests = {r1, r2, r3}
  Processes = {p1, p2}
  Principals = {alice, bob}
  NoSubject = NoSubject
  Calls = {c1, c2}
  Shared = TRUE
  Ttl = 1
  MaxEntries = 1
  MaxTokens = 2
  MaxTime = 1
  Restarts = 1
  alice = alice
  bob = bob
  c1 = c1
  c2 = c2
  Traffic <- AllKinds
SYMMETRY Alike
INVARIANTS
  AnswersVerified
PROPERTIES
  ImplementsTickets
CHECK_DEADLOCK FALSE
