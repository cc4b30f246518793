SPECIFICATION MCSpec
CONSTANTS
  TaskIds = {t1}
  Callers = {alice, bob}
  Keys = {k1, k2}
  Messages = {m}
  Ttls = {0, 1}
  NoTtl = NoTtl
  NoMessage = NoMessage
  Outcomes = {"result", "unformattable", "aborterror", "error"}
  MaxTasks = 1
  MaxTime = 2
  Rich = t1
  Asker = alice
CHECK_DEADLOCK FALSE
INVARIANT
  AbortRejectsWaits
