SPECIFICATION LifecycleSpec
CONSTANTS
  Streams = {s1}
  Changes = {tools}
  Supported = {tools}
  Ops = {o1, o2}
  ToolCalls = {}
  MaxServers = 2
  MaxMessages = 1
INVARIANTS
  StopShutsDown
CHECK_DEADLOCK FALSE
