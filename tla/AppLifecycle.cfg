SPECIFICATION LifecycleSpec
CONSTANTS
  Streams = {s1}
  Changes = {tools, uri}
  Supported = {tools}
  Ops = {o1, o2}
  ToolCalls = {t1}
  MaxServers = 2
  MaxMessages = 2
CHECK_DEADLOCK FALSE
INVARIANTS
  StreamsSound
  RunsWhileStarted
PROPERTIES
  NoTaskOnceStopping
