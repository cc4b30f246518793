SPECIFICATION MCSpec
CONSTANTS
  Servers = {"s1", "s2"}
  Spawned = {"s1"}
  Protocol <- Protocols
  Sources <- Template
  CallsOf <- OneCall
  MaxRequests = 2
  Absent = Absent
  MaxPages = 2
  Frames <- TwoFrames
  Requested <- AskedFor
  Catalogs <- Advertised
  Panel <- Proxies
  Requests <- Asked
  Rules <- Static
  PortRules <- Dynamic
  Sizes = {1, 2}
  MaxSends = 2
  Manifests = {"m", "n"}
  TemplateTools = {"t", "u"}
  CallIds = {"a"}
  SourceIds = {"S"}
  MaxSources = 2
  MaxCalls = 2
  Tools <- TwoTools
  Labelings <- SomeLabels
  Events = {"e", "f"}
  Actions = {"g"}
  MaxRules = 2
  Names <- SomeNames
  UnsafeNames <- Unsafes
  ToolArguments <- SomeArguments
  Annotations <- SomeAnnotations
  HeaderCase <- InLowerCase
  PathSegments = {"", "a", "mcp"}
  MaxSegments = 4
  Own = "own"
  Foreign = "foreign"
  Granted <- Grants
CHECK_DEADLOCK FALSE
INVARIANTS
  StopsClean
  PanelsInformed
  RulesMean
  ConnectionsTrue
PROPERTIES
  CompositionSettles
