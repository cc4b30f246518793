SPECIFICATION MCSpec
CONSTANTS
  Views = {"list", "detail"}
  ToolNames = {"save"}
  ToolsOf <- Declared
  ReactViews = {"detail"}
  MaxNavs = 3
  Disposal = Disposal
  Unknown = Unknown
  NoView = NoView
  InitialView = "list"
  MaxNotes = 2
  MaxSessions = 1
  HostAsks = {h1}
  DisposeCalls = {d1}
  Surfaces <- HostSurfaces
  DefaultSurface = "two"
  NoSurface = "none"
  Registry = {"k"}
  ToolResults <- HostResults
  JsonObjects = {"d1", "d2"}
  ValidData = {"d1"}
  HostContexts <- HostChanges
  InPlace = TRUE
  MaxShows = 2
  MaxContexts = 1
  MaxMounts = 8
  EventSubs = {"sub1", "sub2", "sub3"}
  ActionOf <- ActionsOfSubs
  MaxMessages = 3
  SchemaSets <- SomeSchemas
  ActionSets <- SomeActions
  PortLists <- SomePorts
  ManifestLayouts <- SomeLayouts
  ManifestKeys = {"k"}
  ManifestUris <- SomeUris
CHECK_DEADLOCK FALSE
INVARIANTS
  OneViewAtATime
  DisplayTrue
  Listened
  ManifestHonest
PROPERTIES
  TeardownSettles
