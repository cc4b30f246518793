SPECIFICATION MCSpec
CONSTANTS
  UnsafeTexts <- Unsafe
  Numerals <- Numbers
  MaxSafe = 8
  TokenNames = {"H", "h", "i"}
  LowerCase <- Lower
  HeaderSchemas <- Schemas
  BodyValues <- Values
  InnerValues <- Inners
  RawTexts <- Raws
  InnerTexts <- InnerRaws
  LooseNumerals <- Loose
  Callers = {"alice", "bob"}
  OwnerKeys = {"tenant1"}
  TaskIds = {"t1"}
  Nobody = "nobody"
  CapabilitySets <- Declared
  Signals <- AskedFor
  MaxPosts = 2
  Uris = {"u1", "u2"}
  Batches <- SomeBatches
  Unsized = 0
  AnyMime = "any"
  Csp = TRUE
  CspBytes = 1
  MaxCommits = 3
  Exchanges = {x1, x2}
  MaxBody = 2
  Lengths = {0, 1, 2, 3}
  MaxChunks = 3
  Chunked = Chunked
CHECK_DEADLOCK FALSE
INVARIANTS
  HeadersMirrorBody
  EntitledOnly
  AnswersHonest
  ServedWithinLimit
PROPERTIES
  ResourcesHonest
