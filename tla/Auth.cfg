SPECIFICATION MCSpec
CONSTANTS
  Trimmed <- TrimText
  HttpUrls = {"https://a"}
  Hosts = {"host"}
  Environments <- SomeEnvironments
  Files <- SomeFiles
  EntryLists <- SomeEntryLists
  ScopeLists <- SomeScopeLists
  ResourceUrls = {"https://a", " "}
  ClientConfigs <- SomeClients
  Ports = {1, 2}
  Tokens = {"good", "brief", "stray"}
  Signer <- SignedBy
  Expiry <- ExpiresAt
  NoExpiry = 9
  Granted <- Grants
  TenantOf <- Tenant
  NoTenant = {"refused", "empty", "throws"}
  Required = {"read", "write"}
  Hook = TRUE
  CacheTtl = 2
  MaxCacheSize = 1
  KeySetAge = 2
  KeyRest = 1
  KeyTimeout = 1
  Requests = {"r1", "r2"}
  MaxTime = 5
  CacheTtlMs = 2
  FetchTimeout = 1
  MaxFetches = 2
  MaxAsTime = 4
  Clients = {"c1", "c2"}
  Issuers = {"asA", "asB"}
  NoIssuer = "none"
  MaxFlows = 3
  MaxVisits = 3
  MaxMessages = 4
  MaxRepeats = 1
CHECK_DEADLOCK FALSE
INVARIANTS
  ConfigAgreed
  TokensRespected
  KeptOfIssuer
  AcceptedAscending
PROPERTIES
  PortReleased
