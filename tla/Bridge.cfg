SPECIFICATION Spec
CONSTANTS
  Calls = {k1, k2}
  MaxConns = 2
  MaxRestarts = 1
  Strategy = "reject"
  Direct = Direct
  None = None
  Requests = {q1}
  MaxSockets = 2
  MaxReconnect = 1
  AuthRequired = TRUE
  Extras = 2
  NoSocket = NoSocket
  Posts = {p1}
  MaxStarts = 3
  NoLink = NoLink
  Directories <- AppDirectories
  Files <- AppFiles
  HtmlNames <- PageNames
  UiPath <- UiRoute
  AllowedOrigins <- OneOrigin
  SessionLimit = 2
  BotToken = "bot"
  OtherTokens = {"other"}
  Issued <- BotSigned
  Forms <- SomeForms
  MaxAge = 100
  Skew = 60
  UiUris <- SomeUiUris
  Nows <- ClockValues
SYMMETRY Alike
CHECK_DEADLOCK FALSE
INVARIANTS
  TunnelSound
  PageServed
  
