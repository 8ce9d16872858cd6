SPECIFICATION BothSpec
CONSTANTS
  OctetBits = 2
  OctetSize = 4
  Cidrs <- Vips
  Conn = {1, 2, 3}
  DomainName = {"a"}
  FreshDomain = {}
  Protocol = {"tcp"}
  Port = {0, 80}
  AnyPort = 0
  LocalPort = {"8080"}
  BadLocalPort = {}
  ForeignPorts = {}
  NoVip = NoVip
  Requests <- ClientRequests
  HasResolver = FALSE
  MaxCrashes = 0
  Retries = 1
  MaxTroubles = 1
  c1 = c1
  x1 = x1
  s1 = s1
  NoSession = NoSession
  NoStream = NoStream
CHECK_DEADLOCK FALSE
PROPERTIES ClientComesBack AnswerEnds
