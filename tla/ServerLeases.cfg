SPECIFICATION FairSpec
CONSTANTS
  OctetBits = 2
  OctetSize = 4
  Cidrs <- FewVips
  Conn = {c1, c2}
  DomainName = {"a", "b"}
  FreshDomain = {}
  Protocol = {"tcp", "udp", "http", "dummy", "sctp"}
  Port = {0, 80}
  AnyPort = 0
  LocalPort = {"8080", ":8080"}
  BadLocalPort = {":8080"}
  ForeignPorts = {}
  NoVip = NoVip
  Requests <- LeaseRequests
  HasResolver = TRUE
  MaxCrashes = 1
CHECK_DEADLOCK FALSE
INVARIANT CleanExit
PROPERTIES
  LeasesRoutes
  DeadLinkReclaimed
