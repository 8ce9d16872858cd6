SPECIFICATION Spec
CONSTANTS
  OctetBits = 2
  OctetSize = 4
  Cidrs <- FewVips
  Conn = {c1, c2}
  DomainName = {"a", "b", "r1", "r2"}
  FreshDomain = {"r1", "r2"}
  Protocol = {"tcp", "udp", "http", "dummy", "sctp"}
  Port = {0, 80}
  AnyPort = 0
  LocalPort = {"8080", ":8080"}
  BadLocalPort = {":8080"}
  ForeignPorts <- UdpPort80
  NoVip = NoVip
  Requests <- TrafficRequests
  HasResolver = FALSE
  MaxCrashes = 0
SYMMETRY Symmetry
CHECK_DEADLOCK FALSE
INVARIANTS
  IInv
  RouteOwner
  VipExclusive
  ServedFully
  ListenerIsolation
  ListenerKept
  UpstreamIsolation
