SPECIFICATION R_FairSpec
CONSTANTS
  Session = {x1}
  Stream = {s1}
  Conn = {c1}
  Vip <- OneSession
  Window = 1
  NoSession = NoSession
  NoStream = NoStream
  c1 = c1
  x1 = x1
CHECK_DEADLOCK FALSE
PROPERTY BothClosedEnds
