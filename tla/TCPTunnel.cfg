SPECIFICATION FairSpec
CONSTANTS
  Session = {x1}
  Stream = {s1, s2}
  Conn = {c1, c2}
  Vip <- OneSession
  Window = 1
  NoSession = NoSession
  NoStream = NoStream
  c1 = c1
  c2 = c2
  x1 = x1
CHECK_DEADLOCK FALSE
INVARIANT Inv
PROPERTY FrontCloseEnds
