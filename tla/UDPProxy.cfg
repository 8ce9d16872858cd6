SPECIFICATION U_FairSpec
CONSTANTS
  Client = {c1, c2}
  Socket = {s1, s2, s3}
  NoSocket = NoSocket
  NoClient = NoClient
  c1 = c1
  c2 = c2
  s1 = s1
  s2 = s2
  s3 = s3
CHECK_DEADLOCK FALSE
INVARIANT U_Inv
PROPERTIES WindsDown ImplementsListener
