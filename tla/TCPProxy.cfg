SPECIFICATION P_FairSpec
CONSTANTS
  Conn = {c1, c2}
  c1 = c1
  c2 = c2
CHECK_DEADLOCK FALSE
INVARIANT P_Inv
PROPERTIES BothEndsRelease ImplementsListener
