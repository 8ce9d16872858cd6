SPECIFICATION Spec
CONSTANTS
    Writers = {w1, w2}
    Controllers = {c}
    Adapters = {"console", "file"}
    Levels = {3, 7}
    msgChanLen = 1
    MaxMsgs = 1
    MaxCalls = 3
INVARIANTS
    B_Inv
    FlushedBefore
PROPERTIES
    CallsReturn
    AcceptedWritten
CHECK_DEADLOCK FALSE
