SPECIFICATION PartsSpec
CONSTANTS
  OctetBits = 1
  OctetSize = 2
  Cidrs <- MCCidrs
  Writers = {w1, w2}
  Queue = q
  full = "full"
  LevelLogs = {"error"}
  Configs <- MCConfigs
  Daily = TRUE
  MaxDays = 1
  MaxNum = 2
  LastDay = 1
  MaxMsgs = 2
  MaxTroubles = 1
  Params = {0, 1, 91}
  defaultAttr = {"fgR", "fgG", "fgB", "other"}
  TextBytes <- MCText
  MaxText = 1
  MaxParam = 3
  LogCallers = {"c1", "c2"}
  Topics = {"topic"}
  FlushWhen = 2
  NHeaders = 3
  MaxLogs = 3
  MaxFailures = 1
  Loggers = {"g1", "g2"}
  MaxSent = 2
  MaxDials = 2
  Base = 2
  Bodies <- MCBodies
  Cmds = {0, 1}
  MaxFrameSize = 2
  MaxWrites = 3
  ByteSize = 8
  UDP = 3
  Addrs <- MCAddrs
  Payloads <- MCPayloads
INVARIANTS
  PoolInv
  F_Inv
  LinesKept
  ColorInv
  Delivered
  ServiceInv
  ConnInv
  WireInv
  RawInv
PROPERTIES
  RotatedFrozen
CHECK_DEADLOCK FALSE
