SPECIFICATION LiveSpec
CONSTANTS
  Session = {x1}
  Stream = {s1, s2}
  Flow = {f1}
  Dip <- OneFlow
  Window = 1
  NoSession = NoSession
  NoStream = NoStream
  NoFlow = NoFlow
  f1 = f1
  f2 = f2
  s1 = s1
  s2 = s2
  s3 = s3
  x1 = x1
  x2 = x2
CHECK_DEADLOCK FALSE
PROPERTIES DeadSessionForgotten CopiesEndTogether BufferDrains
