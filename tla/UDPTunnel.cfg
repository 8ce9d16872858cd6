SPECIFICATION Spec
CONSTANTS
  Session = {x1}
  Stream = {s1, s2}
  Flow = {f1, f2}
  Dip <- OneSession
  Window = 1
  NoSession = NoSession
  NoStream = NoStream
  NoFlow = NoFlow
  f1 = f1
  f2 = f2
  s1 = s1
  s2 = s2
  s3 = s3
  x1 = x1
  x2 = x2
CHECK_DEADLOCK FALSE
SYMMETRY Symmetric
INVARIANTS Inv EntryServed HeaderFirst
