CONSTANTS
  v1 = v1 v2 = v2 ver = ver
  NField = 3
  Values = {ver, v1, v2}
  Version = ver
  None = None
  Garbage = Garbage
SPECIFICATION Spec
PROPERTIES AtomicWrites StaysReadable
