CONSTANTS
  k1 = k1 k2 = k2 k3 = k3
  vA = vA vB = vB vLong = vLong vHuge = vHuge
  Keys = {k1}
  Values = {vA, vLong}
  Absent = Absent
  Garbage = Garbage
  NBlk = 3
  Cap = 4
  Hdr = 1
  BodySize <- MCBodySize
  CountBound = 3
  AnyLoss = TRUE
SPECIFICATION Spec
INVARIANTS IndexAgrees LogsContiguous CountersSound
