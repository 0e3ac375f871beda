CONSTANTS
  r0 = r0 r1 = r1 r2 = r2 r3 = r3
  Releases = {r0, r1, r2, r3}
  None = None
  Factory = r0
  Ver <- MCVer
  OrigSize <- MCOrigSize
  XzSize <- MCXzSize
  DiffSize <- MCDiffSize
  Files <- MCFiles
  Sector = 2
  AppSectors = 3
  OtaSectors = 2
  BehindSectors = 1
  PageSize = 1
  MaxChunk = 2
  MaxLosses = 2
SPECIFICATION Spec
INVARIANTS Bootable RunsWholeApp StreamInOrder OverrunsOnlyUnchecked
PROPERTIES UpgradeIsAtomic BootsToApp
CHECK_DEADLOCK FALSE
