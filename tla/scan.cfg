CONSTANTS
  a = a b = b c = c
  Bssid = {a, b, c}
  Rssi = {1, 2}
  NodeMax = 2
  LifeTime = 2
  ConnectedScanTimes = 2
SPECIFICATION Spec
INVARIANTS ListSound DeadSemaphoreWindow
PROPERTIES ReportLosesTheWeakest WalkLosesOnlyToCleanup ScanEnds
