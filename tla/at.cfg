CONSTANTS
  MaxLine = 4
  RxSize = 2
  SemMax = 2
SPECIFICATION Spec
INVARIANTS BusyIsOneParse NoLostWakeup
PROPERTIES LineStable BusyEnds
