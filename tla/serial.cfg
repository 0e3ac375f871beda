CONSTANTS
  t1 = t1 t2 = t2 t3 = t3
  Tasks = {t1, t2, t3}
  MaxPuts = 2 MaxChars = 4
  Byte <- MCByte
  NoByte = NoByte
  Size = 3
SPECIFICATION TxSpec
CHECK_DEADLOCK FALSE
INVARIANTS SentOnce DrainedWhenIdle
PROPERTIES IsByteQueue DropsOnlyWhenCrowded PutReturns
