CONSTANTS
  c1 = c1 c2 = c2 s1 = s1 s2 = s2 s3 = s3 s4 = s4
  Controllers = {c1, c2}
  Servers = {s1, s2, s3}
  NoServer = NoServer
  FirstConfig = "zero"
SPECIFICATION TaskSpec
CHECK_DEADLOCK FALSE
INVARIANT OneServer
PROPERTY StopReturns
