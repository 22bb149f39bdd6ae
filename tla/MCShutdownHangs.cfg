SPECIFICATION FairSpec
CONSTANTS
  c1 = c1
  c2 = c2
  u1 = u1
  u2 = u2
  None = None
  Conns <- MCConns
  Callers <- MCOneCaller
  Modes <- MCSmallModes
  MaxPackets = 1
  NetFails = FALSE
PROPERTY ShutdownReturns
CHECK_DEADLOCK FALSE
