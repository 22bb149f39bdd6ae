SPECIFICATION FairSpec
CONSTANTS
  c1 = c1
  c2 = c2
  u1 = u1
  u2 = u2
  None = None
  Conns <- MCOneConn
  Callers <- MCCallers
  Modes <- MCTokenModes
  MaxPackets = 3
  NetFails = TRUE
INVARIANTS OnClosedOnce HandlersJoined ConcurrencyBounded
PROPERTIES ServedToTheEnd ShutdownReturnsOrLeaks
CHECK_DEADLOCK FALSE
