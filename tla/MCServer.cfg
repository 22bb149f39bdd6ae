SPECIFICATION Spec
CONSTANTS
  c1 = c1
  c2 = c2
  u1 = u1
  u2 = u2
  None = None
  Conns <- MCConns
  Callers <- MCCallers
  Modes <- MCModes
  MaxPackets = 1
  NetFails = TRUE
SYMMETRY MCSymmetry
INVARIANTS TypeOK NoStraggler ShutdownStops
CHECK_DEADLOCK FALSE
