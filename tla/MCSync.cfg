SPECIFICATION FairSpec
CONSTANTS
  None = None
  Users <- MCUsers
  Ops <- MCOps
  Inbound <- Stopping
  Writers = {w1, w2}
  Readers = {r1}
  Closers = {c1}
  Rawers = {c1}
  MaxOps = 1
  NetFails = TRUE
  Magics = {15}
  Radix = 16
  Ids <- Edge16
  Operations <- Edge16
  Lengths <- Edge32
  Buffers <- Used
INVARIANTS  OneCause RawKeepsConn
PROPERTY SyncReleased
CHECK_DEADLOCK FALSE
