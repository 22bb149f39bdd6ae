SPECIFICATION FairSpec
CONSTANTS
  Users <- MCUsers
  Ops <- MCOps
  Operations <- MCOperations
  Connectors = {u1}
  Adopters = {u1}
  Closers = {u2}
  Rawers = {u2}
  Setters = {u1}
  Tables <- MCTables
  NumRetries = 2
  MaxPackets = 2
  SelfClose = TRUE
  NetFails = TRUE
INVARIANTS HandlerStopped 
PROPERTIES  LossIsNoticed CloseReturns
CHECK_DEADLOCK FALSE
