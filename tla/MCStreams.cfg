CONSTANTS
  None = None
  id1 = id1
  StreamIds = {id1}
  HandlerGiven = {TRUE}
  Contents = {1, 2}
  Users <- MCUsers
  Ops <- MCOps
  Writers = {}
  Flushers = {}
  Readers = {}
  Closers = {b}
  Rawers = {}
  Creators = {a}
  StreamReaders = {a,b}
  StreamWriters = {a}
  StreamClosers = {a}
  Inbound <- Streaming
  MaxOps = 2
  MaxPings = 0
  MaxStreams = 2
  WCap = 2
  WriteFails = FALSE
SPECIFICATION Spec
INVARIANT TypeOK
 
 
PROPERTY StreamIsQueue
CHECK_DEADLOCK FALSE
