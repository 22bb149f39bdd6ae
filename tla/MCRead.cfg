CONSTANTS
  None = None
  id1 = id1
  StreamIds = {id1}
  HandlerGiven = {FALSE}
  Contents = {1, 2, 3, 4}
  Users <- MCUsers
  Ops <- MCOps
  Writers = {}
  Flushers = {}
  Readers = {r1,r2}
  Closers = {r2}
  Rawers = {c1}
  Creators = {}
  StreamReaders = {}
  StreamWriters = {}
  StreamClosers = {}
  Inbound <- Talking
  MaxOps = 2
  MaxPings = 0
  MaxStreams = 0
  WCap = 1
  WriteFails = TRUE
SPECIFICATION Spec
INVARIANT NoPacketLost
INVARIANT ReadEndsDrained
INVARIANT CloseQuiesces
PROPERTY ReadIsQueue
CHECK_DEADLOCK FALSE
