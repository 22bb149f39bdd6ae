CONSTANTS
  None = None
  id1 = id1
  StreamIds = {id1}
  HandlerGiven = {FALSE}
  Contents = {1, 2, 3, 4}
  Users <- MCUsers
  Ops <- MCOps
  Writers = {}
  Flushers = {}
  Readers = {}
  Closers = {c1}
  Rawers = {}
  Creators = {a}
  StreamReaders = {}
  StreamWriters = {}
  StreamClosers = {}
  Inbound <- OneStreamPacket
  MaxOps = 1
  MaxPings = 0
  MaxStreams = 2
  WCap = 4
  WriteFails = FALSE
SPECIFICATION FairSpec
PROPERTY CloseTerminates
CHECK_DEADLOCK FALSE
