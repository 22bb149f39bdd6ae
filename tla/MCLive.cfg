CONSTANTS
  None = None
  id1 = id1
  StreamIds = {id1}
  HandlerGiven = {FALSE}
  Contents = {1, 2}
  Users <- MCUsers
  Ops <- MCOps
  Writers = {r1}
  Flushers = {}
  Readers = {r1}
  Closers = {r1}
  Rawers = {}
  Creators = {}
  StreamReaders = {}
  StreamWriters = {}
  StreamClosers = {}
  Inbound <- Hello
  MaxOps = 1
  MaxPings = 1
  MaxStreams = 0
  WCap = 2
  WriteFails = TRUE
SPECIFICATION AliveSpec
PROPERTY CloseTerminates
PROPERTY EventuallyFlushed
PROPERTY ReadersReleased
CHECK_DEADLOCK FALSE
