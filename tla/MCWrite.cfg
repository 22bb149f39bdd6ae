CONSTANTS
  None = None
  id1 = id1
  StreamIds = {id1}
  HandlerGiven = {FALSE}
  Contents = {1}
  Users <- MCUsers
  Ops <- MCOps
  Writers = {w1,w2}
  Flushers = {w1}
  Readers = {}
  Closers = {c1}
  Rawers = {}
  Creators = {}
  StreamReaders = {}
  StreamWriters = {}
  StreamClosers = {}
  Inbound <- Silent
  MaxOps = 1
  MaxPings = 0
  MaxStreams = 0
  WCap = 2
  WriteFails = TRUE
SPECIFICATION Spec
INVARIANT NoChannelPanic
INVARIANT PacketsWhole
INVARIANT CloseDelivers
INVARIANT NoLostWakeup
INVARIANT ErrorKnown
SYMMETRY Symmetry
CHECK_DEADLOCK FALSE
