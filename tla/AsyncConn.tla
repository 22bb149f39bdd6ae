------------------------------ MODULE AsyncConn ------------------------------
(***************************************************************************)
(* One frisbee.Async connection (async.go) and its Streams (stream.go):    *)
(* the three goroutines NewAsync starts, any number of application         *)
(* goroutines calling the exported methods, and the net.Conn below them.   *)
(* pc[p] is the next critical section goroutine p has to run; a step is    *)
(* one critical section, one atomic load or one blocking call.             *)
(***************************************************************************)
EXTENDS Integers, Sequences, FiniteSets, Functions

CONSTANTS
  Users,       \* application goroutines
  Ops,         \* Ops[u]: the methods goroutine u may call
  Inbound,     \* the packet sequences the peer may send
  StreamIds,   \* stream identifiers in use
  HandlerGiven, \* subset of BOOLEAN: whether NewAsync is given a streamHandler
  Contents,    \* what tells the contents of two packets apart
  MaxOps,      \* bound: calls made by one goroutine
  MaxPings,    \* bound: ticks of the ping ticker
  MaxStreams,  \* bound: Stream objects ever allocated
  WCap,        \* writes the bufio.Writer holds before it spills
  WriteFails,  \* whether writes to the net.Conn may fail
  None         \* "no goroutine": an unlocked mutex

Loops == {"flushLoop", "pingLoop", "readLoop"}
Procs == Users \cup Loops
Methods == {"WritePacket", "ReadPacket", "Flush", "Close", "Raw", "NewStream",
            "SetNewStreamHandler", "StreamRead", "StreamWrite", "StreamClose"}

\* A packet received from the peer.
\* BAD has a wrong magic number or too large a content length.
InPackets == [kind : {"PING", "PONG", "STREAM", "DATA", "BAD"},
              id : StreamIds, n : Contents, len : {0, 1}]

\* A Stream is named by its allocation number; 0 is the nil *Stream.
Objects == 1 .. MaxStreams
\* A packet to send: its writer, the writer's n-th, for stream st (0: none).
Packets == [src : Procs, n : Nat, st : 0 .. MaxStreams, len : {0, 1}]
\* What writePacket hands to the bufio.Writer: the metadata, then the content.
Chunks == [pkt : Packets, part : {"meta", "body"}]

\* ReadError is any error of Read (deadline, end of file, reset), WriteError any of
\* Write, QueueClosed the error of a closed queue, BadPacket InvalidMagicHeader or
\* ContentLengthExceeded.
Errors == {"nil", "ConnectionClosed", "QueueClosed", "ReadError", "WriteError", "BadPacket"}

\* Outcomes of a read ("packet" or an error) and of Close and Raw ("closed").
Outcomes == {"none", "packet", "ConnectionClosed", "QueueClosed", "StreamClosed", "closed"}

WriterPCs == {"WMeta", "WBody", "WSend"}
Labels == WriterPCs \cup
  {"Idle", "WLock", "WErr", "FLock", "RPop", "RStale", "SPop", "SStale", "KDelete",
   "ELock", "CStale", "CSwap", "CShut", "CPast", "CWait", "CStreams", "CFlush", "CFin",
   "Recv", "Select", "Arm", "Read", "Next", "Lookup", "EndStream", "DropStream",
   "AddStream", "PushStream", "Done", "Exit"}

ASSUME UsersAssumption == Users \cap Loops = {} /\ None \notin Users \cup Loops
ASSUME OpsAssumption == Ops \in [Users -> SUBSET Methods]
ASSUME InboundAssumption == Inbound \subseteq Seq(InPackets) /\ Inbound # {}
ASSUME StreamIdsAssumption == StreamIds # {} /\ HandlerGiven \subseteq BOOLEAN
ASSUME BoundsAssumption ==
  /\ MaxOps \in Nat /\ MaxPings \in Nat /\ MaxStreams \in Nat
  /\ WCap \in Nat \ {0} /\ WriteFails \in BOOLEAN

VARIABLES
  \* --- the Async object
  closed,      \* c.closed
  shut,        \* c.incoming, c.closeCh and c.flushCh have been closed
  wg,          \* loops that have not called c.wg.Done
  error,       \* c.error, as the set of errors it wraps
  mu, staleMu, streamsMu, errorMu, \* the holder of each mutex
  flushCh,     \* tokens in c.flushCh
  incoming,    \* c.incoming
  stale,       \* c.stale
  handler,     \* c.newStreamHandler # nil
  streams,     \* c.streams: id -> Stream object
  \* --- bufio.Writer and net.Conn
  wbuf, werr,  \* buffered chunks, sticky write error
  wire,        \* chunks written to the net.Conn
  conn,        \* the net.Conn is open
  deadline,    \* its read deadline: "none", "armed" or "past"
  inbox,       \* packets the peer has sent that have not been read
  rbuf,        \* packets in readLoop's buf
  \* --- Stream objects
  nstr,        \* number allocated
  strm,        \* object -> [id, closed, queue, stale, pushed, returned]
  \* --- goroutines: program counter and local variables
  pc, op, pkt, cause, cur,
  calls,       \* operations each goroutine has begun
  \* --- history
  acked,       \* packets whose writePacket returned nil
  pushed,      \* packets pushed to c.incoming
  returned,    \* packets ReadPacket has returned, in order of removal
  res,         \* outcome of the last read, Close or Raw of each user
  reason       \* the error given to the close() that won the swap

lockVars   == <<mu, staleMu, streamsMu, errorMu>>
stateVars  == <<closed, shut, wg, error, reason>>
writeVars  == <<wbuf, werr, wire, flushCh, acked>>
connVars   == <<conn, deadline>>
inVars     == <<inbox, rbuf>>
queueVars  == <<incoming, stale, pushed, returned>>
streamVars == <<handler, streams, nstr, strm>>
callVars   == <<op, pkt, cur, calls>>
connSide   == <<lockVars, stateVars, writeVars, connVars>>
dataSide   == <<inVars, queueVars, streamVars, callVars>>
vars == <<connSide, dataSide, pc, cause, res>>

\* PINGPacket and PONGPacket; n tells the ones loop p sends apart.
Heartbeat(p, n) == [src |-> p, n |-> n, st |-> 0, len |-> 0]

newStream(id) == [id |-> id, closed |-> FALSE, queue |-> <<>>, stale |-> <<>>,
                  pushed |-> <<>>, returned |-> <<>>]

\* NewAsync: an open connection whose three loops are running.
Init ==
  /\ closed = FALSE /\ shut = FALSE /\ wg = Loops /\ error = {} /\ reason = "nil"
  /\ mu = None /\ staleMu = None /\ streamsMu = None /\ errorMu = None
  /\ flushCh = 0 /\ incoming = <<>> /\ stale = <<>>
  /\ handler \in HandlerGiven /\ streams = [i \in StreamIds |-> 0]
  /\ wbuf = <<>> /\ werr = FALSE /\ wire = <<>>
  /\ conn = TRUE /\ deadline = "none" /\ inbox \in Inbound /\ rbuf = <<>>
  /\ nstr = 0 /\ strm = [s \in Objects |-> newStream(CHOOSE i \in StreamIds : TRUE)]
  /\ pc = [p \in Procs |-> CASE p = "flushLoop" -> "Recv"
                             [] p = "pingLoop" -> "Select"
                             [] p = "readLoop" -> "Arm"
                             [] OTHER -> "Idle"]
  /\ op = [p \in Procs |-> "none"] /\ pkt = [p \in Procs |-> Heartbeat(p, 0)]
  /\ cause = [p \in Procs |-> "nil"] /\ cur = [p \in Procs |-> 0]
  /\ calls = [p \in Procs |-> 0]
  /\ acked = {} /\ pushed = <<>> /\ returned = <<>>
  /\ res = [u \in Users |-> "none"]

-----------------------------------------------------------------------------
Goto(p, label) == pc' = [pc EXCEPT ![p] = label]

\* A read of u ends with outcome v.
Finish(u, v) == Goto(u, "Idle") /\ res' = [res EXCEPT ![u] = v]

\* A loop that failed calls c.wg.Done and then closeWithError(e).
FailLoop(p, e) ==
  /\ Goto(p, "Done") /\ cause' = [cause EXCEPT ![p] = e] /\ UNCHANGED res

\* close, flush, writePacket or closeWithError returns to user p; closeSend goes on to
\* delete the stream from the table whatever the outcome.
ReturnToUser(p) ==
  /\ Goto(p, IF op[p] = "StreamClose" THEN "KDelete" ELSE "Idle")
  /\ res' = IF op[p] \in {"Close", "Raw"} THEN [res EXCEPT ![p] = "closed"] ELSE res

\* writePacket returns error e without closing the connection itself.
WriteReturns(p, e) ==
  \/ p \in Loops /\ FailLoop(p, e)
  \/ p \in Users /\ ReturnToUser(p) /\ UNCHANGED cause

\* writePacket has buffered the packet and returns nil.
WriteSucceeds(p) ==
  /\ mu' = None
  /\ acked' = acked \cup {pkt[p]}
  /\ \/ p = "pingLoop" /\ Goto(p, "Select") /\ UNCHANGED res
     \/ p = "readLoop" /\ Goto(p, "Next") /\ UNCHANGED res
     \/ p \in Users /\ ReturnToUser(p)

-----------------------------------------------------------------------------
\* bufio.Writer over the net.Conn (external). Chunks reach the wire when the
\* buffer is full or is flushed; an error is sticky and keeps what was not written.
WriteOut == ~werr /\ wire' = wire \o wbuf /\ UNCHANGED werr

WriteOutFails ==
  \/ werr /\ UNCHANGED <<wbuf, werr, wire>>
  \/ /\ WriteFails /\ ~werr /\ werr' = TRUE
     /\ \E k \in 0 .. Len(wbuf) : /\ wire' = wire \o SubSeq(wbuf, 1, k)
                                  /\ wbuf' = SubSeq(wbuf, k + 1, Len(wbuf))

BufferedWrite(chunk) ==
  \/ ~werr /\ Len(wbuf) < WCap /\ wbuf' = Append(wbuf, chunk) /\ UNCHANGED <<werr, wire>>
  \/ Len(wbuf) >= WCap /\ WriteOut /\ wbuf' = <<chunk>>

BufferedWriteFails == (werr \/ Len(wbuf) >= WCap) /\ WriteOutFails

-----------------------------------------------------------------------------
\* Mutant of WriteLock: the lock is taken without waiting for its holder.
WriteLockBarging(p) ==
  /\ pc[p] = "WLock" /\ ~closed /\ mu' = p /\ Goto(p, "WMeta")
  /\ UNCHANGED <<staleMu, streamsMu, errorMu, stateVars, writeVars, connVars, dataSide, cause,
                 res>>

\* writePacket: take the lock unless the connection is closed or SetWriteDeadline fails.
WriteLock(p) ==
  /\ pc[p] = "WLock" /\ mu = None
  /\ \/ ~closed /\ mu' = p /\ Goto(p, "WMeta") /\ UNCHANGED <<cause, res>>
     \/ /\ ~closed /\ WriteFails /\ Goto(p, "WErr")
        /\ cause' = [cause EXCEPT ![p] = "WriteError"] /\ UNCHANGED <<mu, res>>
     \/ closed /\ WriteReturns(p, "ConnectionClosed") /\ UNCHANGED mu
  /\ UNCHANGED <<staleMu, streamsMu, errorMu, stateVars, writeVars, connVars, dataSide>>

\* writePacket: buffer the metadata, or the content, of the packet. An error
\* unlocks and leads to the second look at c.closed.
WriteChunk(p, label, part, next) ==
  /\ pc[p] = label
  /\ \/ BufferedWrite([pkt |-> pkt[p], part |-> part]) /\ Goto(p, next) /\ UNCHANGED <<mu, cause>>
     \/ /\ BufferedWriteFails /\ mu' = None
        /\ Goto(p, "WErr") /\ cause' = [cause EXCEPT ![p] = "WriteError"]
  /\ UNCHANGED <<staleMu, streamsMu, errorMu, stateVars, flushCh, acked, connVars, dataSide, res>>

WriteMeta(p) == WriteChunk(p, "WMeta", "meta", IF pkt[p].len > 0 THEN "WBody" ELSE "WSend")
WriteBody(p) == WriteChunk(p, "WBody", "body", "WSend")

\* Mutants of Wake: the wakeup is dropped; it is sent without looking.
NoWake == flushCh
WakeAlways == flushCh + 1

\* writePacket: the non-blocking send that wakes flushLoop, made when len(c.flushCh) is
\* 0. Senders hold the lock and flushLoop only receives, so the length is still 0 at
\* the send, which then never blocks.
Wake == IF flushCh = 0 THEN 1 ELSE flushCh

WriteSend(p) ==
  /\ pc[p] = "WSend"
  /\ flushCh' = Wake
  /\ WriteSucceeds(p)
  /\ UNCHANGED <<staleMu, streamsMu, errorMu, stateVars, wbuf, werr, wire, connVars, dataSide,
                 cause>>

\* writePacket: after a failed write, outside the lock, look at c.closed again;
\* closeOnErr is true for users and false for the loops.
WriteError(p) ==
  /\ pc[p] = "WErr"
  /\ \/ closed /\ WriteReturns(p, "ConnectionClosed")
     \/ ~closed /\ p \in Loops /\ FailLoop(p, cause[p])
     \/ ~closed /\ p \in Users /\ Goto(p, "ELock") /\ UNCHANGED <<cause, res>>
  /\ UNCHANGED <<connSide, dataSide>>

-----------------------------------------------------------------------------
\* flush returns e to flushLoop, or to Flush, which calls closeWithError.
FlushReturns(p, e) ==
  \/ p \in Loops /\ FailLoop(p, e)
  \/ p \in Users /\ Goto(p, "ELock") /\ cause' = [cause EXCEPT ![p] = e] /\ UNCHANGED res

FlushSucceeds(p) ==
  /\ \/ p \in Loops /\ Goto(p, "Recv") /\ UNCHANGED res
     \/ p \in Users /\ ReturnToUser(p)
  /\ UNCHANGED cause

\* SetWriteDeadline fails, nothing is written.
DeadlineFails == WriteFails /\ UNCHANGED <<wbuf, werr, wire>>

\* flush: one critical section of c.Mutex.
Flush(p) ==
  /\ pc[p] = "FLock" /\ mu = None
  /\ \/ closed /\ FlushReturns(p, "ConnectionClosed") /\ UNCHANGED <<wbuf, werr, wire>>
     \/ ~closed /\ wbuf = <<>> /\ FlushSucceeds(p) /\ UNCHANGED <<wbuf, werr, wire>>
     \/ ~closed /\ wbuf # <<>> /\ WriteOut /\ wbuf' = <<>> /\ FlushSucceeds(p)
     \/ ~closed /\ wbuf # <<>> /\ (WriteOutFails \/ DeadlineFails) /\ FlushReturns(p, "WriteError")
  /\ UNCHANGED <<lockVars, stateVars, flushCh, acked, connVars, dataSide>>

\* flushLoop: receive from c.flushCh; a closed channel still yields its tokens.
FlushLoopRecv ==
  /\ pc["flushLoop"] = "Recv"
  /\ \/ flushCh > 0 /\ flushCh' = flushCh - 1 /\ Goto("flushLoop", "FLock") /\ UNCHANGED wg
     \/ /\ flushCh = 0 /\ shut /\ wg' = wg \ {"flushLoop"}
        /\ Goto("flushLoop", "Exit") /\ UNCHANGED flushCh
  /\ UNCHANGED <<lockVars, closed, shut, error, reason, wbuf, werr, wire, acked, connVars,
                 dataSide, cause, res>>

\* pingLoop: the select over c.closeCh and the ticker.
PingLoopSelect ==
  /\ pc["pingLoop"] = "Select"
  /\ \/ shut /\ wg' = wg \ {"pingLoop"} /\ Goto("pingLoop", "Exit") /\ UNCHANGED callVars
     \/ /\ calls["pingLoop"] < MaxPings
        /\ calls' = [calls EXCEPT !["pingLoop"] = @ + 1]
        /\ pkt' = [pkt EXCEPT !["pingLoop"] = Heartbeat("pingLoop", calls["pingLoop"] + 1)]
        /\ Goto("pingLoop", "WLock") /\ UNCHANGED <<wg, op, cur>>
  /\ UNCHANGED <<lockVars, closed, shut, error, reason, writeVars, connVars, inVars, queueVars,
                 streamVars, cause, res>>

\* Mutant of LoopDone: the failing loop forgets c.wg.Done.
LoopDoneForgotten(p) ==
  /\ pc[p] = "Done" /\ Goto(p, "ELock")
  /\ UNCHANGED <<connSide, dataSide, cause, res>>

\* A failing loop calls c.wg.Done before closeWithError.
LoopDone(p) ==
  /\ pc[p] = "Done" /\ wg' = wg \ {p} /\ Goto(p, "ELock")
  /\ UNCHANGED <<lockVars, closed, shut, error, reason, writeVars, connVars, dataSide, cause,
                 res>>

-----------------------------------------------------------------------------
\* Which of the three callers of close() goroutine p is in.
Closing(p) == IF p \in Users /\ op[p] \in {"Close", "Raw"} THEN op[p] ELSE "Error"

\* close() returns to Close or Raw, which return no error, or closeWithError returns.
CloseReturns(p) ==
  \/ p \in Loops /\ Goto(p, "Exit") /\ UNCHANGED res
  \/ p \in Users /\ ReturnToUser(p)

\* Mutant of CloseWithError: the error is not recorded before closing.
CloseWithErrorSilent(p) ==
  /\ pc[p] = "ELock" /\ errorMu = None
  /\ errorMu' = p /\ UNCHANGED error /\ Goto(p, "CStale")
  /\ UNCHANGED <<mu, staleMu, streamsMu, closed, shut, wg, reason, writeVars, connVars,
                 dataSide, cause, res>>

\* closeWithError: take errorMu and record the error before closing.
CloseWithError(p) ==
  /\ pc[p] = "ELock" /\ errorMu = None
  /\ errorMu' = p /\ error' = {cause[p]} /\ Goto(p, "CStale")
  /\ UNCHANGED <<mu, staleMu, streamsMu, closed, shut, wg, reason, writeVars, connVars,
                 dataSide, cause, res>>

\* close: c.staleMu.Lock
CloseStale(p) ==
  /\ pc[p] = "CStale" /\ staleMu = None
  /\ staleMu' = p /\ Goto(p, "CSwap")
  /\ UNCHANGED <<mu, streamsMu, errorMu, stateVars, writeVars, connVars, dataSide, cause, res>>

\* close: c.streamsMu.Lock and the compare-and-swap of c.closed. The loser unlocks
\* both mutexes and returns ConnectionClosed, which Close turns into nil and which
\* closeWithError joins to its own error in c.error.
CloseSwap(p) ==
  /\ pc[p] = "CSwap" /\ streamsMu = None
  /\ \/ /\ ~closed /\ closed' = TRUE /\ streamsMu' = p /\ Goto(p, "CShut")
        /\ reason' = IF Closing(p) = "Error" THEN cause[p] ELSE "nil"
        /\ UNCHANGED <<staleMu, errorMu, error, res>>
     \/ /\ closed /\ staleMu' = None
        /\ IF Closing(p) = "Error"
             THEN error' = {"ConnectionClosed", cause[p]} /\ errorMu' = None
             ELSE UNCHANGED <<error, errorMu>>
        /\ CloseReturns(p)
        /\ UNCHANGED <<closed, streamsMu, reason>>
  /\ UNCHANGED <<mu, shut, wg, writeVars, connVars, dataSide, cause>>

\* Mutant of CloseShut: the channels are closed without c.Mutex.
CloseShutUnlocked(p) ==
  /\ pc[p] = "CShut"
  /\ shut' = TRUE /\ Goto(p, "CPast")
  /\ UNCHANGED <<lockVars, closed, wg, error, reason, writeVars, connVars, dataSide, cause, res>>

\* close: under c.Mutex, close c.incoming, c.closeCh and c.flushCh.
CloseShut(p) ==
  /\ pc[p] = "CShut" /\ mu = None
  /\ shut' = TRUE /\ Goto(p, "CPast")
  /\ UNCHANGED <<lockVars, closed, wg, error, reason, writeVars, connVars, dataSide, cause, res>>

\* close: SetDeadline(pastTime), to make a blocked Read return.
ClosePast(p) ==
  /\ pc[p] = "CPast"
  /\ deadline' = "past" /\ Goto(p, "CWait")
  /\ UNCHANGED <<lockVars, stateVars, writeVars, conn, dataSide, cause, res>>

\* Mutant of Drained: the queue is discarded.
Discarded == <<>>

LoopsGone == wg = {}
Drained == incoming

\* Mutant of CloseWait: the deadline is left in the past.
CloseWaitPast(p) ==
  /\ pc[p] = "CWait" /\ LoopsGone
  /\ stale' = Drained /\ incoming' = <<>>
  /\ staleMu' = None /\ Goto(p, "CStreams")
  /\ UNCHANGED <<mu, streamsMu, errorMu, stateVars, writeVars, connVars, inVars, pushed, returned,
                 streamVars, callVars, cause, res>>

\* close: wg.Wait, then SetDeadline(emptyTime), drain c.incoming, release staleMu.
CloseWait(p) ==
  /\ pc[p] = "CWait" /\ LoopsGone
  /\ deadline' = "none"
  /\ stale' = Drained /\ incoming' = <<>>
  /\ staleMu' = None /\ Goto(p, "CStreams")
  /\ UNCHANGED <<mu, streamsMu, errorMu, stateVars, writeVars, conn, inVars, pushed, returned,
                 streamVars, callVars, cause, res>>

\* Mutant of Ended: what the queue holds is lost.
EndedUndrained(r) == [r EXCEPT !.closed = TRUE, !.queue = <<>>]

\* Stream.close and the first half of closeSend: mark the stream closed, close its
\* queue and drain it, under the stream's own staleMu.
Ended(r) == [r EXCEPT !.closed = TRUE, !.stale = r.queue, !.queue = <<>>]

\* close: closeSend(false) on each stream of the table. The connection is closed, so
\* its writePacket only finds ConnectionClosed. Then release streamsMu.
CloseStreams(p) ==
  /\ pc[p] = "CStreams"
  /\ \/ \E s \in Range(streams) \ {0} :
           /\ ~strm[s].closed /\ strm' = [strm EXCEPT ![s] = Ended(strm[s])]
           /\ UNCHANGED <<pc, streamsMu>>
     \/ /\ \A s \in Range(streams) \ {0} : strm[s].closed
        /\ streamsMu' = None /\ Goto(p, "CFlush") /\ UNCHANGED strm
  /\ UNCHANGED <<mu, staleMu, errorMu, stateVars, writeVars, connVars, inVars, queueVars,
                 handler, streams, nstr, callVars, cause, res>>

\* Mutant of CloseFlush: no final flush.
CloseFlushSkipped(p) ==
  /\ pc[p] = "CFlush" /\ Goto(p, "CFin")
  /\ UNCHANGED <<connSide, dataSide, cause, res>>

\* close: the final flush, its error ignored.
CloseFlush(p) ==
  /\ pc[p] = "CFlush" /\ mu = None
  /\ \/ wbuf = <<>> /\ UNCHANGED <<wbuf, werr, wire>>
     \/ wbuf # <<>> /\ WriteOut /\ wbuf' = <<>>
     \/ wbuf # <<>> /\ WriteOutFails
  /\ Goto(p, "CFin")
  /\ UNCHANGED <<lockVars, stateVars, flushCh, acked, connVars, dataSide, cause, res>>

\* Close and closeWithError close the net.Conn, Raw hands it over.
CloseFin(p) ==
  /\ pc[p] = "CFin"
  /\ conn' = (Closing(p) = "Raw" /\ conn)
  /\ errorMu' = IF Closing(p) = "Error" THEN None ELSE errorMu
  /\ CloseReturns(p)
  /\ UNCHANGED <<mu, staleMu, streamsMu, stateVars, writeVars, deadline, dataSide, cause>>

-----------------------------------------------------------------------------
\* readLoop: SetReadDeadline before each Read, also after close() set it to the past.
ReadArm ==
  /\ pc["readLoop"] = "Arm"
  /\ \/ deadline' = "armed" /\ Goto("readLoop", "Read") /\ UNCHANGED <<cause, res>>
     \/ FailLoop("readLoop", "ReadError") /\ UNCHANGED deadline
  /\ UNCHANGED <<lockVars, stateVars, writeVars, conn, dataSide>>

\* readLoop: Read fills buf with one or more packets unless the deadline has passed,
\* or fails, at the latest when the deadline expires.
ReadConn ==
  /\ pc["readLoop"] = "Read"
  /\ \/ /\ deadline # "past"
        /\ \E k \in 1 .. Len(inbox) : /\ rbuf' = SubSeq(inbox, 1, k)
                                      /\ inbox' = SubSeq(inbox, k + 1, Len(inbox))
        /\ Goto("readLoop", "Next") /\ UNCHANGED <<cause, res>>
     \/ FailLoop("readLoop", "ReadError") /\ UNCHANGED inVars
  /\ UNCHANGED <<connSide, queueVars, streamVars, callVars>>

\* Mutant of ReadNext: data is pushed to a queue that is closed.
ReadNextAnyway ==
  /\ pc["readLoop"] = "Next"
  /\ \/ rbuf = <<>> /\ Goto("readLoop", "Arm") /\ UNCHANGED <<rbuf, incoming, pushed>>
     \/ /\ rbuf # <<>> /\ rbuf' = Tail(rbuf) /\ Head(rbuf).kind = "DATA" /\ UNCHANGED pc
        /\ incoming' = Append(incoming, Head(rbuf)) /\ pushed' = Append(pushed, Head(rbuf))
  /\ UNCHANGED <<connSide, inbox, stale, returned, streamVars, callVars, cause, res>>

\* readLoop: dispatch on the next packet of buf; an empty buf is read again.
ReadNext ==
  /\ pc["readLoop"] = "Next"
  /\ \/ /\ rbuf = <<>> /\ Goto("readLoop", "Arm")
        /\ UNCHANGED <<rbuf, incoming, pushed, pkt, calls, cause, res>>
     \/ /\ rbuf # <<>>
        /\ LET p == Head(rbuf) IN
           \/ /\ p.kind = "BAD" /\ FailLoop("readLoop", "BadPacket")
              /\ UNCHANGED <<rbuf, incoming, pushed, pkt, calls>>
           \/ /\ p.kind = "PING" /\ rbuf' = Tail(rbuf)
              /\ calls' = [calls EXCEPT !["readLoop"] = @ + 1]
              /\ pkt' = [pkt EXCEPT !["readLoop"] = Heartbeat("readLoop", calls["readLoop"] + 1)]
              /\ Goto("readLoop", "WLock") /\ UNCHANGED <<incoming, pushed, cause, res>>
           \/ /\ \/ p.kind = "PONG"
                 \/ p.kind = "STREAM" /\ ~handler /\ p.len > 0
              /\ rbuf' = Tail(rbuf) /\ UNCHANGED <<pc, incoming, pushed, pkt, calls, cause, res>>
           \/ /\ p.kind = "STREAM" /\ (handler \/ p.len = 0) /\ Goto("readLoop", "Lookup")
              /\ UNCHANGED <<rbuf, incoming, pushed, pkt, calls, cause, res>>
           \/ /\ p.kind = "DATA" /\ ~shut /\ rbuf' = Tail(rbuf)
              /\ incoming' = Append(incoming, p) /\ pushed' = Append(pushed, p)
              /\ UNCHANGED <<pc, pkt, calls, cause, res>>
           \/ /\ p.kind = "DATA" /\ shut /\ FailLoop("readLoop", "QueueClosed")
              /\ UNCHANGED <<rbuf, incoming, pushed, pkt, calls>>
  /\ UNCHANGED <<connSide, inbox, stale, returned, streamVars, op, cur>>

\* readLoop: look the stream of the STREAM packet up in the table.
StreamLookup ==
  /\ pc["readLoop"] = "Lookup" /\ streamsMu = None
  /\ LET p == Head(rbuf) IN
     /\ cur' = [cur EXCEPT !["readLoop"] = streams[p.id]]
     /\ \/ p.len = 0 /\ streams[p.id] # 0 /\ Goto("readLoop", "EndStream") /\ UNCHANGED rbuf
        \/ p.len = 0 /\ streams[p.id] = 0 /\ Goto("readLoop", "Next") /\ rbuf' = Tail(rbuf)
        \/ p.len > 0 /\ streams[p.id] # 0 /\ Goto("readLoop", "PushStream") /\ UNCHANGED rbuf
        \/ p.len > 0 /\ streams[p.id] = 0 /\ Goto("readLoop", "AddStream") /\ UNCHANGED rbuf
  /\ UNCHANGED <<connSide, inbox, queueVars, streamVars, op, pkt, calls, cause, res>>

\* readLoop: an empty STREAM packet closes the stream (Stream.close) ...
StreamEnd ==
  /\ pc["readLoop"] = "EndStream"
  /\ LET s == cur["readLoop"] IN
     strm' = [strm EXCEPT ![s] = IF strm[s].closed THEN strm[s] ELSE Ended(strm[s])]
  /\ Goto("readLoop", "DropStream")
  /\ UNCHANGED <<connSide, inVars, queueVars, handler, streams, nstr, callVars, cause, res>>

\* ... and deletes the packet's id from the table.
StreamDrop ==
  /\ pc["readLoop"] = "DropStream" /\ streamsMu = None
  /\ streams' = [streams EXCEPT ![Head(rbuf).id] = 0]
  /\ rbuf' = Tail(rbuf) /\ Goto("readLoop", "Next")
  /\ UNCHANGED <<connSide, inbox, queueVars, handler, nstr, strm, callVars, cause, res>>

\* newStream and its entry in the table.
Allocate(id) ==
  /\ nstr < MaxStreams
  /\ nstr' = nstr + 1
  /\ strm' = [strm EXCEPT ![nstr + 1] = newStream(id)]
  /\ streams' = [streams EXCEPT ![id] = nstr + 1]

\* readLoop: a new stream enters the table, whatever the table holds by now; its
\* handler starts in a goroutine of its own, as a user of the stream.
StreamAdd ==
  /\ pc["readLoop"] = "AddStream" /\ streamsMu = None
  /\ Allocate(Head(rbuf).id)
  /\ cur' = [cur EXCEPT !["readLoop"] = nstr + 1]
  /\ Goto("readLoop", "PushStream")
  /\ UNCHANGED <<connSide, inVars, queueVars, handler, op, pkt, calls, cause, res>>

\* queue.Push and queue.Pop on a stream.
Enqueued(r, p) == [r EXCEPT !.queue = Append(r.queue, p), !.pushed = Append(r.pushed, p)]
Dequeued(r) == [r EXCEPT !.queue = Tail(r.queue), !.returned = Append(r.returned, Head(r.queue))]

\* Mutant of StreamPush: the queue of a closed stream takes the packet.
StreamPushAnyway ==
  /\ pc["readLoop"] = "PushStream" /\ rbuf' = Tail(rbuf) /\ Goto("readLoop", "Next")
  /\ strm' = [strm EXCEPT ![cur["readLoop"]] = Enqueued(strm[cur["readLoop"]], Head(rbuf))]
  /\ UNCHANGED <<connSide, inbox, queueVars, handler, streams, nstr, callVars, cause, res>>

\* readLoop: push the packet to the stream's queue; a closed queue is an error of
\* the connection.
StreamPush ==
  /\ pc["readLoop"] = "PushStream"
  /\ LET s == cur["readLoop"]
         p == Head(rbuf)
     IN  \/ /\ ~strm[s].closed /\ rbuf' = Tail(rbuf)
            /\ strm' = [strm EXCEPT ![s] = Enqueued(strm[s], p)]
            /\ Goto("readLoop", "Next") /\ UNCHANGED <<cause, res>>
         \/ strm[s].closed /\ FailLoop("readLoop", "QueueClosed") /\ UNCHANGED <<rbuf, strm>>
  /\ UNCHANGED <<connSide, inbox, queueVars, handler, streams, nstr, callVars>>

-----------------------------------------------------------------------------
\* User u calls method m.
Call(u, m) ==
  /\ pc[u] = "Idle" /\ m \in Ops[u] /\ calls[u] < MaxOps
  /\ calls' = [calls EXCEPT ![u] = @ + 1]
  /\ op' = [op EXCEPT ![u] = m]

\* A call that runs to its end in one step.
CallAtOnce(u, m) == Call(u, m) /\ UNCHANGED <<pc, res>>

Outgoing(u, s, len) ==
  pkt' = [pkt EXCEPT ![u] = [src |-> u, n |-> calls[u] + 1, st |-> s, len |-> len]]

\* WritePacket of a valid packet; an invalid one is refused before anything changes.
CallWritePacket(u) ==
  /\ Call(u, "WritePacket") /\ Goto(u, "WLock")
  /\ \E len \in {0, 1} : Outgoing(u, 0, len)
  /\ UNCHANGED <<connSide, inVars, queueVars, streamVars, cur, cause, res>>

CallFlush(u) ==
  /\ Call(u, "Flush") /\ Goto(u, "FLock")
  /\ UNCHANGED <<connSide, inVars, queueVars, streamVars, pkt, cur, cause, res>>

CallClose(u) ==
  /\ Call(u, "Close") \/ Call(u, "Raw")
  /\ Goto(u, "CStale")
  /\ UNCHANGED <<connSide, inVars, queueVars, streamVars, pkt, cur, cause, res>>

\* ReadPacket: the load of c.closed ...
CallReadPacket(u) ==
  /\ Call(u, "ReadPacket") /\ Goto(u, IF closed THEN "RStale" ELSE "RPop")
  /\ UNCHANGED <<connSide, inVars, queueVars, streamVars, pkt, cur, cause, res>>

\* Mutant of ReadPop: a blocked Pop is not woken when the queue is closed.
ReadPopStuck(u) ==
  /\ pc[u] = "RPop" /\ ~shut /\ incoming # <<>>
  /\ incoming' = Tail(incoming) /\ returned' = Append(returned, Head(incoming))
  /\ Finish(u, "packet")
  /\ UNCHANGED <<connSide, inVars, stale, pushed, streamVars, callVars, cause>>

\* ... Pop, which blocks while the queue is empty and fails once it is closed ...
ReadPop(u) ==
  /\ pc[u] = "RPop"
  /\ \/ /\ ~shut /\ incoming # <<>>
        /\ incoming' = Tail(incoming) /\ returned' = Append(returned, Head(incoming))
        /\ Finish(u, "packet")
     \/ /\ shut /\ UNCHANGED <<incoming, returned>>
        /\ IF closed THEN Goto(u, "RStale") /\ UNCHANGED res ELSE Finish(u, "QueueClosed")
  /\ UNCHANGED <<connSide, inVars, stale, pushed, streamVars, callVars, cause>>

\* Mutant of ReadStale: c.stale is read without waiting for close() to fill it.
ReadStaleUnlocked(u) ==
  /\ pc[u] = "RStale" /\ stale = <<>> /\ Finish(u, "ConnectionClosed")
  /\ UNCHANGED <<connSide, dataSide, cause>>

\* ... and the packets close() drained, under staleMu.
ReadStale(u) ==
  /\ pc[u] = "RStale" /\ staleMu = None
  /\ \/ /\ stale # <<>> /\ stale' = Tail(stale) /\ returned' = Append(returned, Head(stale))
        /\ Finish(u, "packet")
     \/ stale = <<>> /\ Finish(u, "ConnectionClosed") /\ UNCHANGED <<stale, returned>>
  /\ UNCHANGED <<connSide, inVars, incoming, pushed, streamVars, callVars, cause>>

-----------------------------------------------------------------------------
CallSetNewStreamHandler(u) ==
  /\ CallAtOnce(u, "SetNewStreamHandler")
  /\ handler' \in BOOLEAN
  /\ UNCHANGED <<connSide, inVars, queueVars, streams, nstr, strm, pkt, cur, cause>>

\* NewStream returns the stream of the table or adds one; c.closed is not consulted.
CallNewStream(u) ==
  /\ streamsMu = None /\ CallAtOnce(u, "NewStream")
  /\ \E id \in StreamIds :
       \/ streams[id] # 0 /\ UNCHANGED <<streams, nstr, strm>>
       \/ streams[id] = 0 /\ Allocate(id)
  /\ UNCHANGED <<connSide, inVars, queueVars, handler, pkt, cur, cause>>

\* Stream.ReadPacket, with the same three steps as Async.ReadPacket.
CallStreamRead(u) ==
  /\ Call(u, "StreamRead")
  /\ \E s \in 1 .. nstr : /\ cur' = [cur EXCEPT ![u] = s]
                          /\ Goto(u, IF strm[s].closed THEN "SStale" ELSE "SPop")
  /\ UNCHANGED <<connSide, inVars, queueVars, streamVars, pkt, cause, res>>

StreamPop(u) ==
  /\ pc[u] = "SPop"
  /\ LET s == cur[u] IN
     \/ /\ ~strm[s].closed /\ strm[s].queue # <<>>
        /\ strm' = [strm EXCEPT ![s] = Dequeued(strm[s])]
        /\ Finish(u, "packet")
     \/ strm[s].closed /\ Goto(u, "SStale") /\ UNCHANGED <<strm, res>>
  /\ UNCHANGED <<connSide, inVars, queueVars, handler, streams, nstr, callVars, cause>>

StaleTaken(r) ==
  [r EXCEPT !.stale = Tail(r.stale), !.returned = Append(r.returned, Head(r.stale))]

StreamStale(u) ==
  /\ pc[u] = "SStale"
  /\ LET s == cur[u] IN
     \/ /\ strm[s].stale # <<>> /\ strm' = [strm EXCEPT ![s] = StaleTaken(strm[s])]
        /\ Finish(u, "packet")
     \/ strm[s].stale = <<>> /\ Finish(u, "StreamClosed") /\ UNCHANGED strm
  /\ UNCHANGED <<connSide, inVars, queueVars, handler, streams, nstr, callVars, cause>>

\* Stream.WritePacket: the load of s.closed; writePacket follows.
CallStreamWrite(u) ==
  /\ \E s \in 1 .. nstr :
       \/ strm[s].closed /\ CallAtOnce(u, "StreamWrite") /\ UNCHANGED pkt
       \/ /\ ~strm[s].closed /\ Call(u, "StreamWrite") /\ Outgoing(u, s, 1)
          /\ Goto(u, "WLock") /\ UNCHANGED res
  /\ UNCHANGED <<connSide, inVars, queueVars, streamVars, cur, cause>>

Swapped(s) == ~strm[s].closed

\* Mutant of CallStreamClose: the loser of the swap sends the empty packet all the same.
CallStreamCloseTwice(u) ==
  /\ \E s \in 1 .. nstr :
       /\ Call(u, "StreamClose") /\ Outgoing(u, s, 0)
       /\ strm' = [strm EXCEPT ![s] = IF Swapped(s) THEN Ended(strm[s]) ELSE strm[s]]
       /\ cur' = [cur EXCEPT ![u] = s] /\ Goto(u, "WLock") /\ UNCHANGED res
  /\ UNCHANGED <<connSide, inVars, queueVars, handler, streams, nstr, cause>>

\* Stream.Close: closeSend ends the stream, sends the empty packet (writePacket) ...
CallStreamClose(u) ==
  /\ \E s \in 1 .. nstr :
       \/ /\ strm[s].closed /\ CallAtOnce(u, "StreamClose")
          /\ UNCHANGED <<strm, pkt, cur>>
       \/ /\ Swapped(s) /\ Call(u, "StreamClose") /\ Outgoing(u, s, 0)
          /\ strm' = [strm EXCEPT ![s] = Ended(strm[s])] /\ cur' = [cur EXCEPT ![u] = s]
          /\ Goto(u, "WLock") /\ UNCHANGED res
  /\ UNCHANGED <<connSide, inVars, queueVars, handler, streams, nstr, cause>>

\* ... and deletes the id of the stream from the table, whatever it maps to by now.
StreamDelete(u) ==
  /\ pc[u] = "KDelete" /\ streamsMu = None
  /\ streams' = [streams EXCEPT ![strm[cur[u]].id] = 0]
  /\ Goto(u, "Idle")
  /\ UNCHANGED <<connSide, inVars, queueVars, handler, nstr, strm, callVars, cause, res>>

-----------------------------------------------------------------------------
UserCall(u) ==
  \/ CallWritePacket(u) \/ CallFlush(u) \/ CallClose(u)
  \/ CallReadPacket(u) \/ CallSetNewStreamHandler(u) \/ CallNewStream(u)
  \/ CallStreamRead(u) \/ CallStreamWrite(u) \/ CallStreamClose(u)

WriteStep(p) ==
  WriteLock(p) \/ WriteMeta(p) \/ WriteBody(p) \/ WriteSend(p) \/ WriteError(p)

CloseStep(p) ==
  \/ CloseWithError(p) \/ CloseStale(p) \/ CloseSwap(p) \/ CloseShut(p) \/ ClosePast(p)
  \/ CloseWait(p) \/ CloseStreams(p) \/ CloseFlush(p) \/ CloseFin(p)

ReadLoopStep ==
  ReadArm \/ ReadConn \/ ReadNext \/ StreamLookup \/ StreamEnd \/ StreamDrop \/ StreamAdd
          \/ StreamPush

UserStep(u) ==
  ReadPop(u) \/ ReadStale(u) \/ StreamPop(u) \/ StreamStale(u) \/ StreamDelete(u)

\* What goroutine p does on its own once a call is under way.
Step(p) ==
  \/ WriteStep(p) \/ Flush(p) \/ CloseStep(p) \/ LoopDone(p)
  \/ p = "flushLoop" /\ FlushLoopRecv
  \/ p = "pingLoop" /\ PingLoopSelect
  \/ p = "readLoop" /\ ReadLoopStep
  \/ p \in Users /\ UserStep(p)

Next ==
  \/ \E p \in Procs : Step(p)
  \/ \E u \in Users : UserCall(u)

Spec == Init /\ [][Next]_vars

\* The Go scheduler runs every runnable goroutine, timers and deadlines fire.
Fairness == \A p \in Procs : WF_vars(Step(p))
FairSpec == Spec /\ Fairness

\* The same with a peer that keeps an open connection alive: its heartbeats arrive before
\* the read deadline, so that no Read is owed a failure.
KeptAlive == ~closed /\ pc["readLoop"] = "Read" /\ inbox = <<>>
AliveSpec ==
  Spec /\ \A p \in Procs : WF_vars((p = "readLoop" => ~KeptAlive) /\ Step(p))

-----------------------------------------------------------------------------
StreamRecords == [id : StreamIds, closed : BOOLEAN, queue : Seq(InPackets),
                  stale : Seq(InPackets), pushed : Seq(InPackets), returned : Seq(InPackets)]

\* Every field of the connection, of its streams and of its goroutines keeps to the
\* values its declaration in async.go or stream.go allows.
TypeOK ==
  /\ closed \in BOOLEAN /\ shut \in BOOLEAN /\ wg \subseteq Loops
  /\ error \subseteq Errors /\ reason \in Errors
  /\ mu \in Procs \cup {None} /\ staleMu \in Procs \cup {None}
  /\ streamsMu \in Procs \cup {None} /\ errorMu \in Procs \cup {None}
  /\ flushCh \in {0, 1}
  /\ incoming \in Seq(InPackets) /\ stale \in Seq(InPackets) /\ inbox \in Seq(InPackets)
  /\ rbuf \in Seq(InPackets) /\ pushed \in Seq(InPackets) /\ returned \in Seq(InPackets)
  /\ handler \in BOOLEAN /\ streams \in [StreamIds -> 0 .. MaxStreams]
  /\ wbuf \in Seq(Chunks) /\ wire \in Seq(Chunks) /\ werr \in BOOLEAN
  /\ conn \in BOOLEAN /\ deadline \in {"none", "armed", "past"}
  /\ nstr \in 0 .. MaxStreams /\ strm \in [Objects -> StreamRecords]
  /\ pc \in [Procs -> Labels] /\ op \in [Procs -> Methods \cup {"none"}]
  /\ pkt \in [Procs -> Packets] /\ cause \in [Procs -> Errors]
  /\ cur \in [Procs -> 0 .. MaxStreams] /\ calls \in [Procs -> Nat]
  /\ acked \subseteq Packets
  /\ res \in [Users -> Outcomes]

=============================================================================
