---------------------------- MODULE AsyncConnInv ----------------------------
(***************************************************************************)
(* The inductive invariant of AsyncConn, IInv. The modules AsyncConnSteps  *)
(* and AsyncConnData prove that every step keeps its parts, and            *)
(* AsyncConnTheorems draws the consequences.                               *)
(***************************************************************************)
EXTENDS AsyncConnProps

StaleHeld   == {"CSwap", "CShut", "CPast", "CWait"}
StreamsHeld == {"CShut", "CPast", "CWait", "CStreams"}
PostSwap    == {"CShut", "CPast", "CWait", "CStreams", "CFlush", "CFin"}
InClose     == PostSwap \cup {"CStale", "CSwap"}

\* Each mutex is held exactly by the goroutine in its critical section.
LockInv ==
  \A p \in Procs : /\ mu = p <=> pc[p] \in WriterPCs
                   /\ staleMu = p <=> pc[p] \in StaleHeld
                   /\ streamsMu = p <=> pc[p] \in StreamsHeld

\* No goroutine is between the swap and the end of wg.Wait on a closed connection.
Quiet == closed /\ \A p \in Procs : pc[p] \notin {"CShut", "CPast", "CWait"}

\* One close() gets past the swap; channels are closed after it, never under a writer.
WinnerInv ==
  /\ shut => closed
  /\ \A p \in Procs : /\ pc[p] \in PostSwap => closed
                      /\ pc[p] = "CShut" => ~shut
                      /\ pc[p] \in WriterPCs => ~shut
                      /\ pc[p] \in PostSwap \ {"CShut"} => shut
  /\ \A p, q \in Procs : pc[p] \in PostSwap /\ pc[q] \in PostSwap => p = q

\* A loop that has called wg.Done is in closeWithError or gone, and from the end of
\* wg.Wait on nothing of the loops is left.
LoopInv ==
  /\ \A p \in Loops : p \notin wg => pc[p] \in InClose \cup {"ELock", "Exit"}
  /\ Quiet => wg = {} /\ deadline = "none" /\ shut /\ incoming = <<>>
  /\ ~Quiet => stale = <<>>

\* A user at a label of some method is in a call of that method.
OpInv ==
  \A u \in Users :
    /\ pc[u] \in {"WLock", "WErr", "FLock", "ELock"} \cup WriterPCs => op[u] \notin {"Close", "Raw"}
    /\ pc[u] \in {"RPop", "RStale"} => op[u] = "ReadPacket"
    /\ pc[u] \in {"SPop", "SStale"} => op[u] = "StreamRead"
    /\ pc[u] = "RStale" => closed

\* What the outcome of a call tells about the connection.
ResInv ==
  \A u \in Users :
    /\ res[u] = "closed" => Quiet
    /\ res[u] = "ConnectionClosed" => Quiet /\ stale = <<>>
    /\ res[u] # "QueueClosed"

\* The table holds allocated streams under their own id, readLoop holds the packet it
\* dispatches and a stream of its id, and a reader of s.stale a closed stream.
TableInv ==
  \A i \in StreamIds : streams[i] <= nstr /\ (streams[i] # 0 => strm[streams[i]].id = i)
DispatchInv ==
  /\ pc["readLoop"] \in {"Lookup", "EndStream", "DropStream", "AddStream", "PushStream"} => rbuf # <<>>
  /\ pc["readLoop"] \in {"EndStream", "PushStream"} => cur["readLoop"] \in 1 .. nstr
  /\ pc["readLoop"] = "PushStream" => strm[cur["readLoop"]].id = Head(rbuf).id
StreamUserInv(u) ==
  /\ pc[u] \in {"SPop", "SStale", "KDelete"} => cur[u] \in 1 .. nstr
  /\ pc[u] = "SStale" => strm[cur[u]].closed
  /\ pc[u] # "Idle" /\ op[u] = "StreamClose" => cur[u] \in 1 .. nstr
StreamInv == TableInv /\ DispatchInv /\ \A u \in Users : StreamUserInv(u)

\* Streams whose packets are returned once and in order: s.stale is filled at the
\* close, and every packet carries the stream's id.
GoodStreams ==
  {r \in StreamRecords : /\ r.returned \o (r.stale \o r.queue) = r.pushed
                         /\ \A k \in 1 .. Len(r.pushed) : r.pushed[k].id = r.id
                         /\ ~r.closed => r.stale = <<>>}

\* Labels of one kind of goroutine are not reached by the others.
LabelInv ==
  /\ \A u \in Users : pc[u] \notin {"Recv", "Select", "Arm", "Read", "Next", "Lookup", "EndStream",
                                    "DropStream", "AddStream", "PushStream", "Done", "Exit"}
  /\ \A p \in Loops : pc[p] \notin {"Idle", "RPop", "RStale", "SPop", "SStale", "KDelete"}

-----------------------------------------------------------------------------
(* The inductive invariant, in parts. TypeOK is spread over five of them,    *)
(* so that each step of a proof sees only the types it needs.               *)

StateType ==
  /\ closed \in BOOLEAN /\ shut \in BOOLEAN /\ wg \subseteq Loops
  /\ error \subseteq Errors /\ reason \in Errors
  /\ mu \in Procs \cup {None} /\ staleMu \in Procs \cup {None}
  /\ streamsMu \in Procs \cup {None} /\ errorMu \in Procs \cup {None}
  /\ flushCh \in {0, 1} /\ werr \in BOOLEAN
  /\ conn \in BOOLEAN /\ deadline \in {"none", "armed", "past"}

ProcType ==
  /\ op \in [Procs -> Methods \cup {"none"}]
  /\ cause \in [Procs -> Errors] /\ calls \in [Procs -> Nat]
  /\ res \in [Users -> Outcomes]

Control == LockInv /\ WinnerInv /\ LoopInv /\ LabelInv /\ OpInv /\ ResInv /\ NoLostWakeup

QueueInv ==
  /\ incoming \in Seq(InPackets) /\ stale \in Seq(InPackets) /\ pushed \in Seq(InPackets)
  /\ returned \in Seq(InPackets) /\ inbox \in Seq(InPackets) /\ rbuf \in Seq(InPackets)
  /\ NoPacketLost

WriteType ==
  /\ wbuf \in Seq(Chunks) /\ wire \in Seq(Chunks) /\ acked \subseteq Packets
  /\ pkt \in [Procs -> Packets]

StreamType ==
  /\ handler \in BOOLEAN /\ nstr \in 0 .. MaxStreams
  /\ streams \in [StreamIds -> 0 .. MaxStreams] /\ strm \in [Objects -> GoodStreams]
  /\ cur \in [Procs -> 0 .. MaxStreams]

IInv ==
  /\ pc \in [Procs -> Labels] /\ StateType /\ ProcType /\ Control /\ QueueInv /\ WriteType /\ StreamType /\ StreamInv

-----------------------------------------------------------------------------
(* A second layer, inductive given IInv: the error of the connection and     *)
(* what is written to it.                                                   *)

\* errorMu is held by the goroutine in closeWithError, whose error c.error is meanwhile;
\* the winner's error is the reason. Afterwards c.error tells of the reason.
ErrorInv ==
  /\ \A p \in Procs : errorMu = p <=> pc[p] \in InClose /\ Closing(p) = "Error"
  /\ \A p \in Procs : errorMu = p => error = {cause[p]} /\ (pc[p] \in PostSwap => reason = cause[p])
  /\ (closed /\ errorMu = None /\ reason # "nil") => error \cap {reason, "ConnectionClosed"} # {}

\* The chunks put into the bufio.Writer, written out or not.
Out == wire \o wbuf
Meta(k) == [pkt |-> k, part |-> "meta"]
Body(k) == [pkt |-> k, part |-> "body"]

\* Unless a write failed, the last chunk announces content exactly while its writer is
\* about to write that.
WholeInv ==
  /\ PacketsWhole
  /\ \A p \in Procs : pc[p] = "WBody" => /\ pkt[p].len > 0
                                         /\ ~werr => Out # <<>> /\ Out[Len(Out)] = Meta(pkt[p])
  /\ (~werr /\ Out # <<>> /\ Out[Len(Out)].part = "meta" /\ Out[Len(Out)].pkt.len > 0)
       => \E p \in Procs : pc[p] = "WBody"

\* What a writePacket has written, and what those that returned nil have, is in Out.
AckInv ==
  /\ \A k \in acked : Meta(k) \in Range(Out) /\ (k.len > 0 => Body(k) \in Range(Out))
  /\ \A p \in Procs : /\ pc[p] \in {"WBody", "WSend"} => Meta(pkt[p]) \in Range(Out)
                      /\ pc[p] = "WSend" /\ pkt[p].len > 0 => Body(pkt[p]) \in Range(Out)

\* close() has left nothing in the buffer.
FlushedInv == TornDown /\ ~werr => wbuf = <<>>

\* An empty packet of stream s is sent by the closeSend that closed s, and once.
Ends(k, s) == k.st = s /\ k.len = 0
EndInv ==
  /\ OneCloseFrame
  /\ \A p \in Loops : pkt[p].st = 0
  /\ \A s \in Objects : \A i \in 1 .. Len(Out) : Ends(Out[i].pkt, s) => s <= nstr /\ strm[s].closed
  /\ \A s \in Objects : \A p \in Procs : pc[p] \in {"WLock", "WMeta"} /\ Ends(pkt[p], s) =>
       /\ s <= nstr /\ strm[s].closed
       /\ \A i \in 1 .. Len(Out) : ~Ends(Out[i].pkt, s)
       /\ \A q \in Procs : pc[q] \in {"WLock", "WMeta"} /\ Ends(pkt[q], s) => p = q

OutInv == WholeInv /\ AckInv /\ FlushedInv /\ EndInv

-----------------------------------------------------------------------------
(* A third layer, for the refinement of PacketQueue by the streams.         *)

\* Readers of stream s whose last call told them of its end.
Told(s) == {u \in Users : /\ op[u] = "StreamRead" /\ pc[u] = "Idle" /\ cur[u] = s
                          /\ res[u] = "StreamClosed"}

\* A goroutine in Stream.ReadPacket is at one of its labels.
ReadsOnly == \A u \in Users : op[u] = "StreamRead" => pc[u] \in {"Idle", "SPop", "SStale"}

\* A stream not allocated yet is a new one, the queue of a closed one was drained, and only a
\* closed one is reported closed.
ReaderInv ==
  /\ \A s \in Objects : s > nstr => \E i \in StreamIds : strm[s] = newStream(i)
  /\ \A s \in Objects : strm[s].closed => strm[s].queue = <<>>
  /\ \A s \in Objects : Told(s) # {} => s <= nstr /\ strm[s].closed
  /\ ReadsOnly

=============================================================================
