--------------------------- MODULE AsyncConnProps ---------------------------
(***************************************************************************)
(* What a frisbee.Async connection and its streams must guarantee.         *)
(***************************************************************************)
EXTENDS AsyncConn

Tearing == {"CShut", "CPast", "CWait", "CStreams", "CFlush"}

\* The close() that won the swap has run to its end.
TornDown == closed /\ \A p \in Procs : pc[p] \notin Tearing

Handed == {p \in Users : res[p] = "closed"}

\* Go panics on a send on a closed channel and on closing a channel twice. writePacket
\* sends on c.flushCh after its check of c.closed, and close() closes it: neither may
\* find it closed, however writers, pings, pongs and closers interleave.
NoChannelPanic == \A p \in Procs : pc[p] \in {"WSend", "CShut"} => ~shut

\* Concurrent writePacket calls never interleave on the connection: content follows
\* the metadata of its own packet, and metadata that announces content is followed by
\* it unless the packet is the last one begun.
PacketsWhole ==
  LET out == wire \o wbuf IN
  \A i \in 1 .. Len(out) :
    /\ out[i].part = "body" => i > 1 /\ out[i - 1] = [pkt |-> out[i].pkt, part |-> "meta"]
    /\ (out[i].part = "meta" /\ out[i].pkt.len > 0 /\ i < Len(out))
         => out[i + 1] = [pkt |-> out[i].pkt, part |-> "body"]

\* A graceful close loses no packet: once close() is over, every packet whose
\* writePacket returned nil is on the wire, unless the net.Conn failed a write.
CloseDelivers ==
  TornDown /\ ~werr =>
    \A k \in acked : /\ [pkt |-> k, part |-> "meta"] \in Range(wire)
                     /\ k.len > 0 => [pkt |-> k, part |-> "body"] \in Range(wire)

\* No lost wakeup: writePacket skips the send when len(c.flushCh) # 0 or the channel is
\* full, so buffered data on an open connection must have a token, a writer that has
\* not yet looked, or a flushLoop that is not waiting.
NoLostWakeup ==
  (wbuf # <<>> /\ ~werr /\ ~shut) => flushCh > 0 \/ mu # None \/ pc["flushLoop"] # "Recv"

\* ReadPacket returns the packets readLoop pushed, each once and in order, across the
\* hand-over from c.incoming to c.stale in close().
NoPacketLost == returned \o (stale \o incoming) = pushed

\* ReadPacket reports ConnectionClosed only after every packet received was returned,
\* and never the queue's own error.
ReadEndsDrained ==
  \A u \in Users :
    /\ res[u] = "ConnectionClosed" => returned = pushed /\ wg = {}
    /\ res[u] # "QueueClosed"

\* When Close or Raw has returned, to the winner or to a later caller, the loops are
\* gone and no read deadline of frisbee is left on the net.Conn.
CloseQuiesces ==
  Handed # {} => closed /\ wg = {} /\ deadline = "none" /\ pc["readLoop"] \notin {"Arm", "Read"}

\* Streams: every packet pushed to a stream carries its id and is returned once, in
\* order, across Stream.close and closeSend.
StreamNoPacketLost ==
  \A s \in 1 .. nstr :
    /\ strm[s].returned \o (strm[s].stale \o strm[s].queue) = strm[s].pushed
    /\ \A i \in 1 .. Len(strm[s].pushed) : strm[s].pushed[i].id = strm[s].id

\* The peer is told of the end of a stream at most once: closeSend's swap of s.closed
\* lets one of several closers send the empty packet.
OneCloseFrame ==
  LET out == wire \o wbuf IN
  \A i, j \in 1 .. Len(out) :
    (out[i].pkt.st # 0 /\ out[i].pkt.len = 0 /\ out[j].pkt.len = 0 /\ out[i].pkt.st = out[j].pkt.st)
      => i = j

\* Error() of a connection that closed with an error is not nil once the close is over:
\* it wraps the cause, or says that somebody else closed the connection first, however
\* many goroutines failed together (closeWithError, async.go:430-443).
ErrorKnown ==
  (TornDown /\ errorMu = None /\ reason # "nil") => error \cap {reason, "ConnectionClosed"} # {}

-----------------------------------------------------------------------------
\* Close, Raw and closeWithError return.
CloseTerminates ==
  \A p \in Procs : (pc[p] \in {"ELock", "CStale"}) ~> (pc[p] \in {"Idle", "Exit", "KDelete"})

\* A closed connection releases the readers blocked in ReadPacket.
ReadersReleased == \A u \in Users : (closed /\ pc[u] = "RPop") ~> (pc[u] = "Idle")

\* Buffered packets are flushed without any further call, or the write fails.
EventuallyFlushed == (wbuf # <<>>) ~> (wbuf = <<>> \/ werr)

=============================================================================
