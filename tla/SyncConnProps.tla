---------------------------- MODULE SyncConnProps ----------------------------
(***************************************************************************)
(* What a frisbee.Sync connection must guarantee.                          *)
(***************************************************************************)
EXTENDS SyncConn

\* Concurrent WritePacket calls never mix: on the net.Conn, content follows the metadata
\* of its own packet, and metadata that announces content is followed by it or by nothing,
\* although a writer that fails unlocks before it closes the connection (sync.go:147-175).
SyncPacketsWhole ==
  \A i \in 1 .. Len(wire) :
    /\ wire[i].part = "body" => i > 1 /\ wire[i - 1] = [pkt |-> wire[i].pkt, part |-> "meta"]
    /\ (wire[i].part = "meta" /\ wire[i].pkt.len > 0 /\ i < Len(wire))
         => wire[i + 1] = [pkt |-> wire[i].pkt, part |-> "body"]

\* Readers, writers and closers that fail together agree on one cause: c.error is stored
\* once (a second Store of another type would panic), and a caller that is given an error
\* other than ConnectionClosed is given the one Error() returns (sync.go:285-296).
OneCause ==
  /\ stores <= 1
  /\ \A u \in Users : res[u] \in Causes => error = res[u] /\ ~conn

\* Once Raw has won the swap, no Close and no failing reader or writer closes the net.Conn
\* that was handed out (sync.go:263-276).
RawKeepsConn == raw => conn

\* A connection that is closed, other than by Raw, releases the goroutines that are in
\* ReadPacket or WritePacket (sync.go:179).
SyncReleased == \A u \in Users : (closed /\ ~raw /\ pc[u] # "Idle") ~> (pc[u] = "Idle")

=============================================================================
