--------------------------- MODULE AsyncConnQueues ---------------------------
(***************************************************************************)
(* What Async.ReadPacket and Stream.ReadPacket promise, as PacketQueues.   *)
(***************************************************************************)
EXTENDS AsyncConnProps

\* ReadPacket is a PacketQueue: what it returns, and when it reports the end, is what
\* an atomic queue could do, although close() moves the packets between two places.
ReadQueue ==
  INSTANCE PacketQueue WITH Packet <- InPackets, Readers <- Users,
    pending <- stale \o incoming, out <- returned, sealed <- shut,
    ended <- {u \in Users : res[u] = "ConnectionClosed"}
ReadIsQueue == ReadQueue!Spec

\* So is Stream.ReadPacket, for every stream.
StreamQueue(s) ==
  INSTANCE PacketQueue WITH Packet <- InPackets, Readers <- Users,
    pending <- strm[s].stale \o strm[s].queue, out <- strm[s].returned,
    sealed <- strm[s].closed,
    ended <- {u \in Users : /\ op[u] = "StreamRead" /\ pc[u] = "Idle" /\ cur[u] = s
                            /\ res[u] = "StreamClosed"}
StreamIsQueue == [][\A s \in Objects : [StreamQueue(s)!Next]_(StreamQueue(s)!vars)]_vars

=============================================================================
