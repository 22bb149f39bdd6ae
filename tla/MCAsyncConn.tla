----------------------------- MODULE MCAsyncConn -----------------------------
(***************************************************************************)
(* Instances of AsyncConn for TLC. The roles say which methods an          *)
(* application goroutine calls.                                            *)
(***************************************************************************)
EXTENDS AsyncConnQueues, TLC

CONSTANTS Writers, Flushers, Readers, Closers, Rawers, \* of the connection
          Creators, StreamReaders, StreamWriters, StreamClosers, \* of streams
          id1

MCUsers == Writers \cup Flushers \cup Readers \cup Closers \cup Rawers
             \cup Creators \cup StreamReaders \cup StreamWriters \cup StreamClosers

MCOps ==
  [u \in MCUsers |->
     {m \in Methods : \/ m = "WritePacket" /\ u \in Writers
                      \/ m = "Flush" /\ u \in Flushers
                      \/ m = "ReadPacket" /\ u \in Readers
                      \/ m = "Close" /\ u \in Closers
                      \/ m = "Raw" /\ u \in Rawers
                      \/ m \in {"NewStream", "SetNewStreamHandler"} /\ u \in Creators
                      \/ m = "StreamRead" /\ u \in StreamReaders
                      \/ m = "StreamWrite" /\ u \in StreamWriters
                      \/ m = "StreamClose" /\ u \in StreamClosers}]

\* Goroutines with the same role are interchangeable in the safety runs.
Symmetry == Permutations(Readers \ Closers) \cup Permutations(Writers \ Flushers)

InPacket(kind, n, len) == [kind |-> kind, id |-> id1, n |-> n, len |-> len]

\* A silent peer.
Silent == {<<>>}
\* One packet.
Hello == {<<InPacket("DATA", 1, 1)>>}
\* Data, heartbeats and a packet readLoop rejects.
Talking ==
  {<<InPacket("DATA", 1, 1), InPacket("PONG", 2, 0), InPacket("DATA", 3, 0), InPacket("PING", 4, 0)>>,
   <<InPacket("DATA", 1, 0), InPacket("BAD", 2, 0), InPacket("DATA", 3, 1)>>}
\* A stream opened, used and closed by the peer.
Streaming == {<<InPacket("STREAM", 1, 1), InPacket("STREAM", 2, 0)>>}
OneStreamPacket == {<<InPacket("STREAM", 1, 1)>>}

=============================================================================
