----------------------------- MODULE MCSyncConn -----------------------------
(***************************************************************************)
(* Instances of SyncConn for TLC. ReadPacket takes no lock and is called   *)
(* by one goroutine at a time. Metadata comes along, on the values at the  *)
(* edges of each byte and with a smaller byte: TLC has no integer as large *)
(* as the largest ContentLength.                                           *)
(***************************************************************************)
EXTENDS SyncConnProps, Metadata, TLC

CONSTANTS Writers, Readers, Closers, Rawers

MCUsers == Writers \cup Readers \cup Closers \cup Rawers
MCOps ==
  [u \in MCUsers |-> {m \in Methods : \/ m = "WritePacket" /\ u \in Writers
                                      \/ m = "ReadPacket" /\ u \in Readers
                                      \/ m = "Close" /\ u \in Closers
                                      \/ m = "Raw" /\ u \in Rawers}]
\* A peer that sends a packet and stops: after it, in it, or with a bad one.
Stopping == {<<"empty">>, <<"full">>, <<"full", "content">>, <<"bad">>}

Edge16 == {0, Radix - 1, Radix, R2 - 1}
Edge32 == {0, Radix - 1, Radix, R2, R3 - 1, R3, R2 * R2 - 1}
\* A new Buffer, and one that held bytes of all ones.
Used == {[i \in 0 .. Size - 1 |-> byte] : byte \in {0, Radix - 1}}

\* The codec on these values, which TLC evaluates before it starts.
ASSUME RoundTripHere == RoundTrip

=============================================================================
