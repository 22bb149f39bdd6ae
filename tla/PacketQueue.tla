----------------------------- MODULE PacketQueue -----------------------------
(***************************************************************************)
(* What Async.ReadPacket and Stream.ReadPacket promise their callers: a    *)
(* FIFO queue of packets that is sealed once, hands out what it holds      *)
(* afterwards, and reports its end to a reader only when it is empty.      *)
(***************************************************************************)
EXTENDS Sequences

CONSTANTS Packet, Readers

VARIABLES
  pending,  \* packets received and not yet returned, oldest first
  out,      \* packets returned, in order
  sealed,   \* no packet will be added any more
  ended     \* readers whose last call reported the end

vars == <<pending, out, sealed, ended>>

Init == pending = <<>> /\ out = <<>> /\ sealed = FALSE /\ ended = {}

Put ==
  /\ ~sealed
  /\ \E x \in Packet : pending' = Append(pending, x)
  /\ UNCHANGED <<out, sealed, ended>>

Take ==
  /\ pending # <<>>
  /\ pending' = Tail(pending) /\ out' = Append(out, Head(pending))
  /\ UNCHANGED <<sealed, ended>>

Seal == ~sealed /\ sealed' = TRUE /\ UNCHANGED <<pending, out, ended>>

ReportEnd(r) ==
  /\ sealed /\ pending = <<>>
  /\ ended' = ended \cup {r}
  /\ UNCHANGED <<pending, out, sealed>>

\* Reader r has gone on to another call.
Leave(r) == r \in ended /\ ended' = ended \ {r} /\ UNCHANGED <<pending, out, sealed>>

Next == Put \/ Take \/ Seal \/ \E r \in Readers : ReportEnd(r) \/ Leave(r)

Spec == Init /\ [][Next]_vars

=============================================================================
