-------------------------- MODULE FrameReaderProps --------------------------
(***************************************************************************)
(* What readLoop's buffer handling must guarantee, for every way Read may  *)
(* cut the stream.                                                         *)
(***************************************************************************)
EXTENDS FrameReader

Reading == {"Fill", "Refill", "Body"}
Labels == Reading \cup {"Refilled", "Decode", "Content", "Copy", "Next", "Bad", "Failed"}

\* The k-th content the peer sent.
Sent(k) == [j \in 0 .. ContentLength(k) - 1 |-> start[k] + HSize + 1 + j]

\* The packets decoded are the packets sent, in order, each with exactly its own content,
\* however the reads split and join headers and contents (async.go:519-604).
FramesExact ==
  Len(got) <= Packets /\ \A k \in 1 .. Len(got) : got[k] = Sent(k)

\* readLoop never loses the packet boundary: no header check fails on a peer that sends
\* well-formed packets (async.go:528).
Aligned == pc # "Bad"

\* Every slice of buf that readLoop reads holds bytes that were read, and every Read loop
\* has room for the bytes it waits for (async.go:522, 588, 599, 677, 697).
SlicesInRange ==
  /\ n <= cap
  /\ pc = "Decode" => index + HSize <= n
  /\ pc \in {"Content", "Next"} => index <= n
  /\ pc \in {"Fill", "Body", "Copy"} => need <= cap
  /\ pc = "Refill" => index + need <= cap /\ n < need
  /\ pc = "Copy" => need <= n

\* A packet that has arrived is never held back: readLoop blocks in Read only when
\* the next packet has not arrived completely (async.go:520, 648, 676).
Prompt ==
  (pc \in Reading /\ Len(got) < Packets) => rd < start[Len(got) + 2]

\* Every packet is decoded, unless a Read fails.
AllDecoded == <>(Len(got) = Packets \/ pc = "Failed")

=============================================================================
