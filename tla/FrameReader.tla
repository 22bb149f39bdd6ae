----------------------------- MODULE FrameReader -----------------------------
(***************************************************************************)
(* How readLoop (async.go) cuts the byte stream of the net.Conn into       *)
(* packets: the buffer buf with its indexes index and n, headers and       *)
(* contents that Read returns in any number of pieces, and the growth of   *)
(* buf for a large content. A byte is its position in the stream (1, 2,    *)
(* ...), so the model sees which byte ends up where, whatever its value.   *)
(* What happens to a decoded packet is the subject of AsyncConn.           *)
(***************************************************************************)
EXTENDS Integers, Sequences

CONSTANTS
  HSize,     \* metadata.Size
  BufSize,   \* DefaultBufferSize
  Packets,   \* number of packets the peer sends
  MaxBytes,  \* bound: bytes the peer sends
  Slack,     \* bound: how much append over-allocates
  ReadFails  \* whether a Read may fail

ASSUME SizesAssumption ==
  /\ HSize \in Nat \ {0} /\ BufSize \in Nat /\ BufSize >= HSize
  /\ Packets \in Nat /\ MaxBytes \in Nat /\ Slack \in Nat /\ ReadFails \in BOOLEAN

VARIABLES
  start,     \* start[k]: position of the last byte before the k-th packet
  buf,       \* readLoop's buf, up to its capacity
  index, n,  \* readLoop's index and n
  cap,       \* cap(buf)
  need,      \* minSize of the Read loop under way
  rd,        \* bytes Read has returned so far
  cur,       \* packets whose header was decoded
  copied,    \* bytes written to p.Content of the current packet
  content,   \* those bytes
  got,       \* contents of the packets decoded
  pc         \* where readLoop is; "Bad" and "Failed" are its ends

vars == <<start, buf, index, n, cap, need, rd, cur, copied, content, got, pc>>

\* The peer's k-th packet, and all it sends.
ContentLength(k) == start[k + 1] - start[k] - HSize
Total == start[Packets + 1]

\* p.Content.Write(buf[from:upto])
Written(from, upto) ==
  [i \in 0 .. copied + (upto - from) - 1 |-> IF i < copied THEN content[i] ELSE buf[from + (i - copied)]]
Empty == [i \in {} |-> 0]

\* readLoop starts with an empty buffer and enters the first Read loop.
Init ==
  /\ start \in [1 .. Packets + 1 -> 0 .. MaxBytes]
  /\ start[1] = 0 /\ \A j, k \in 1 .. Packets + 1 : j < k => start[j] + HSize <= start[k]
  /\ buf = [i \in 0 .. BufSize - 1 |-> 0] /\ cap = BufSize
  /\ index = 0 /\ n = 0 /\ need = HSize /\ rd = 0
  /\ cur = 0 /\ copied = 0 /\ content = Empty /\ got = <<>> /\ pc = "Fill"

-----------------------------------------------------------------------------
\* One Read into buf[at:] (external): some of the bytes on their way, an error, or both.
Read(at, k, fails) ==
  /\ k \in 0 .. cap - at /\ rd + k <= Total /\ fails \in {FALSE, ReadFails} /\ (k > 0 \/ fails)
  /\ buf' = [i \in 0 .. cap - 1 |-> IF at <= i /\ i < at + k THEN rd + 1 + (i - at) ELSE buf[i]]
  /\ rd' = rd + k

\* Mutant of ReadLoop: one byte more than needed is waited for.
ReadLoopGreedy(label, at, next) ==
  /\ pc = label
  /\ \E k \in 0 .. cap, fails \in BOOLEAN :
       /\ Read(at, k, fails) /\ n' = n + k
       /\ pc' = IF n + k > need THEN next ELSE IF fails THEN "Failed" ELSE label
  /\ UNCHANGED <<start, index, cap, need, cur, copied, content, got>>

\* A Read loop: it ends when need bytes have arrived, and fails on an error before that.
ReadLoop(label, at, next) ==
  /\ pc = label
  /\ \E k \in 0 .. cap, fails \in BOOLEAN :
       /\ Read(at, k, fails) /\ n' = n + k
       /\ pc' = IF n + k >= need THEN next ELSE IF fails THEN "Failed" ELSE label
  /\ UNCHANGED <<start, index, cap, need, cur, copied, content, got>>

\* The Read loops for a header at the start of buf, for the rest of a header that was
\* moved there, and for the rest of a content.
Fill   == ReadLoop("Fill", n, "Decode")
Refill == ReadLoop("Refill", index + n, "Refilled")
Body   == ReadLoop("Body", n, "Copy")

\* n += index, index = 0
Refilled ==
  /\ pc = "Refilled" /\ n' = n + index /\ index' = 0 /\ pc' = "Decode"
  /\ UNCHANGED <<start, buf, cap, need, rd, cur, copied, content, got>>

\* The bytes at index are the header of packet k.
HeaderOf(k) == \A i \in 0 .. HSize - 1 : buf[index + i] = start[k] + 1 + i

\* Decode the header at index; what is no header fails the check of the magic number.
Decode ==
  /\ pc = "Decode"
  /\ \/ \E k \in 1 .. Packets : /\ HeaderOf(k) /\ cur' = k /\ index' = index + HSize
                                /\ copied' = 0 /\ content' = Empty /\ pc' = "Content"
     \/ /\ \A k \in 1 .. Packets : ~HeaderOf(k)
        /\ pc' = "Bad" /\ UNCHANGED <<cur, index, copied, content>>
  /\ UNCHANGED <<start, buf, n, cap, need, rd, got>>

\* The packet is complete and goes to the dispatch.
Deliver(c) == got' = Append(got, c) /\ copied' = 0 /\ content' = Empty /\ pc' = "Next"

\* Mutant of ContentPart: buf does not grow.
ContentPartTight ==
  /\ pc = "Content" /\ n - index < ContentLength(cur)
  /\ content' = Written(index, n) /\ copied' = copied + (n - index)
  /\ need' = ContentLength(cur) - (n - index) /\ n' = 0 /\ pc' = "Body"
  /\ UNCHANGED <<start, buf, index, cap, rd, cur, got>>

\* The content is not all in buf: take what there is, make room for the rest.
ContentPart ==
  /\ pc = "Content" /\ n - index < ContentLength(cur)
  /\ content' = Written(index, n) /\ copied' = copied + (n - index)
  /\ need' = ContentLength(cur) - (n - index) /\ n' = 0 /\ pc' = "Body"
  /\ \/ cap >= need' /\ UNCHANGED <<cap, buf>>
     \/ /\ cap < need' /\ cap' \in need' .. need' + Slack
        /\ buf' = [i \in 0 .. cap' - 1 |-> IF i < cap THEN buf[i] ELSE 0]
  /\ UNCHANGED <<start, index, rd, cur, got>>

\* Mutant of ContentWhole: a content that ends where buf ends is not taken.
ContentWholeStrict ==
  /\ pc = "Content" /\ n - index > ContentLength(cur)
  /\ Deliver(Written(index, index + ContentLength(cur)))
  /\ index' = index + ContentLength(cur)
  /\ UNCHANGED <<start, buf, n, cap, need, rd, cur>>

\* The content is all in buf.
ContentWhole ==
  /\ pc = "Content" /\ n - index >= ContentLength(cur)
  /\ Deliver(Written(index, index + ContentLength(cur)))
  /\ index' = index + ContentLength(cur)
  /\ UNCHANGED <<start, buf, n, cap, need, rd, cur>>

\* Mutant of Copy: all that was read is copied.
CopyAll ==
  /\ pc = "Copy" /\ Deliver(Written(0, n)) /\ index' = need
  /\ UNCHANGED <<start, buf, n, cap, need, rd, cur>>

\* The rest of the content has arrived, perhaps with bytes of the next packet.
Copy ==
  /\ pc = "Copy" /\ Deliver(Written(0, need)) /\ index' = need
  /\ UNCHANGED <<start, buf, n, cap, need, rd, cur>>

\* Is there a whole header left in buf?
Again == n - index >= HSize

\* Mutant of Advance: the partial header is not moved.
AdvanceUnmoved ==
  /\ pc = "Next"
  /\ \/ n = index /\ index' = 0 /\ n' = 0 /\ need' = HSize /\ pc' = "Fill"
     \/ /\ n # index /\ ~Again
        /\ index' = n - index /\ need' = HSize - (n - index) /\ n' = 0 /\ pc' = "Refill"
     \/ n # index /\ Again /\ pc' = "Decode" /\ UNCHANGED <<index, n, need>>
  /\ UNCHANGED <<start, buf, cap, rd, cur, copied, content, got>>

\* After a packet: an empty buffer is filled, a partial header moved to the front.
Advance ==
  /\ pc = "Next"
  /\ \/ n = index /\ index' = 0 /\ n' = 0 /\ need' = HSize /\ pc' = "Fill" /\ UNCHANGED buf
     \/ /\ n # index /\ ~Again
        /\ buf' = [i \in 0 .. cap - 1 |-> IF i < n - index THEN buf[index + i] ELSE buf[i]]
        /\ index' = n - index /\ need' = HSize - (n - index) /\ n' = 0 /\ pc' = "Refill"
     \/ n # index /\ Again /\ pc' = "Decode" /\ UNCHANGED <<buf, index, n, need>>
  /\ UNCHANGED <<start, cap, rd, cur, copied, content, got>>

Next == Fill \/ Refill \/ Body \/ Refilled \/ Decode \/ ContentPart \/ ContentWhole \/ Copy \/ Advance

Spec == Init /\ [][Next]_vars

\* The peer's bytes arrive, and readLoop runs.
FairSpec == Spec /\ WF_vars(Next)

=============================================================================
