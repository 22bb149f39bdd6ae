---------------------------- MODULE AsyncConnData ---------------------------
(***************************************************************************)
(* Every step keeps the part of the invariant about packets: those on their*)
(* way out, those for ReadPacket and those of the streams.                 *)
(***************************************************************************)
EXTENDS AsyncConnSteps, SequenceTheorems

(* Queues as sequences.                                                    *)

\* Moving the oldest packet from the front a of a queue to what was returned, as Pop and
\* the reads of c.stale and s.stale do, keeps the packets and their order.
LEMMA TakeOldest ==
  ASSUME NEW S, NEW r \in Seq(S), NEW a \in Seq(S), NEW b \in Seq(S), a # <<>>
  PROVE  Append(r, Head(a)) \o (Tail(a) \o b) = r \o (a \o b)
<1>1. Head(a) \in S /\ Tail(a) \in Seq(S) /\ <<Head(a)>> \in Seq(S)
  BY SMTT(60), HeadTailProperties
<1>2. a = <<Head(a)>> \o Tail(a)
  <2>1. Len(a) \in Nat \ {0} BY ZenonT(60), EmptySeq
  <2> QED BY SMTT(60), <2>1, SubSeqRecursiveFirst, SubSeqFull, TailIsSubSeq
<1>3. Append(r, Head(a)) = r \o <<Head(a)>> BY ZenonT(60), <1>1, AppendIsConcat
<1>5. <<Head(a)>> \o (Tail(a) \o b) = a \o b BY SMTT(60), <1>1, <1>2
<1>6. (r \o <<Head(a)>>) \o (Tail(a) \o b) = r \o (<<Head(a)>> \o (Tail(a) \o b))
  BY SMTT(60), <1>1
<1> QED BY ZenonT(60), <1>3, <1>5, <1>6

\* The same for the queues of received packets.
LEMMA QueueTake ==
  \A r, a, b \in Seq(InPackets) :
    a # <<>> => Append(r, Head(a)) \o (Tail(a) \o b) = r \o (a \o b)
<1> SUFFICES ASSUME NEW r \in Seq(InPackets), NEW a \in Seq(InPackets), NEW b \in Seq(InPackets),
                    a # <<>>
             PROVE  Append(r, Head(a)) \o (Tail(a) \o b) = r \o (a \o b)
  BY ZenonT(60)
<1> QED BY SMTT(60), TakeOldest

\* Push adds a packet at the back of what readers will be given.
LEMMA QueueAdd ==
  \A r, a, b \in Seq(InPackets) : \A x \in InPackets :
    r \o (a \o Append(b, x)) = Append(r \o (a \o b), x)
<1>1. \A a, b \in Seq(InPackets) : \A x \in InPackets : a \o Append(b, x) = Append(a \o b, x)
  BY SMTT(60)
<1> SUFFICES ASSUME NEW r \in Seq(InPackets), NEW a \in Seq(InPackets), NEW b \in Seq(InPackets),
                    NEW x \in InPackets
             PROVE  r \o (a \o Append(b, x)) = Append(r \o (a \o b), x)
  BY ZenonT(60)
<1>2. a \o b \in Seq(InPackets) BY SMTT(60)
<1>3. a \o Append(b, x) = Append(a \o b, x) BY ZenonT(60), <1>1
<1>4. r \o Append(a \o b, x) = Append(r \o (a \o b), x) BY ZenonT(60), <1>1, <1>2
<1> QED BY ZenonT(60), <1>3, <1>4

\* An empty queue adds nothing.
LEMMA QueueEmpty ==
  <<>> \in Seq(InPackets) /\ \A q \in Seq(InPackets) : q \o <<>> = q /\ <<>> \o q = q
BY SMTT(60)

\* Push and Pop keep to packets.
LEMMA QueueParts ==
  /\ \A q \in Seq(InPackets) : q # <<>> => Head(q) \in InPackets /\ Tail(q) \in Seq(InPackets)
  /\ \A q \in Seq(InPackets), x \in InPackets : Append(q, x) \in Seq(InPackets)
<1>1. \A q \in Seq(InPackets) : q # <<>> => Head(q) \in InPackets /\ Tail(q) \in Seq(InPackets)
  BY ZenonT(60), HeadTailProperties
<1>2. \A q \in Seq(InPackets), x \in InPackets : Append(q, x) \in Seq(InPackets)
  BY SMTT(60)
<1> QED BY ZenonT(60), <1>1, <1>2

\* A prefix and the rest of a sequence of S are sequences of S.
LEMMA SplitSeq ==
  ASSUME NEW S, NEW s \in Seq(S), NEW k \in 0 .. Len(s)
  PROVE  SubSeq(s, 1, k) \in Seq(S) /\ SubSeq(s, k + 1, Len(s)) \in Seq(S)
BY SMTT(60)

-----------------------------------------------------------------------------
(* The packets readLoop hands to ReadPacket.                               *)

\* A step that leaves c.incoming, c.stale and readLoop's buffer alone.
LEMMA QueueKept ==
  ASSUME QueueInv, UNCHANGED <<inVars, queueVars>>
  PROVE  QueueInv'
BY ZenonT(60) DEF QueueInv, NoPacketLost, inVars, queueVars

\* close() moves what is left in c.incoming to c.stale, which is empty until then.
LEMMA CloseQueue ==
  ASSUME Control, QueueInv, NEW p \in Procs, CloseFrame(p)
  PROVE  QueueInv'
<1>1. CASE UNCHANGED <<incoming, stale>>
  BY ZenonT(60), <1>1, QueueKept DEF CloseFrame, queueVars
<1>2. CASE CloseWait(p)
  <2>1. /\ UNCHANGED <<inVars, pushed, returned>> /\ stale' = incoming /\ incoming' = <<>>
        /\ stale = <<>>
    BY ZenonT(60), <1>2 DEF CloseWait, Drained, Control, LoopInv, Quiet
  <2>2. stale \o incoming = incoming /\ incoming \o <<>> = incoming /\ <<>> \in Seq(InPackets)
    BY ZenonT(60), <2>1, QueueEmpty DEF QueueInv
  <2> QED BY ZenonT(60), <2>1, <2>2 DEF QueueInv, NoPacketLost, inVars
<1> QED BY ZenonT(60), <1>1, <1>2 DEF CloseFrame

\* readLoop pushes what it takes from its buffer, at the back of c.incoming.
LEMMA ReadQueueStep ==
  ASSUME QueueInv, DispatchInv, ReadFrame
  PROVE  QueueInv'
<1>in. inbox \in Seq(InPackets) /\ rbuf \in Seq(InPackets) /\ pushed \in Seq(InPackets)
  BY ZenonT(60) DEF QueueInv
<1>0. incoming \in Seq(InPackets) /\ stale \in Seq(InPackets) /\ returned \in Seq(InPackets)
  BY ZenonT(60) DEF QueueInv
<1>eq. returned \o (stale \o incoming) = pushed BY ZenonT(60) DEF QueueInv, NoPacketLost
<1>1. inbox' \in Seq(InPackets) /\ rbuf' \in Seq(InPackets)
  <2>1. CASE UNCHANGED <<inbox, rbuf>> BY ZenonT(60), <1>0, <1>in, <2>1
  <2>2. CASE UNCHANGED inbox /\ rbuf' = Tail(rbuf) /\ rbuf # <<>>
    BY ZenonT(60), <1>0, <1>in, <2>2, QueueParts
  <2>3. ASSUME NEW k \in 1 .. Len(inbox), rbuf' = SubSeq(inbox, 1, k),
               inbox' = SubSeq(inbox, k + 1, Len(inbox))
        PROVE  inbox' \in Seq(InPackets) /\ rbuf' \in Seq(InPackets)
    <3>1. k \in 0 .. Len(inbox) BY SMTT(60), <1>in, LenProperties
    <3> QED BY ZenonT(60), <1>0, <1>in, <2>3, <3>1, SplitSeq
  <2> QED BY ZenonT(60), <2>1, <2>2, <2>3 DEF ReadFrame, DispatchInv
<1>2. /\ incoming' \in Seq(InPackets) /\ pushed' \in Seq(InPackets)
      /\ returned \o (stale \o incoming') = pushed'
  <2>1. CASE UNCHANGED <<incoming, pushed>> BY ZenonT(60), <1>0, <1>in, <1>eq, <2>1
  <2>2. CASE /\ rbuf # <<>> /\ incoming' = Append(incoming, Head(rbuf))
             /\ pushed' = Append(pushed, Head(rbuf))
    <3>1. Head(rbuf) \in InPackets BY ZenonT(60), <1>0, <1>in, <2>2, QueueParts
    <3>2. returned \o (stale \o Append(incoming, Head(rbuf)))
            = Append(returned \o (stale \o incoming), Head(rbuf))
      BY ZenonT(60), <1>0, <3>1, QueueAdd
    <3>3. /\ Append(incoming, Head(rbuf)) \in Seq(InPackets)
          /\ Append(pushed, Head(rbuf)) \in Seq(InPackets)
      BY ZenonT(60), <1>0, <1>in, <3>1, QueueParts
    <3> QED BY ZenonT(60), <1>eq, <2>2, <3>2, <3>3
  <2> QED BY ZenonT(60), <2>1, <2>2 DEF ReadFrame
<1> QED BY ZenonT(60), <1>0, <1>in, <1>1, <1>2 DEF ReadFrame, QueueInv, NoPacketLost

\* ReadPacket takes the oldest packet: of c.incoming before the close, when c.stale is
\* empty, and of c.stale after it.
LEMMA UserQueue ==
  ASSUME Control, QueueInv, NEW p \in Users, UserFrame(p)
  PROVE  QueueInv'
<1>0. /\ incoming \in Seq(InPackets) /\ stale \in Seq(InPackets) /\ returned \in Seq(InPackets)
      /\ returned \o (stale \o incoming) = pushed
  BY ZenonT(60) DEF QueueInv, NoPacketLost
<1>f. UNCHANGED <<inVars, pushed>> BY ZenonT(60) DEF UserFrame
<1>same. CASE UNCHANGED <<incoming, stale, returned>>
  BY ZenonT(60), <1>f, <1>same, QueueKept DEF queueVars
<1>1. CASE ReadPop(p) /\ ~shut
  <2>1. /\ incoming # <<>> /\ incoming' = Tail(incoming) /\ stale' = stale
        /\ returned' = Append(returned, Head(incoming))
    BY ZenonT(60), <1>1 DEF ReadPop
  <2>2. stale = <<>> BY ZenonT(60), <1>1 DEF Control, LoopInv
  <2>3. Head(incoming) \in InPackets /\ Tail(incoming) \in Seq(InPackets)
    BY ZenonT(60), <1>0, <2>1, QueueParts
  <2>4. returned' \o (<<>> \o incoming') = returned \o (<<>> \o incoming)
    <3>1. returned' \o (incoming' \o <<>>) = returned \o (incoming \o <<>>)
      BY ZenonT(60), <1>0, <2>1, QueueTake, QueueEmpty
    <3> QED BY ZenonT(60), <1>0, <2>1, <2>3, <3>1, QueueEmpty
  <2>5. returned' \in Seq(InPackets) BY ZenonT(60), <1>0, <2>1, <2>3, QueueParts
  <2> QED BY ZenonT(60), <1>f, <1>0, <2>1, <2>2, <2>3, <2>4, <2>5 DEF QueueInv, NoPacketLost, inVars
<1>2. CASE ReadStale(p) /\ stale # <<>>
  <2>1. /\ stale' = Tail(stale) /\ returned' = Append(returned, Head(stale))
        /\ incoming' = incoming
    BY ZenonT(60), <1>2 DEF ReadStale
  <2>2. Head(stale) \in InPackets /\ Tail(stale) \in Seq(InPackets) BY ZenonT(60), <1>0, <1>2, QueueParts
  <2>3. returned' \in Seq(InPackets) BY ZenonT(60), <1>0, <2>1, <2>2, QueueParts
  <2>4. returned' \o (stale' \o incoming') = pushed BY ZenonT(60), <1>0, <1>2, <2>1, QueueTake
  <2> QED BY ZenonT(60), <1>f, <1>0, <2>1, <2>2, <2>3, <2>4 DEF QueueInv, NoPacketLost, inVars
<1> QED BY ZenonT(60), <1>same, <1>1, <1>2 DEF UserFrame, ReadPop, ReadStale

-----------------------------------------------------------------------------
(* The packets on their way out.                                           *)

\* A write to the net.Conn, whether it succeeds or fails half way, moves chunks.
LEMMA WriteOutType ==
  ASSUME wbuf \in Seq(Chunks), wire \in Seq(Chunks)
  PROVE  /\ WriteOut => wire' \in Seq(Chunks)
         /\ WriteOutFails => wbuf' \in Seq(Chunks) /\ wire' \in Seq(Chunks)
<1>1. WriteOut => wire' \in Seq(Chunks) BY SMTT(60) DEF WriteOut
<1>2. \A k \in 0 .. Len(wbuf) : /\ SubSeq(wbuf, k + 1, Len(wbuf)) \in Seq(Chunks)
                                /\ wire \o SubSeq(wbuf, 1, k) \in Seq(Chunks)
  BY SMTT(60)
<1>3. WriteOutFails => wbuf' \in Seq(Chunks) /\ wire' \in Seq(Chunks)
  BY ZenonT(60), <1>2 DEF WriteOutFails
<1> QED BY ZenonT(60), <1>1, <1>3

\* writePacket buffers chunks of its own packet and acknowledges that packet.
LEMMA WriteWriteType ==
  ASSUME WriteType, NEW p \in Procs, WriteStep(p), WriteEffect(p)
  PROVE  WriteType'
<1>0. /\ wbuf \in Seq(Chunks) /\ wire \in Seq(Chunks) /\ acked \subseteq Packets
      /\ pkt \in [Procs -> Packets] /\ pkt' = pkt /\ pkt[p] \in Packets
  BY ZenonT(60) DEF WriteType, WriteEffect, dataSide, callVars
<1>1. ASSUME NEW l, NEW next, NEW part \in {"meta", "body"}, WriteChunk(p, l, part, next)
      PROVE  WriteType'
  <2> DEFINE chunk == [pkt |-> pkt[p], part |-> part]
  <2>1. Append(wbuf, chunk) \in Seq(Chunks) /\ <<chunk>> \in Seq(Chunks)
    <3>1. chunk \in Chunks BY ZenonT(60), <1>0 DEF Chunks
    <3> QED BY SMTT(60), <1>0, <3>1, AppendProperties
  <2>2. acked' = acked BY ZenonT(60), <1>1 DEF WriteChunk
  <2> HIDE DEF chunk
  <2>3. CASE BufferedWrite(chunk)
    BY ZenonT(60), <1>0, <2>1, <2>2, <2>3, WriteOutType DEF BufferedWrite, WriteType
  <2>4. CASE BufferedWriteFails
    BY ZenonT(60), <1>0, <2>2, <2>4, WriteOutType DEF BufferedWriteFails, WriteType
  <2> QED BY ZenonT(60), <1>1, <2>3, <2>4 DEF WriteChunk, chunk
<1>2. CASE WriteMeta(p) BY ZenonT(60), <1>1, <1>2 DEF WriteMeta
<1>3. CASE WriteBody(p) BY ZenonT(60), <1>1, <1>3 DEF WriteBody
<1>4. CASE WriteSend(p)
  <2>1. UNCHANGED <<wbuf, wire>> /\ acked' = acked \cup {pkt[p]}
    BY ZenonT(60), <1>4 DEF WriteSend, WriteSucceeds
  <2> QED BY ZenonT(60), <1>0, <2>1 DEF WriteType
<1>5. CASE WriteLock(p) \/ WriteError(p)
  BY ZenonT(60), <1>0, <1>5 DEF WriteLock, WriteError, connSide, writeVars, WriteType
<1> QED BY ZenonT(60), <1>2, <1>3, <1>4, <1>5 DEF WriteStep

\* So do flush() and the last flush of close().
LEMMA FlushWriteType ==
  ASSUME WriteType, NEW p \in Procs, UNCHANGED <<acked, pkt>>,
         UNCHANGED <<wbuf, werr, wire>> \/ Flush(p) \/ CloseFlush(p)
  PROVE  WriteType'
<1>1. <<>> \in Seq(Chunks) BY SMTT(60)
<1>2. UNCHANGED <<wbuf, wire>> \/ (WriteOut /\ wbuf' = <<>>) \/ WriteOutFails
  BY ZenonT(60) DEF Flush, CloseFlush, DeadlineFails
<1> QED BY ZenonT(60), <1>1, <1>2, WriteOutType DEF WriteType

\* A new packet to send: a heartbeat, or that of a call.
LEMMA NewPacket ==
  ASSUME WriteType, UNCHANGED <<wbuf, wire, acked>>, NEW p \in Procs, NEW n \in Nat,
         NEW s \in 0 .. MaxStreams, NEW len \in {0, 1},
         pkt' = [pkt EXCEPT ![p] = [src |-> p, n |-> n + 1, st |-> s, len |-> len]]
  PROVE  WriteType'
<1>1. n + 1 \in Nat BY SMTT(60)
<1>2. [src |-> p, n |-> n + 1, st |-> s, len |-> len] \in Packets BY ZenonT(60), <1>1 DEF Packets
<1>3. pkt' \in [Procs -> Packets] BY ZenonT(60), <1>2 DEF WriteType
<1> QED BY ZenonT(60), <1>3 DEF WriteType

\* Every step keeps the types of the outgoing packets and of the buffers they are in.
LEMMA WriteTypeStep ==
  ASSUME Typed, WriteType, nstr \in 0 .. MaxStreams, Effects
  PROVE  WriteType'
<1>0. 0 \in 0 .. MaxStreams /\ 1 .. nstr \subseteq 0 .. MaxStreams BY SMTT(60), BoundsAssumption
<1>n. \A q \in Procs : calls[q] \in Nat BY ZenonT(60) DEF Typed, ProcType
<1>same. UNCHANGED <<wbuf, wire, acked, pkt>> => WriteType' BY ZenonT(60) DEF WriteType
<1>beat. ASSUME NEW p \in Procs, UNCHANGED <<wbuf, wire, acked>>,
                pkt' = pkt \/ pkt' = [pkt EXCEPT ![p] = Heartbeat(p, calls[p] + 1)]
         PROVE  WriteType'
  BY ZenonT(60), <1>0, <1>n, <1>same, <1>beat, NewPacket DEF Heartbeat
<1>1. ASSUME NEW p \in Procs, WriteStep(p), WriteEffect(p) PROVE WriteType'
  BY ZenonT(60), <1>1, WriteWriteType
<1>2. ASSUME NEW p \in Procs, Flush(p), FlushEffect(p) PROVE WriteType'
  BY ZenonT(60), <1>2, FlushWriteType DEF FlushEffect, dataSide, callVars
<1>3. ASSUME NEW p \in Procs, LoopEffect(p) PROVE WriteType'
  BY ZenonT(60), <1>3, <1>beat DEF LoopEffect
<1>4. ASSUME NEW p \in Procs, CloseFrame(p) PROVE WriteType'
  BY ZenonT(60), <1>4, FlushWriteType DEF CloseFrame, callVars
<1>5. CASE ReadFrame
  <2>1. "readLoop" \in Procs BY ZenonT(60) DEF Procs, Loops
  <2> QED BY ZenonT(60), <1>5, <1>beat, <2>1 DEF ReadFrame, writeVars
<1>6. ASSUME NEW p \in Users, UserFrame(p) PROVE WriteType'
  BY ZenonT(60), <1>6, <1>same DEF UserFrame, connSide, writeVars, callVars
<1>7. ASSUME NEW p \in Users, CallFrame(p) PROVE WriteType'
  <2>1. p \in Procs /\ {0} \cup 1 .. nstr \subseteq 0 .. MaxStreams BY ZenonT(60), <1>0 DEF Procs
  <2>2. UNCHANGED <<wbuf, wire, acked>> BY ZenonT(60), <1>7 DEF CallFrame, connSide, writeVars
  <2>3. ASSUME NEW s \in {0} \cup 1 .. nstr, NEW len \in {0, 1}, Outgoing(p, s, len) PROVE WriteType'
    BY ZenonT(60), <1>n, <2>1, <2>2, <2>3, NewPacket DEF Outgoing
  <2> QED BY ZenonT(60), <1>same, <1>7, <2>2, <2>3 DEF CallFrame
<1> QED BY ZenonT(60), <1>1, <1>2, <1>3, <1>4, <1>5, <1>6, <1>7 DEF Effects

-----------------------------------------------------------------------------
(* The streams.                                                            *)

\* What newStream makes, and what Push, Pop, close and a read of s.stale keep.
LEMMA StreamOps ==
  ASSUME NEW r \in GoodStreams
  PROVE  /\ \A i \in StreamIds : newStream(i) \in GoodStreams
         /\ \A x \in InPackets : ~r.closed /\ x.id = r.id => Enqueued(r, x) \in GoodStreams
         /\ ~r.closed /\ r.queue # <<>> => Dequeued(r) \in GoodStreams
         /\ ~r.closed => Ended(r) \in GoodStreams
         /\ r.closed /\ r.stale # <<>> => StaleTaken(r) \in GoodStreams
<1>r. /\ r.id \in StreamIds /\ r.closed \in BOOLEAN /\ r.queue \in Seq(InPackets)
      /\ r.stale \in Seq(InPackets) /\ r.pushed \in Seq(InPackets)
      /\ r.returned \in Seq(InPackets) /\ r.returned \o (r.stale \o r.queue) = r.pushed
      /\ \A k \in 1 .. Len(r.pushed) : r.pushed[k].id = r.id
      /\ ~r.closed => r.stale = <<>>
  BY ZenonT(60) DEF StreamRecords, GoodStreams
<1>q. r.queue \in Seq(InPackets) /\ r.stale \in Seq(InPackets) /\ r.returned \in Seq(InPackets)
  BY ZenonT(60), <1>r
<1>1. ASSUME NEW i \in StreamIds PROVE newStream(i) \in GoodStreams
  <2>1. newStream(i) \in StreamRecords BY ZenonT(60), QueueEmpty DEF newStream, StreamRecords
  <2>2. <<>> \o (<<>> \o <<>>) = <<>> BY ZenonT(60), QueueEmpty
  <2>3. 1 .. Len(<<>>) = {} BY SMTT(60), EmptySeq
  <2> QED BY ZenonT(60), <2>1, <2>2, <2>3 DEF newStream, GoodStreams
<1>2. ASSUME NEW x \in InPackets, ~r.closed, x.id = r.id PROVE Enqueued(r, x) \in GoodStreams
  <2>1. Append(r.queue, x) \in Seq(InPackets) /\ Append(r.pushed, x) \in Seq(InPackets)
    BY ZenonT(60), <1>r, QueueParts
  <2>2. Enqueued(r, x) \in StreamRecords
    BY ZenonT(60), <1>r, <2>1 DEF Enqueued, StreamRecords, GoodStreams
  <2>3. r.returned \o (r.stale \o Append(r.queue, x)) = Append(r.pushed, x)
    <3>1. r.returned \o (r.stale \o Append(r.queue, x)) = Append(r.returned \o (r.stale \o r.queue), x)
      BY ZenonT(60), <1>q, QueueAdd
    <3> QED BY ZenonT(60), <1>r, <3>1
  <2>4. \A k \in 1 .. Len(Append(r.pushed, x)) : Append(r.pushed, x)[k].id = r.id
    BY SMTT(60), <1>2, <1>r
  <2> QED BY ZenonT(60), <1>2, <2>2, <2>3, <2>4 DEF Enqueued, StreamRecords, GoodStreams
<1>3. ASSUME ~r.closed, r.queue # <<>> PROVE Dequeued(r) \in GoodStreams
  <2>1. Head(r.queue) \in InPackets /\ Tail(r.queue) \in Seq(InPackets)
    BY ZenonT(60), <1>3, <1>r, QueueParts
  <2>2. Append(r.returned, Head(r.queue)) \in Seq(InPackets) BY ZenonT(60), <1>r, <2>1, QueueParts
  <2>3. Dequeued(r) \in StreamRecords
    BY ZenonT(60), <1>r, <2>1, <2>2 DEF Dequeued, StreamRecords, GoodStreams
  <2>4. Append(r.returned, Head(r.queue)) \o (<<>> \o Tail(r.queue)) = r.pushed
    <3>1. Append(r.returned, Head(r.queue)) \o (Tail(r.queue) \o <<>>) = r.returned \o (r.queue \o <<>>)
      BY ZenonT(60), <1>3, <1>q, QueueTake, QueueEmpty
    <3> QED BY ZenonT(60), <1>3, <1>r, <2>1, <3>1, QueueEmpty
  <2> QED BY ZenonT(60), <1>3, <1>r, <2>3, <2>4 DEF Dequeued, StreamRecords, GoodStreams
<1>4. ASSUME ~r.closed PROVE Ended(r) \in GoodStreams
  <2>1. Ended(r) \in StreamRecords BY ZenonT(60), <1>r, QueueEmpty DEF Ended, StreamRecords, GoodStreams
  <2>2. r.returned \o (r.queue \o <<>>) = r.pushed BY ZenonT(60), <1>4, <1>r, QueueEmpty
  <2> QED BY ZenonT(60), <1>r, <2>1, <2>2 DEF Ended, StreamRecords, GoodStreams
<1>5. ASSUME r.closed, r.stale # <<>> PROVE StaleTaken(r) \in GoodStreams
  <2>1. Head(r.stale) \in InPackets /\ Tail(r.stale) \in Seq(InPackets)
    BY ZenonT(60), <1>5, <1>r, QueueParts
  <2>2. Append(r.returned, Head(r.stale)) \in Seq(InPackets) BY ZenonT(60), <1>r, <2>1, QueueParts
  <2>3. StaleTaken(r) \in StreamRecords
    BY ZenonT(60), <1>r, <2>1, <2>2 DEF StaleTaken, StreamRecords, GoodStreams
  <2>4. Append(r.returned, Head(r.stale)) \o (Tail(r.stale) \o r.queue) = r.pushed
    <3>1. Append(r.returned, Head(r.stale)) \o (Tail(r.stale) \o r.queue)
            = r.returned \o (r.stale \o r.queue)
      BY ZenonT(60), <1>5, <1>q, QueueTake
    <3> QED BY ZenonT(60), <1>r, <3>1
  <2> QED BY ZenonT(60), <1>5, <2>3, <2>4 DEF StaleTaken, StreamRecords, GoodStreams
<1> QED BY ZenonT(60), <1>1, <1>2, <1>3, <1>4, <1>5

\* What a step may do to the streams: allocate, keep the identity of those allocated,
\* never reopen one.
StreamsKept ==
  /\ strm' \in [Objects -> GoodStreams]
  /\ nstr' \in nstr .. MaxStreams
  /\ \A s \in 1 .. nstr : strm'[s].id = strm[s].id /\ (strm[s].closed => strm'[s].closed)

\* What the operations on a stream make of it.
StreamOp(r, q) ==
  \/ q = r
  \/ ~r.closed /\ \E x \in InPackets : x.id = r.id /\ q = Enqueued(r, x)
  \/ ~r.closed /\ r.queue # <<>> /\ q = Dequeued(r)
  \/ ~r.closed /\ q = Ended(r)
  \/ r.closed /\ r.stale # <<>> /\ q = StaleTaken(r)

\* A step allocates a stream or performs one operation on an allocated one.
StreamsMove ==
  /\ strm' = [s \in Objects |-> strm'[s]] /\ nstr' \in nstr .. MaxStreams
  /\ \A s \in Objects : s <= nstr => StreamOp(strm[s], strm'[s])
  /\ \A s \in Objects : s > nstr => strm'[s] = strm[s] \/ \E i \in StreamIds : strm'[s] = newStream(i)

\* Each kind of step does that to the streams.
LEMMA StreamMoves ==
  ASSUME StreamType, StreamInv, rbuf \in Seq(InPackets), Effects
  PROVE  StreamsMove
<1>n. /\ nstr \in 0 .. MaxStreams /\ nstr \in nstr .. MaxStreams
      /\ \A s \in 1 .. nstr : s \in Objects /\ s <= nstr
  BY SMTT(60), BoundsAssumption DEF StreamType, Objects
<1>le. \A s \in Objects : s > nstr => ~(s <= nstr) BY SMTT(60), <1>n DEF Objects
<1>t. strm \in [Objects -> GoodStreams] BY ZenonT(60) DEF StreamType
<1>kept. UNCHANGED <<nstr, strm>> => StreamsMove BY ZenonT(60), <1>n, <1>t DEF StreamsMove, StreamOp
<1>new. ASSUME NEW id \in StreamIds, Allocate(id) PROVE StreamsMove
  <2>1. nstr + 1 \in Objects /\ nstr' \in nstr .. MaxStreams /\ ~(nstr + 1 <= nstr)
    BY SMTT(60), <1>n, <1>new, BoundsAssumption DEF Allocate, Objects
  <2>2. /\ strm' = [s \in Objects |-> strm'[s]]
        /\ \A s \in Objects : strm'[s] = IF s = nstr + 1 THEN newStream(id) ELSE strm[s]
    BY ZenonT(60), <1>t, <1>new DEF Allocate
  <2> QED BY ZenonT(60), <2>1, <2>2 DEF StreamsMove, StreamOp
<1>upd. ASSUME NEW s \in 1 .. nstr, NEW r, nstr' = nstr, strm' = [strm EXCEPT ![s] = r],
               StreamOp(strm[s], r)
        PROVE  StreamsMove
  <2>1. /\ strm' = [t \in Objects |-> strm'[t]]
        /\ \A t \in Objects : strm'[t] = IF t = s THEN r ELSE strm[t]
    BY ZenonT(60), <1>n, <1>t, <1>upd
  <2>2. ASSUME NEW t \in Objects PROVE StreamOp(strm[t], strm'[t])
    <3>1. CASE t = s BY ZenonT(60), <1>upd, <2>1, <3>1
    <3>2. CASE t # s BY ZenonT(60), <2>1, <3>2 DEF StreamOp
    <3> QED BY ZenonT(60), <3>1, <3>2
  <2>3. \A t \in Objects : t > nstr => strm'[t] = strm[t] BY ZenonT(60), <1>n, <1>le, <2>1
  <2> QED BY ZenonT(60), <1>n, <1>upd, <2>1, <2>2, <2>3 DEF StreamsMove
<1>1. ASSUME NEW p \in Procs, WriteEffect(p) \/ FlushEffect(p) \/ LoopEffect(p) PROVE StreamsMove
  BY ZenonT(60), <1>1, <1>kept DEF WriteEffect, FlushEffect, LoopEffect, dataSide, streamVars
<1>2. ASSUME NEW p \in Procs, CloseFrame(p) PROVE StreamsMove
  <2>1. CASE CloseStreams(p)
    <3>1. \A s \in Range(streams) \ {0} : s \in 1 .. nstr
      BY SMTT(60) DEF Range, StreamType, StreamInv, TableInv
    <3> QED BY ZenonT(60), <1>kept, <1>upd, <2>1, <3>1 DEF CloseStreams, StreamOp
  <2> QED BY ZenonT(60), <1>2, <1>kept, <2>1 DEF CloseFrame
<1>3. CASE ReadFrame
  <2>0. rbuf # <<>> => Head(rbuf) \in InPackets /\ Head(rbuf).id \in StreamIds
    <3>1. rbuf # <<>> => Head(rbuf) \in InPackets BY ZenonT(60), QueueParts
    <3> QED BY ZenonT(60), <3>1 DEF InPackets
  <2> DEFINE s == cur["readLoop"]
  <2>1. CASE StreamEnd
    <3>1. s \in 1 .. nstr /\ nstr' = nstr BY ZenonT(60), <2>1 DEF StreamEnd, StreamInv, DispatchInv
    <3>2. CASE strm[s].closed
      <4>1. strm' = [strm EXCEPT ![s] = strm[s]] BY ZenonT(60), <2>1, <3>2 DEF StreamEnd
      <4> QED BY ZenonT(60), <1>upd, <3>1, <4>1 DEF StreamOp
    <3>3. CASE ~strm[s].closed
      <4>1. strm' = [strm EXCEPT ![s] = Ended(strm[s])] BY ZenonT(60), <2>1, <3>3 DEF StreamEnd
      <4> QED BY ZenonT(60), <1>upd, <3>1, <3>3, <4>1 DEF StreamOp
    <3> QED BY ZenonT(60), <3>2, <3>3
  <2>2. CASE StreamAdd
    BY ZenonT(60), <1>new, <2>0, <2>2 DEF StreamAdd, StreamInv, DispatchInv
  <2>3. CASE StreamPush
    <3>1. s \in 1 .. nstr /\ rbuf # <<>> /\ Head(rbuf).id = strm[s].id /\ nstr' = nstr
      BY ZenonT(60), <2>3 DEF StreamPush, StreamInv, DispatchInv
    <3>2. CASE strm[s].closed BY ZenonT(60), <1>kept, <2>3, <3>1, <3>2 DEF StreamPush
    <3>3. CASE ~strm[s].closed
      <4>1. strm' = [strm EXCEPT ![s] = Enqueued(strm[s], Head(rbuf))]
        BY ZenonT(60), <2>3, <3>3 DEF StreamPush
      <4> QED BY ZenonT(60), <1>upd, <2>0, <3>1, <3>3, <4>1 DEF StreamOp
    <3> QED BY ZenonT(60), <3>2, <3>3
  <2> QED BY ZenonT(60), <1>3, <1>kept, <2>1, <2>2, <2>3 DEF ReadFrame
<1>4. ASSUME NEW p \in Users, UserFrame(p) PROVE StreamsMove
  <2> DEFINE s == cur[p]
  <2>1. nstr' = nstr BY ZenonT(60), <1>4 DEF UserFrame
  <2>2. CASE StreamPop(p) /\ ~strm[s].closed
    <3>1. s \in 1 .. nstr BY ZenonT(60), <2>2 DEF StreamPop, StreamInv, StreamUserInv
    <3>2. strm[s].queue # <<>> /\ strm' = [strm EXCEPT ![s] = Dequeued(strm[s])]
      BY ZenonT(60), <2>2 DEF StreamPop
    <3> QED BY ZenonT(60), <1>upd, <2>1, <2>2, <3>1, <3>2 DEF StreamOp
  <2>3. CASE StreamStale(p) /\ strm[s].stale # <<>>
    <3>1. s \in 1 .. nstr /\ strm[s].closed BY ZenonT(60), <2>3 DEF StreamStale, StreamInv, StreamUserInv
    <3>2. strm' = [strm EXCEPT ![s] = StaleTaken(strm[s])] BY ZenonT(60), <2>3 DEF StreamStale
    <3> QED BY ZenonT(60), <1>upd, <2>1, <2>3, <3>1, <3>2 DEF StreamOp
  <2>4. CASE UNCHANGED strm BY ZenonT(60), <1>kept, <2>1, <2>4
  <2> QED BY ZenonT(60), <1>4, <2>2, <2>3, <2>4 DEF UserFrame, StreamPop, StreamStale
<1>5. ASSUME NEW p \in Users, CallFrame(p) PROVE StreamsMove
  <2>1. CASE CallNewStream(p) BY ZenonT(60), <1>new, <1>kept, <2>1 DEF CallNewStream
  <2>2. CASE CallStreamClose(p)
    BY ZenonT(60), <1>upd, <1>kept, <2>2 DEF CallStreamClose, Swapped, StreamOp
  <2> QED BY ZenonT(60), <1>5, <1>kept, <2>1, <2>2 DEF CallFrame
<1> QED BY ZenonT(60), <1>1, <1>2, <1>3, <1>4, <1>5 DEF Effects

\* The fields of a stream after each operation on it.
LEMMA StreamFields ==
  ASSUME NEW r \in StreamRecords, NEW x
  PROVE  /\ Enqueued(r, x).id = r.id /\ Enqueued(r, x).closed = r.closed
         /\ Dequeued(r).id = r.id /\ Dequeued(r).closed = r.closed
         /\ Ended(r).id = r.id /\ Ended(r).closed = TRUE
         /\ StaleTaken(r).id = r.id /\ StaleTaken(r).closed = r.closed
  BY ZenonT(60) DEF StreamRecords, Enqueued, Dequeued, Ended, StaleTaken

\* No step loses, reorders or reopens anything in a stream.
LEMMA StreamsStep ==
  ASSUME StreamType, StreamsMove
  PROVE  StreamsKept
<1>1. ASSUME NEW r \in GoodStreams, NEW q, StreamOp(r, q)
      PROVE  q \in GoodStreams /\ q.id = r.id /\ (r.closed => q.closed)
  <2>1. r \in StreamRecords BY ZenonT(60) DEF GoodStreams
  <2>2. ASSUME NEW x \in InPackets, ~r.closed, x.id = r.id
        PROVE  Enqueued(r, x) \in GoodStreams /\ Enqueued(r, x).id = r.id
    <3>1. Enqueued(r, x) \in GoodStreams BY ZenonT(60), <2>2, StreamOps
    <3>2. Enqueued(r, x).id = r.id BY ZenonT(60), <2>1, StreamFields
    <3> QED BY ZenonT(60), <3>1, <3>2
  <2>3. ~r.closed /\ r.queue # <<>> => Dequeued(r) \in GoodStreams /\ Dequeued(r).id = r.id
    BY ZenonT(60), <2>1, StreamOps, StreamFields
  <2>4. ~r.closed => Ended(r) \in GoodStreams /\ Ended(r).id = r.id
    BY ZenonT(60), <2>1, StreamOps, StreamFields
  <2>5. r.closed /\ r.stale # <<>> =>
          /\ StaleTaken(r) \in GoodStreams /\ StaleTaken(r).id = r.id
          /\ StaleTaken(r).closed = r.closed
    BY ZenonT(60), <2>1, StreamOps, StreamFields
  <2> QED BY ZenonT(60), <1>1, <2>2, <2>3, <2>4, <2>5 DEF StreamOp
<1>2. nstr \in 0 .. MaxStreams /\ strm \in [Objects -> GoodStreams] BY ZenonT(60) DEF StreamType
<1>3. ASSUME NEW s \in Objects PROVE strm'[s] \in GoodStreams
  <2>1. CASE s <= nstr BY ZenonT(60), <1>1, <1>2, <2>1 DEF StreamsMove
  <2>2. CASE s > nstr BY ZenonT(60), <1>2, <2>2, StreamOps DEF StreamsMove
  <2> QED BY SMTT(60), <1>2, <2>1, <2>2 DEF Objects
<1>4. strm' \in [Objects -> GoodStreams] BY ZenonT(60), <1>3 DEF StreamsMove
<1>5. \A s \in 1 .. nstr : s \in Objects /\ s <= nstr BY SMTT(60), <1>2, BoundsAssumption DEF Objects
<1>6. \A s \in 1 .. nstr : strm'[s].id = strm[s].id /\ (strm[s].closed => strm'[s].closed)
  BY ZenonT(60), <1>1, <1>2, <1>5 DEF StreamsMove
<1> QED BY ZenonT(60), <1>4, <1>6 DEF StreamsKept, StreamsMove

\* Its packets after each operation.
LEMMA StreamPackets ==
  ASSUME NEW r \in StreamRecords
  PROVE  /\ \A x : /\ Enqueued(r, x).stale = r.stale /\ Enqueued(r, x).queue = Append(r.queue, x)
                   /\ Enqueued(r, x).returned = r.returned
         /\ Dequeued(r).stale = r.stale /\ Dequeued(r).queue = Tail(r.queue)
         /\ Dequeued(r).returned = Append(r.returned, Head(r.queue))
         /\ Ended(r).stale = r.queue /\ Ended(r).queue = <<>> /\ Ended(r).returned = r.returned
         /\ StaleTaken(r).stale = Tail(r.stale) /\ StaleTaken(r).queue = r.queue
         /\ StaleTaken(r).returned = Append(r.returned, Head(r.stale))
  BY ZenonT(60) DEF StreamRecords, Enqueued, Dequeued, Ended, StaleTaken

\* The packets a reader of stream r has still to get, and how a step changes what it sees.
View(r) == r.stale \o r.queue
ViewKept(r, q) == View(q) = View(r) /\ q.returned = r.returned /\ q.closed = r.closed
ViewPut(r, q) ==
  /\ ~r.closed /\ \E x \in InPackets : View(q) = Append(View(r), x)
  /\ q.returned = r.returned /\ q.closed = r.closed
ViewTaken(r, q) ==
  /\ View(r) # <<>> /\ View(q) = Tail(View(r))
  /\ q.returned = Append(r.returned, Head(View(r))) /\ q.closed = r.closed
ViewSealed(r, q) == View(q) = View(r) /\ q.returned = r.returned /\ ~r.closed /\ q.closed = TRUE

\* Each operation changes it as an operation of a queue would.
LEMMA StreamViews ==
  ASSUME NEW r \in GoodStreams, NEW q, r.closed => r.queue = <<>>, StreamOp(r, q)
  PROVE  ViewKept(r, q) \/ ViewPut(r, q) \/ ViewTaken(r, q) \/ ViewSealed(r, q)
<1>r. /\ r \in StreamRecords /\ r.stale \in Seq(InPackets) /\ r.queue \in Seq(InPackets)
      /\ ~r.closed => r.stale = <<>>
  BY ZenonT(60) DEF GoodStreams, StreamRecords
<1>v. /\ ~r.closed => View(r) = r.queue
      /\ r.closed => View(r) = r.stale
  BY ZenonT(60), <1>r, QueueEmpty DEF View
<1>1. CASE q = r BY ZenonT(60), <1>1 DEF ViewKept
<1>2. ASSUME ~r.closed, NEW x \in InPackets, q = Enqueued(r, x) PROVE ViewPut(r, q)
  <2>1. q.stale = r.stale /\ q.queue = Append(r.queue, x) /\ q.returned = r.returned
    BY ZenonT(60), <1>r, <1>2, StreamPackets
  <2>2. q.closed = r.closed BY ZenonT(60), <1>r, <1>2, StreamFields
  <2>3. Append(r.queue, x) \in Seq(InPackets) BY ZenonT(60), <1>r, QueueParts
  <2>4. View(q) = Append(r.queue, x) BY ZenonT(60), <1>r, <1>2, <2>1, <2>3, QueueEmpty DEF View
  <2> QED BY ZenonT(60), <1>v, <1>2, <2>1, <2>2, <2>4 DEF ViewPut
<1>3. ASSUME ~r.closed, r.queue # <<>>, q = Dequeued(r) PROVE ViewTaken(r, q)
  <2>1. q.stale = r.stale /\ q.queue = Tail(r.queue) /\ q.returned = Append(r.returned, Head(r.queue))
    BY ZenonT(60), <1>r, <1>3, StreamPackets
  <2>2. q.closed = r.closed BY ZenonT(60), <1>r, <1>3, StreamFields
  <2>3. Tail(r.queue) \in Seq(InPackets) BY ZenonT(60), <1>r, <1>3, QueueParts
  <2>4. View(q) = Tail(r.queue) BY ZenonT(60), <1>r, <1>3, <2>1, <2>3, QueueEmpty DEF View
  <2> QED BY ZenonT(60), <1>v, <1>3, <2>1, <2>2, <2>4 DEF ViewTaken
<1>4. ASSUME ~r.closed, q = Ended(r) PROVE ViewSealed(r, q)
  <2>1. q.stale = r.queue /\ q.queue = <<>> /\ q.returned = r.returned
    BY ZenonT(60), <1>r, <1>4, StreamPackets
  <2>2. q.closed = TRUE BY ZenonT(60), <1>r, <1>4, StreamFields
  <2>3. View(q) = r.queue BY ZenonT(60), <1>r, <2>1, QueueEmpty DEF View
  <2> QED BY ZenonT(60), <1>v, <1>4, <2>1, <2>2, <2>3 DEF ViewSealed
<1>5. ASSUME r.closed, r.stale # <<>>, q = StaleTaken(r) PROVE ViewTaken(r, q)
  <2>1. q.stale = Tail(r.stale) /\ q.queue = <<>> /\ q.returned = Append(r.returned, Head(r.stale))
    BY ZenonT(60), <1>r, <1>5, StreamPackets
  <2>2. q.closed = r.closed BY ZenonT(60), <1>r, <1>5, StreamFields
  <2>3. Tail(r.stale) \in Seq(InPackets) BY ZenonT(60), <1>r, <1>5, QueueParts
  <2>4. View(q) = Tail(r.stale) BY ZenonT(60), <2>1, <2>3, QueueEmpty DEF View
  <2> QED BY ZenonT(60), <1>v, <1>5, <2>1, <2>2, <2>4 DEF ViewTaken
<1> QED BY ZenonT(60), <1>1, <1>2, <1>3, <1>4, <1>5 DEF StreamOp

\* Every step keeps what the refinement of PacketQueue by the streams needs.
LEMMA ReaderStep ==
  ASSUME StreamType, StreamInv, ReaderInv, StreamsMove, ToldMove, ReadsOnly'
  PROVE  ReaderInv'
<1>n. nstr \in 0 .. MaxStreams /\ nstr' \in nstr .. MaxStreams /\ Objects \subseteq Int
  BY SMTT(60) DEF StreamType, StreamsMove, Objects
<1>t. strm \in [Objects -> StreamRecords] BY ZenonT(60) DEF StreamType, GoodStreams
<1>o. \A s \in Objects : s <= nstr \/ s > nstr BY SMTT(60), <1>n
<1>1. ASSUME NEW s \in Objects, s > nstr' PROVE \E i \in StreamIds : strm'[s] = newStream(i)
  <2>1. s > nstr BY SMTT(60), <1>n, <1>1
  <2> QED BY ZenonT(60), <2>1 DEF StreamsMove, ReaderInv
<1>2. ASSUME NEW s \in Objects, strm'[s].closed PROVE strm'[s].queue = <<>>
  <2>1. strm[s] \in StreamRecords /\ (strm[s].closed => strm[s].queue = <<>>)
    BY ZenonT(60), <1>t DEF ReaderInv
  <2>2. CASE s <= nstr
    <3>1. StreamOp(strm[s], strm'[s]) BY ZenonT(60), <2>2 DEF StreamsMove
    <3>2. /\ \A x \in InPackets : Enqueued(strm[s], x).closed = strm[s].closed
          /\ Dequeued(strm[s]).closed = strm[s].closed /\ Ended(strm[s]).queue = <<>>
          /\ StaleTaken(strm[s]).queue = strm[s].queue
      BY ZenonT(60), <2>1, StreamFields, StreamPackets
    <3> QED BY ZenonT(60), <1>2, <2>1, <3>1, <3>2 DEF StreamOp
  <2>3. CASE s > nstr
    <3>1. \A i \in StreamIds : newStream(i).queue = <<>> BY ZenonT(60) DEF newStream
    <3> QED BY ZenonT(60), <1>2, <2>1, <2>3, <3>1 DEF StreamsMove
  <2> QED BY ZenonT(60), <1>o, <2>2, <2>3
<1>3. ASSUME NEW s \in Objects, s <= nstr, strm[s].closed PROVE s <= nstr' /\ strm'[s].closed
  <2>1. s <= nstr' BY SMTT(60), <1>n, <1>3
  <2>2. StreamOp(strm[s], strm'[s]) /\ strm[s] \in StreamRecords BY ZenonT(60), <1>t, <1>3 DEF StreamsMove
  <2>3. strm'[s].closed BY ZenonT(60), <1>3, <2>2, StreamFields DEF StreamOp
  <2> QED BY ZenonT(60), <2>1, <2>3
<1>4. ASSUME NEW s \in Objects, Told(s)' # {} PROVE s <= nstr' /\ strm'[s].closed
  <2>1. Told(s) # {} \/ \E p \in Users : pc[p] = "SStale" /\ s = cur[p] BY ZenonT(60), <1>4 DEF ToldMove
  <2>2. CASE Told(s) # {} BY ZenonT(60), <1>3, <2>2 DEF ReaderInv
  <2>3. CASE \E p \in Users : pc[p] = "SStale" /\ s = cur[p]
    <3>1. s \in 1 .. nstr /\ strm[s].closed BY ZenonT(60), <2>3 DEF StreamInv, StreamUserInv
    <3>2. s <= nstr BY SMTT(60), <1>n, <3>1
    <3> QED BY ZenonT(60), <1>3, <3>1, <3>2
  <2> QED BY ZenonT(60), <2>1, <2>2, <2>3
<1> QED BY ZenonT(60), <1>1, <1>2, <1>4 DEF ReaderInv

\* The packets received, whatever the step.
LEMMA QueueStep ==
  ASSUME Control, StreamInv, QueueInv, Effects
  PROVE  QueueInv'
<1>1. ASSUME NEW p \in Procs, WriteEffect(p) \/ FlushEffect(p) \/ LoopEffect(p) PROVE QueueInv'
  BY ZenonT(60), <1>1, QueueKept DEF WriteEffect, FlushEffect, LoopEffect, dataSide
<1>2. ASSUME NEW p \in Users, CallFrame(p) PROVE QueueInv' BY ZenonT(60), <1>2, QueueKept DEF CallFrame
<1> QED BY ZenonT(60), <1>1, <1>2, CloseQueue, ReadQueueStep, UserQueue DEF Effects, StreamInv

\* A step keeps the types of the stream table and of the streams in use.
LEMMA StreamTypeStep ==
  ASSUME StreamType, StreamInv, rbuf \in Seq(InPackets), StreamsKept, Effects
  PROVE  StreamType'
<1>t. /\ handler \in BOOLEAN /\ streams \in [StreamIds -> 0 .. MaxStreams]
      /\ cur \in [Procs -> 0 .. MaxStreams]
  BY ZenonT(60) DEF StreamType
<1>n. nstr' \in 0 .. MaxStreams /\ strm' \in [Objects -> GoodStreams]
  BY SMTT(60) DEF StreamsKept, StreamType
<1>0. 0 \in 0 .. MaxStreams /\ 1 .. nstr \subseteq 0 .. MaxStreams /\ "readLoop" \in Procs
  BY SMTT(60), BoundsAssumption DEF StreamType, Procs, Loops
<1>id. rbuf # <<>> => Head(rbuf).id \in StreamIds
  <2>1. rbuf # <<>> => Head(rbuf) \in InPackets BY ZenonT(60), QueueParts
  <2> QED BY ZenonT(60), <2>1 DEF InPackets
<1>loop. pc["readLoop"] \in {"Lookup", "DropStream", "AddStream"} => Head(rbuf).id \in StreamIds
  BY ZenonT(60), <1>id DEF StreamInv, DispatchInv
<1>alloc. ASSUME NEW i \in StreamIds, Allocate(i)
          PROVE  nstr + 1 \in 0 .. MaxStreams /\ streams' \in [StreamIds -> 0 .. MaxStreams]
  <2>1. nstr + 1 \in 0 .. MaxStreams BY SMTT(60), <1>alloc, BoundsAssumption DEF Allocate, StreamType
  <2> QED BY ZenonT(60), <1>t, <1>alloc, <2>1 DEF Allocate
<1>all. streams' \in [StreamIds -> 0 .. MaxStreams] /\ cur' \in [Procs -> 0 .. MaxStreams]
          /\ handler' \in BOOLEAN => StreamType'
  BY ZenonT(60), <1>n DEF StreamType
<1>1. ASSUME NEW p \in Procs, WriteEffect(p) \/ FlushEffect(p) \/ LoopEffect(p) \/ CloseFrame(p)
      PROVE  StreamType'
  <2>1. UNCHANGED <<handler, streams, cur>>
    BY ZenonT(60), <1>1
       DEF WriteEffect, FlushEffect, LoopEffect, CloseFrame, dataSide, streamVars, callVars
  <2> QED BY ZenonT(60), <1>t, <1>all, <2>1
<1>2. CASE ReadFrame
  <2>1. streams' \in [StreamIds -> 0 .. MaxStreams]
    <3>1. CASE StreamDrop BY ZenonT(60), <1>t, <1>0, <1>loop, <3>1 DEF StreamDrop
    <3>2. CASE StreamAdd BY ZenonT(60), <1>loop, <1>alloc, <3>2 DEF StreamAdd
    <3> QED BY ZenonT(60), <1>t, <1>2, <3>1, <3>2 DEF ReadFrame
  <2>2. cur' \in [Procs -> 0 .. MaxStreams]
    <3>1. CASE StreamLookup BY ZenonT(60), <1>t, <1>0, <1>loop, <3>1 DEF StreamLookup
    <3>2. CASE StreamAdd BY ZenonT(60), <1>t, <1>0, <1>loop, <1>alloc, <3>2 DEF StreamAdd
    <3> QED BY ZenonT(60), <1>t, <1>2, <3>1, <3>2 DEF ReadFrame
  <2> QED BY ZenonT(60), <1>t, <1>2, <1>all, <2>1, <2>2 DEF ReadFrame
<1>3. ASSUME NEW p \in Users, UserFrame(p) PROVE StreamType'
  <2>1. CASE StreamDelete(p)
    <3>1. cur[p] \in 1 .. nstr BY ZenonT(60), <2>1 DEF StreamDelete, StreamInv, StreamUserInv
    <3>2. cur[p] \in Objects BY SMTT(60), <3>1, BoundsAssumption DEF StreamType, Objects
    <3>3. strm[cur[p]] \in StreamRecords BY ZenonT(60), <3>2 DEF StreamType, GoodStreams
    <3>4. strm[cur[p]].id \in StreamIds BY ZenonT(60), <3>3 DEF StreamRecords
    <3> QED BY ZenonT(60), <1>t, <1>0, <1>3, <1>all, <2>1, <3>4 DEF StreamDelete, UserFrame, callVars
  <2> QED BY ZenonT(60), <1>t, <1>3, <1>all, <2>1 DEF UserFrame, callVars
<1>4. ASSUME NEW p \in Users, CallFrame(p) PROVE StreamType'
  <2>1. streams' \in [StreamIds -> 0 .. MaxStreams]
    BY ZenonT(60), <1>t, <1>4, <1>alloc DEF CallFrame, CallNewStream
  <2>2. cur' \in [Procs -> 0 .. MaxStreams] BY ZenonT(60), <1>t, <1>0, <1>4 DEF CallFrame
  <2> QED BY ZenonT(60), <1>t, <1>4, <1>all, <2>1, <2>2 DEF CallFrame
<1> QED BY ZenonT(60), <1>1, <1>2, <1>3, <1>4 DEF Effects

\* A step keeps the part of the invariant that ties the goroutines to the streams.
LEMMA StreamInvStep ==
  ASSUME Typed, StreamType, StreamInv, rbuf \in Seq(InPackets), StreamsKept, Effects
  PROVE  StreamInv'
<1>n. nstr \in 0 .. MaxStreams /\ nstr' \in nstr .. MaxStreams /\ 1 .. nstr \subseteq 1 .. nstr'
  BY SMTT(60) DEF StreamType, StreamsKept
<1>kept. \A s \in 1 .. nstr : s \in 1 .. nstr' /\ strm'[s].id = strm[s].id
                              /\ (strm[s].closed => strm'[s].closed)
  BY ZenonT(60), <1>n DEF StreamsKept
<1>tab. \A i \in StreamIds : /\ streams[i] \in 0 .. MaxStreams /\ streams[i] <= nstr
                             /\ streams[i] # 0 => strm[streams[i]].id = i /\ streams[i] \in 1 .. nstr
  BY SMTT(60) DEF StreamType, StreamInv, TableInv
<1>le. \A i \in StreamIds : streams[i] <= nstr' /\ 0 <= nstr' BY SMTT(60), <1>n, <1>tab
<1>old. \A i \in StreamIds : streams[i] # 0 => strm'[streams[i]].id = i BY ZenonT(60), <1>kept, <1>tab
<1>table. streams' = streams => TableInv' BY ZenonT(60), <1>le, <1>old DEF TableInv
<1>drop. ASSUME NEW id, streams' = [streams EXCEPT ![id] = 0] PROVE TableInv'
  <2>1. \A i \in StreamIds : streams'[i] = streams[i] \/ streams'[i] = 0
    BY ZenonT(60), <1>drop DEF StreamType
  <2> QED BY ZenonT(60), <1>le, <1>old, <2>1 DEF TableInv
<1>alloc. ASSUME NEW id \in StreamIds, Allocate(id)
          PROVE  TableInv' /\ nstr + 1 \in 1 .. nstr' /\ strm'[nstr + 1].id = id
  <2>1. nstr + 1 \in Objects /\ nstr + 1 \in 1 .. nstr' /\ nstr + 1 <= nstr'
    BY SMTT(60), <1>n, <1>alloc, BoundsAssumption DEF Allocate, Objects
  <2>2. strm'[nstr + 1].id = id BY ZenonT(60), <1>alloc, <2>1 DEF Allocate, newStream, StreamType
  <2>3. \A i \in StreamIds : streams'[i] = IF i = id THEN nstr + 1 ELSE streams[i]
    BY ZenonT(60), <1>alloc DEF Allocate, StreamType
  <2>4. \A i \in StreamIds : streams'[i] <= nstr' BY ZenonT(60), <1>le, <2>1, <2>3
  <2>5. \A i \in StreamIds : streams'[i] # 0 => strm'[streams'[i]].id = i
    BY ZenonT(60), <1>old, <2>2, <2>3
  <2> QED BY ZenonT(60), <2>1, <2>2, <2>4, <2>5 DEF TableInv
<1>loop. (/\ UNCHANGED rbuf /\ pc'["readLoop"] = pc["readLoop"]
          /\ cur'["readLoop"] = cur["readLoop"]) => DispatchInv'
  BY ZenonT(60), <1>kept DEF StreamInv, DispatchInv
<1>user. \A u \in Users :
           pc'[u] = pc[u] /\ op'[u] = op[u] /\ cur'[u] = cur[u] => StreamUserInv(u)'
  BY ZenonT(60), <1>kept DEF StreamInv, StreamUserInv
<1>name. "readLoop" \in Procs /\ "readLoop" \notin Users /\ \A u \in Users : u \in Procs
  BY ZenonT(60), UsersAssumption DEF Procs, Loops
<1>away. pc'["readLoop"] \notin {"Lookup", "EndStream", "DropStream", "AddStream", "PushStream"}
           => DispatchInv'
  BY ZenonT(60) DEF DispatchInv
\* A step of one goroutine that leaves the table alone.
<1>own. ASSUME NEW p \in Procs, UNCHANGED <<streams, rbuf, cur, op>>, Moves(p), pc[p] # "Idle",
               pc'[p] \notin {"Lookup", "EndStream", "DropStream", "AddStream", "PushStream", "SPop"},
               pc'[p] = "SStale" => pc[p] = "SPop" /\ strm[cur[p]].closed,
               pc'[p] = "KDelete" => op[p] = "StreamClose"
        PROVE  StreamInv'
  <2>1. DispatchInv' BY ZenonT(60), <1>name, <1>loop, <1>away, <1>own DEF Moves
  <2>2. ASSUME p \in Users PROVE StreamUserInv(p)'
    BY ZenonT(60), <1>own, <1>kept, <2>2 DEF StreamInv, StreamUserInv
  <2>3. \A u \in Users : u # p => StreamUserInv(u)' BY ZenonT(60), <1>name, <1>own, <1>user DEF Moves
  <2> QED BY ZenonT(60), <1>table, <1>own, <2>1, <2>2, <2>3 DEF StreamInv
<1>1. ASSUME NEW p \in Procs, WriteEffect(p) \/ FlushEffect(p) \/ LoopEffect(p) PROVE StreamInv'
  <2>1. UNCHANGED <<streams, rbuf, cur, op>>
    BY ZenonT(60), <1>1 DEF WriteEffect, FlushEffect, LoopEffect, dataSide, inVars, streamVars, callVars
  <2>2. Moves(p) /\ pc[p] # "Idle" /\ (pc'[p] = "KDelete" => op[p] = "StreamClose")
    BY ZenonT(60), <1>1 DEF WriteEffect, FlushEffect, LoopEffect, WriterPCs
  <2>3. pc'[p] \notin {"Lookup", "EndStream", "DropStream", "AddStream", "PushStream", "SPop", "SStale"}
    BY ZenonT(60), <1>1 DEF WriteEffect, FlushEffect, LoopEffect, WriterPCs, Procs
  <2> QED BY ZenonT(60), <1>own, <2>1, <2>2, <2>3
<1>2. ASSUME NEW p \in Procs, CloseFrame(p), CloseEffect(p) PROVE StreamInv'
  <2>1. UNCHANGED <<streams, rbuf, cur, op>> BY ZenonT(60), <1>2 DEF CloseFrame, inVars, callVars
  <2>2. Moves(p) /\ pc[p] # "Idle" /\ (pc'[p] = "KDelete" => op[p] = "StreamClose")
    BY ZenonT(60), <1>2 DEF CloseEffect, InClose, PostSwap
  <2>3. pc'[p] \notin {"Lookup", "EndStream", "DropStream", "AddStream", "PushStream", "SPop", "SStale"}
    BY ZenonT(60), <1>2 DEF CloseEffect, InClose, PostSwap, Procs
  <2> QED BY ZenonT(60), <1>own, <2>1, <2>2, <2>3
<1>3. CASE ReadLoopStep /\ ReadFrame /\ ReadEffect
  <2>p. \A l \in Labels : Goto("readLoop", l) => pc'["readLoop"] = l
    BY ZenonT(60), <1>name DEF Goto, Typed
  <2>users. \A u \in Users : StreamUserInv(u)'
    <3>1. \A u \in Users : pc'[u] = pc[u] /\ op'[u] = op[u]
      BY ZenonT(60), <1>name, <1>3 DEF ReadFrame, ReadEffect, Moves
    <3>2. \A u \in Users : cur'[u] = cur[u]
      <4>1. cur' = cur \/ \E s : cur' = [cur EXCEPT !["readLoop"] = s]
        BY ZenonT(60), <1>3 DEF ReadFrame, StreamLookup, StreamAdd
      <4> QED BY ZenonT(60), <1>name, <4>1 DEF StreamType
    <3> QED BY ZenonT(60), <1>user, <3>1, <3>2
  <2>id. rbuf # <<>> => Head(rbuf).id \in StreamIds
    <3>1. rbuf # <<>> => Head(rbuf) \in InPackets BY ZenonT(60), QueueParts
    <3> QED BY ZenonT(60), <3>1 DEF InPackets
  <2>0. /\ pc["readLoop"] \in {"Lookup", "EndStream", "DropStream", "AddStream", "PushStream"} => rbuf # <<>>
        /\ pc["readLoop"] \in {"EndStream", "PushStream"} => cur["readLoop"] \in 1 .. nstr
    BY ZenonT(60) DEF StreamInv, DispatchInv
  <2>1. CASE ReadArm \/ ReadConn
    <3>1. streams' = streams BY ZenonT(60), <2>1 DEF ReadArm, ReadConn, dataSide, streamVars
    <3>2. pc'["readLoop"] \in {"Read", "Next", "Done"}
      BY ZenonT(60), <1>name, <2>1 DEF ReadArm, ReadConn, FailLoop, Goto, Typed
    <3> QED BY ZenonT(60), <1>table, <1>away, <2>users, <3>1, <3>2 DEF StreamInv
  <2>2. CASE ReadNext
    <3>1. streams' = streams BY ZenonT(60), <2>2 DEF ReadNext, streamVars
    <3>2. \/ pc'["readLoop"] \in {"Arm", "Done", "WLock", "Next"}
          \/ pc'["readLoop"] = "Lookup" /\ rbuf # <<>> /\ rbuf' = rbuf
      BY ZenonT(60), <1>name, <2>2 DEF ReadNext, FailLoop, Goto, Typed
    <3>3. DispatchInv' BY ZenonT(60), <3>2 DEF DispatchInv
    <3> QED BY ZenonT(60), <1>table, <2>users, <3>1, <3>3 DEF StreamInv
  <2>3. CASE StreamLookup
    <3> DEFINE s == streams[Head(rbuf).id]
    <3>1. rbuf # <<>> /\ (s # 0 => s \in 1 .. nstr /\ strm[s].id = Head(rbuf).id)
      BY ZenonT(60), <1>tab, <2>id, <2>0, <2>3 DEF StreamLookup
    <3>2. streams' = streams /\ cur'["readLoop"] = s
      BY ZenonT(60), <1>name, <2>3 DEF StreamLookup, streamVars, StreamType
    <3>3. \/ rbuf' = rbuf /\ s # 0 /\ pc'["readLoop"] \in {"EndStream", "PushStream"}
          \/ rbuf' = rbuf /\ pc'["readLoop"] = "AddStream"
          \/ pc'["readLoop"] = "Next"
      BY ZenonT(60), <1>name, <2>3 DEF StreamLookup, Goto, Typed
    <3> HIDE DEF s
    <3>4. DispatchInv' BY ZenonT(60), <1>kept, <3>1, <3>2, <3>3 DEF DispatchInv
    <3> QED BY ZenonT(60), <1>table, <2>users, <3>2, <3>4 DEF StreamInv
  <2>4. CASE StreamEnd
    <3>1. streams' = streams /\ rbuf' = rbuf /\ rbuf # <<>>
      BY ZenonT(60), <2>0, <2>4 DEF StreamEnd, inVars
    <3>2. pc'["readLoop"] = "DropStream" BY ZenonT(60), <1>name, <2>4 DEF StreamEnd, Goto, Typed
    <3>3. DispatchInv' BY ZenonT(60), <3>1, <3>2 DEF DispatchInv
    <3> QED BY ZenonT(60), <1>table, <2>users, <3>1, <3>3 DEF StreamInv
  <2>5. CASE StreamDrop
    <3>1. pc'["readLoop"] = "Next" BY ZenonT(60), <1>name, <2>5 DEF StreamDrop, Goto, Typed
    <3>2. TableInv' BY ZenonT(60), <1>drop, <2>5 DEF StreamDrop
    <3> QED BY ZenonT(60), <1>away, <2>users, <3>1, <3>2 DEF StreamInv
  <2>6. CASE StreamAdd
    <3>1. rbuf # <<>> /\ Head(rbuf).id \in StreamIds BY ZenonT(60), <2>id, <2>0, <2>6 DEF StreamAdd
    <3>2. pc'["readLoop"] = "PushStream" /\ cur'["readLoop"] = nstr + 1 /\ rbuf' = rbuf
      BY ZenonT(60), <1>name, <2>6 DEF StreamAdd, Goto, inVars, Typed, StreamType
    <3>3. TableInv' /\ nstr + 1 \in 1 .. nstr' /\ strm'[nstr + 1].id = Head(rbuf).id
      BY ZenonT(60), <1>alloc, <2>6, <3>1 DEF StreamAdd
    <3>4. DispatchInv' BY ZenonT(60), <3>1, <3>2, <3>3 DEF DispatchInv
    <3> QED BY ZenonT(60), <2>users, <3>3, <3>4 DEF StreamInv
  <2>7. CASE StreamPush
    <3>1. streams' = streams BY ZenonT(60), <2>7 DEF StreamPush
    <3>2. pc'["readLoop"] \in {"Next", "Done"}
      BY ZenonT(60), <1>name, <2>7 DEF StreamPush, FailLoop, Goto, Typed
    <3> QED BY ZenonT(60), <1>table, <1>away, <2>users, <3>1, <3>2 DEF StreamInv
  <2> QED BY ZenonT(60), <1>3, <2>1, <2>2, <2>3, <2>4, <2>5, <2>6, <2>7 DEF ReadLoopStep
<1>4. ASSUME NEW p \in Users, UserFrame(p), UserEffect(p) PROVE StreamInv'
  <2>1. UNCHANGED <<rbuf, cur, op>> /\ Moves(p) /\ pc[p] # "Idle"
    BY ZenonT(60), <1>4 DEF UserFrame, UserEffect, inVars, callVars
  <2>2. pc'[p] \in {"Idle", "RStale", "SStale"} /\ (pc'[p] = "SStale" => pc[p] = "SPop" /\ strm[cur[p]].closed)
    BY ZenonT(60), <1>4 DEF UserEffect
  <2>3. CASE streams' = streams BY ZenonT(60), <1>name, <1>own, <2>1, <2>2, <2>3
  <2>4. CASE StreamDelete(p)
    <3>1. pc'[p] = "Idle" BY ZenonT(60), <1>name, <2>4 DEF StreamDelete, Goto, Typed
    <3>2. TableInv' BY ZenonT(60), <1>drop, <2>4 DEF StreamDelete
    <3>3. StreamUserInv(p)' BY ZenonT(60), <3>1 DEF StreamUserInv
    <3>4. \A u \in Users : u # p => StreamUserInv(u)' BY ZenonT(60), <1>name, <1>user, <2>1 DEF Moves
    <3>5. DispatchInv' BY ZenonT(60), <1>loop, <1>name, <2>1 DEF Moves
    <3> QED BY ZenonT(60), <3>2, <3>3, <3>4, <3>5 DEF StreamInv
  <2> QED BY ZenonT(60), <1>4, <2>3, <2>4 DEF UserFrame
<1>5. ASSUME NEW p \in Users, CallFrame(p), CallEffect(p) PROVE StreamInv'
  <2>1. TableInv' BY ZenonT(60), <1>5, <1>table, <1>alloc DEF CallFrame, CallNewStream
  <2>2. /\ \A q \in Procs : q # p => pc'[q] = pc[q] /\ op'[q] = op[q] /\ cur'[q] = cur[q]
        /\ rbuf' = rbuf
    BY ZenonT(60), <1>5 DEF CallFrame, CallEffect, Moves, inVars
  <2>3. DispatchInv' BY ZenonT(60), <1>loop, <1>name, <2>2
  <2>4. \A u \in Users : u # p => StreamUserInv(u)' BY ZenonT(60), <1>name, <1>user, <2>2
  <2>5. /\ pc'[p] # "KDelete"
        /\ pc'[p] \in {"SPop", "SStale"} => cur'[p] \in 1 .. nstr
        /\ pc'[p] = "SStale" => strm[cur'[p]].closed
        /\ pc'[p] # "Idle" /\ op'[p] = "StreamClose" => cur'[p] \in 1 .. nstr
    BY ZenonT(60), <1>5 DEF CallEffect
  <2>6. StreamUserInv(p)' BY ZenonT(60), <1>kept, <2>5 DEF StreamUserInv
  <2> QED BY ZenonT(60), <2>1, <2>3, <2>4, <2>6 DEF StreamInv
<1> QED BY ZenonT(60), <1>1, <1>2, <1>3, <1>4, <1>5 DEF Effects

-----------------------------------------------------------------------------
(* The packets written.                                                    *)

\* Chunks that are written out, or kept after a write that failed half way, stay in order.
LEMMA OutParts ==
  ASSUME NEW w \in Seq(Chunks), NEW b \in Seq(Chunks)
  PROVE  /\ (w \o b) \o <<>> = w \o b /\ w \o b \in Seq(Chunks)
         /\ \A c \in Chunks : w \o Append(b, c) = Append(w \o b, c) /\ (w \o b) \o <<c>> = Append(w \o b, c)
         /\ \A k \in 0 .. Len(b) : (w \o SubSeq(b, 1, k)) \o SubSeq(b, k + 1, Len(b)) = w \o b
<1>1. (w \o b) \o <<>> = w \o b /\ w \o b \in Seq(Chunks) BY SMTT(60)
<1>2. ASSUME NEW c \in Chunks PROVE w \o Append(b, c) = Append(w \o b, c) BY SMTT(60)
<1>3. ASSUME NEW c \in Chunks PROVE (w \o b) \o <<c>> = Append(w \o b, c) BY SMTT(60)
<1>4. ASSUME NEW k \in 0 .. Len(b)
      PROVE  (w \o SubSeq(b, 1, k)) \o SubSeq(b, k + 1, Len(b)) = w \o b
  <2>1. SubSeq(b, 1, k) \in Seq(Chunks) /\ SubSeq(b, k + 1, Len(b)) \in Seq(Chunks)
    BY ZenonT(60), SplitSeq
  <2>2. SubSeq(b, 1, k) \o SubSeq(b, k + 1, Len(b)) = b
    <3>1. 1 \in 1 .. Len(b) + 1 /\ k \in 1 - 1 .. Len(b) /\ Len(b) \in k .. Len(b) BY SMTT(60)
    <3>2. SubSeq(b, 1, k) \o SubSeq(b, k + 1, Len(b)) = SubSeq(b, 1, Len(b))
      BY ZenonT(60), <3>1, ConcatAdjacentSubSeq
    <3> QED BY ZenonT(60), <3>2, SubSeqFull
  <2>3. (w \o SubSeq(b, 1, k)) \o SubSeq(b, k + 1, Len(b)) = w \o (SubSeq(b, 1, k) \o SubSeq(b, k + 1, Len(b)))
    <3> DEFINE x == SubSeq(b, 1, k)  y == SubSeq(b, k + 1, Len(b))
    <3>1. x \in Seq(Chunks) /\ y \in Seq(Chunks) BY ZenonT(60), <2>1
    <3> HIDE DEF x, y
    <3>2. (w \o x) \o y = w \o (x \o y) BY SMTT(60), <3>1
    <3> QED BY ZenonT(60), <3>2 DEF x, y
  <2> QED BY ZenonT(60), <2>2, <2>3
<1> QED BY ZenonT(60), <1>1, <1>2, <1>3, <1>4

\* Writing out moves chunks; a buffered write adds one.
LEMMA OutMoves ==
  ASSUME WriteType
  PROVE  /\ Out \in Seq(Chunks)
         /\ UNCHANGED <<wire, wbuf>> => Out' = Out
         /\ WriteOut /\ wbuf' = <<>> => Out' = Out
         /\ WriteOutFails => Out' = Out
         /\ \A c \in Chunks : BufferedWrite(c) => Out' = Append(Out, c)
<1>0. wire \in Seq(Chunks) /\ wbuf \in Seq(Chunks) BY ZenonT(60) DEF WriteType
<1>1. Out \in Seq(Chunks) BY ZenonT(60), <1>0, OutParts DEF Out
<1>2. UNCHANGED <<wire, wbuf>> => Out' = Out BY ZenonT(60) DEF Out
<1>3. WriteOut /\ wbuf' = <<>> => Out' = Out
  <2>1. (wire \o wbuf) \o <<>> = wire \o wbuf BY ZenonT(60), <1>0, OutParts
  <2> QED BY ZenonT(60), <2>1 DEF Out, WriteOut
<1>4. WriteOutFails => Out' = Out
  <2>1. \A k \in 0 .. Len(wbuf) : (wire \o SubSeq(wbuf, 1, k)) \o SubSeq(wbuf, k + 1, Len(wbuf)) = wire \o wbuf
    BY ZenonT(60), <1>0, OutParts
  <2> QED BY ZenonT(60), <1>2, <2>1 DEF Out, WriteOutFails
<1>5. ASSUME NEW c \in Chunks, BufferedWrite(c) PROVE Out' = Append(Out, c)
  <2>1. wire \o Append(wbuf, c) = Append(wire \o wbuf, c) BY ZenonT(60), <1>0, OutParts
  <2>2. (wire \o wbuf) \o <<c>> = Append(wire \o wbuf, c) BY ZenonT(60), <1>0, OutParts
  <2>3. \/ wire' = wire /\ wbuf' = Append(wbuf, c)
        \/ wire' = wire \o wbuf /\ wbuf' = <<c>>
    BY ZenonT(60), <1>5 DEF BufferedWrite, WriteOut
  <2> QED BY ZenonT(60), <2>1, <2>2, <2>3 DEF Out
<1> QED BY ZenonT(60), <1>1, <1>2, <1>3, <1>4, <1>5

\* What a step of p does to the outgoing packets: it buffers the metadata or the content
\* of its packet, returns nil from writePacket, or leaves what is buffered alone.
Written(p) ==
  \/ /\ pc[p] = "WMeta" /\ pc'[p] = (IF pkt[p].len > 0 THEN "WBody" ELSE "WSend")
     /\ Out' = Append(Out, Meta(pkt[p])) /\ ~werr /\ UNCHANGED <<werr, pkt, acked>>
  \/ /\ pc[p] = "WBody" /\ pc'[p] = "WSend"
     /\ Out' = Append(Out, Body(pkt[p])) /\ ~werr /\ UNCHANGED <<werr, pkt, acked>>
  \/ /\ pc[p] = "WSend" /\ pc'[p] \notin WriterPCs \cup {"WLock"}
     /\ acked' = acked \cup {pkt[p]} /\ Out' = Out /\ UNCHANGED <<werr, pkt>>
  \/ /\ pc[p] # "WSend" /\ (pc[p] = "WBody" => werr')
     /\ pc'[p] \notin {"WBody", "WSend"} /\ (pc'[p] = "WMeta" => pc[p] = "WLock" /\ pkt' = pkt)
     /\ Out' = Out /\ acked' = acked /\ (werr => werr')

\* A packet about to be written is not the end of a stream, unless p has just closed it.
Fresh(p) ==
  /\ p \in Loops => pkt'[p].st = 0
  /\ pc'[p] = "WLock" => \A s \in Objects : Ends(pkt'[p], s) => s <= nstr /\ ~strm[s].closed /\ strm'[s].closed

OutStep(p) == Moves(p) /\ (\A q \in Procs : q # p => pkt'[q] = pkt[q]) /\ Written(p)

\* Each step of writePacket does that.
LEMMA WriteOutStep ==
  ASSUME Typed, WriteType, NEW p \in Procs, WriteStep(p), WriteEffect(p)
  PROVE  OutStep(p)
<1>0. /\ Moves(p) /\ pkt' = pkt /\ pkt[p] \in Packets /\ pc \in [Procs -> Labels]
      /\ werr \in BOOLEAN
  BY ZenonT(60) DEF WriteEffect, dataSide, callVars, WriteType, Typed, StateType
<1>g. ASSUME NEW l, Goto(p, l) PROVE pc'[p] = l BY ZenonT(60), <1>0, <1>g DEF Goto
<1>c. Meta(pkt[p]) \in Chunks /\ Body(pkt[p]) \in Chunks BY ZenonT(60), <1>0 DEF Meta, Body, Chunks
<1>f. ASSUME BufferedWriteFails PROVE Out' = Out /\ werr'
  <2>1. WriteOutFails BY ZenonT(60), <1>f DEF BufferedWriteFails
  <2>2. Out' = Out BY ZenonT(60), <2>1, OutMoves
  <2>3. werr' BY SMTT(60), <2>1 DEF WriteOutFails
  <2> QED BY ZenonT(60), <2>2, <2>3
<1>s. ASSUME NEW c, BufferedWrite(c) PROVE ~werr /\ UNCHANGED werr
  BY ZenonT(60), <1>s DEF BufferedWrite, WriteOut
<1>1. CASE WriteMeta(p)
  <2>1. pc[p] = "WMeta" /\ acked' = acked BY ZenonT(60), <1>1 DEF WriteMeta, WriteChunk
  <2>2. \/ /\ BufferedWrite(Meta(pkt[p])) /\ pc'[p] = (IF pkt[p].len > 0 THEN "WBody" ELSE "WSend")
        \/ BufferedWriteFails /\ pc'[p] = "WErr"
    BY ZenonT(60), <1>1, <1>g DEF WriteMeta, WriteChunk, Meta
  <2>3. CASE BufferedWriteFails /\ pc'[p] = "WErr"
    BY ZenonT(60), <1>0, <1>f, <2>1, <2>3 DEF OutStep, Written
  <2>4. CASE BufferedWrite(Meta(pkt[p])) /\ pc'[p] = (IF pkt[p].len > 0 THEN "WBody" ELSE "WSend")
    <3>1. Out' = Append(Out, Meta(pkt[p])) /\ ~werr /\ UNCHANGED werr
      BY ZenonT(60), <1>c, <1>s, <2>4, OutMoves
    <3> QED BY ZenonT(60), <1>0, <2>1, <2>4, <3>1 DEF OutStep, Written
  <2> QED BY ZenonT(60), <2>2, <2>3, <2>4
<1>2. CASE WriteBody(p)
  <2>1. pc[p] = "WBody" /\ acked' = acked BY ZenonT(60), <1>2 DEF WriteBody, WriteChunk
  <2>2. \/ BufferedWrite(Body(pkt[p])) /\ pc'[p] = "WSend"
        \/ BufferedWriteFails /\ pc'[p] = "WErr"
    BY ZenonT(60), <1>2, <1>g DEF WriteBody, WriteChunk, Body
  <2>3. CASE BufferedWriteFails /\ pc'[p] = "WErr"
    BY ZenonT(60), <1>0, <1>f, <2>1, <2>3 DEF OutStep, Written
  <2>4. CASE BufferedWrite(Body(pkt[p])) /\ pc'[p] = "WSend"
    <3>1. Out' = Append(Out, Body(pkt[p])) /\ ~werr /\ UNCHANGED werr
      BY ZenonT(60), <1>c, <1>s, <2>4, OutMoves
    <3> QED BY ZenonT(60), <1>0, <2>1, <2>4, <3>1 DEF OutStep, Written
  <2> QED BY ZenonT(60), <2>2, <2>3, <2>4
<1>3. CASE WriteSend(p)
  <2>1. pc[p] = "WSend" /\ acked' = acked \cup {pkt[p]} /\ UNCHANGED <<wire, wbuf, werr>>
    BY ZenonT(60), <1>3 DEF WriteSend, WriteSucceeds
  <2>2. pc'[p] \in {"Select", "Next", "KDelete", "Idle"}
    BY ZenonT(60), <1>3, <1>g DEF WriteSend, WriteSucceeds, ReturnToUser
  <2>3. pc'[p] \notin WriterPCs \cup {"WLock"} BY ZenonT(60), <2>2 DEF WriterPCs
  <2>4. Out' = Out BY ZenonT(60), <2>1, OutMoves
  <2>5. Written(p) BY ZenonT(60), <1>0, <2>1, <2>3, <2>4 DEF Written
  <2> QED BY ZenonT(60), <1>0, <2>5 DEF OutStep
<1>4. CASE WriteLock(p) \/ WriteError(p)
  <2>1. UNCHANGED <<wire, wbuf, werr, acked>> /\ pc[p] \in {"WLock", "WErr"}
    BY ZenonT(60), <1>4 DEF WriteLock, WriteError, connSide, writeVars
  <2>2. pc'[p] \notin {"WBody", "WSend"} /\ (pc'[p] = "WMeta" => pc[p] = "WLock")
    BY ZenonT(60), <1>4, <1>g DEF WriteLock, WriteError, WriteReturns, FailLoop, ReturnToUser
  <2>3. Out' = Out BY ZenonT(60), <2>1, OutMoves
  <2> QED BY ZenonT(60), <1>0, <2>1, <2>2, <2>3 DEF OutStep, Written
<1> QED BY ZenonT(60), <1>1, <1>2, <1>3, <1>4 DEF WriteStep

\* A call that leads to writePacket sends no end of a stream, or that of the stream it has
\* just closed.
LEMMA CallFresh ==
  ASSUME Typed, WriteType, StreamType, NEW p \in Users, UserCall(p), CallEffect(p)
  PROVE  Fresh(p)
<1>0. /\ p \in Procs /\ p \notin Loops /\ pkt \in [Procs -> Packets] /\ pc \in [Procs -> Labels]
      /\ pc[p] = "Idle" /\ 0 \notin Objects
  <2>1. 0 \notin Objects BY SMTT(60) DEF Objects
  <2> QED BY ZenonT(60), <2>1, UsersAssumption DEF Procs, WriteType, Typed, CallEffect
<1>g. ASSUME NEW l, Goto(p, l) PROVE pc'[p] = l BY ZenonT(60), <1>0, <1>g DEF Goto
<1>o. ASSUME NEW s, NEW len, Outgoing(p, s, len) PROVE pkt'[p].st = s /\ pkt'[p].len = len
  BY ZenonT(60), <1>0, <1>o DEF Outgoing
<1>1. CASE CallWritePacket(p)
  <2>1. pkt'[p].st = 0 BY ZenonT(60), <1>1, <1>o DEF CallWritePacket
  <2> QED BY ZenonT(60), <1>0, <2>1 DEF Fresh, Ends
<1>2. CASE CallStreamWrite(p)
  <2>1. pc' = pc \/ pkt'[p].len = 1 BY ZenonT(60), <1>2, <1>o DEF CallStreamWrite, CallAtOnce
  <2>2. pc'[p] = "WLock" => pkt'[p].len # 0 BY SMTT(60), <1>0, <2>1
  <2> QED BY ZenonT(60), <1>0, <2>2 DEF Fresh, Ends
<1>3. CASE CallStreamClose(p)
  <2>1. PICK s \in 1 .. nstr : \/ pc' = pc
                               \/ /\ ~strm[s].closed /\ pkt'[p].st = s
                                  /\ strm' = [strm EXCEPT ![s] = Ended(strm[s])]
    BY ZenonT(60), <1>3, <1>o DEF CallStreamClose, CallAtOnce, Swapped
  <2>2. s \in Objects /\ s <= nstr
    <3>1. nstr \in 0 .. MaxStreams /\ MaxStreams \in Nat BY ZenonT(60), BoundsAssumption DEF StreamType
    <3> QED BY SMTT(60), <3>1 DEF Objects
  <2>3. Ended(strm[s]).closed = TRUE /\ strm \in [Objects -> GoodStreams]
    <3>1. strm[s] \in StreamRecords BY ZenonT(60), <2>2 DEF StreamType, GoodStreams
    <3> QED BY ZenonT(60), <3>1, StreamFields DEF StreamType
  <2>4. CASE pc' = pc BY ZenonT(60), <1>0, <2>4 DEF Fresh
  <2>5. CASE ~strm[s].closed /\ pkt'[p].st = s /\ strm' = [strm EXCEPT ![s] = Ended(strm[s])]
    <3>1. strm'[s].closed BY ZenonT(60), <2>2, <2>3, <2>5
    <3> QED BY ZenonT(60), <1>0, <2>2, <2>5, <3>1 DEF Fresh, Ends
  <2> QED BY ZenonT(60), <2>1, <2>4, <2>5
<1>4. CASE CallFlush(p) \/ CallClose(p) \/ CallReadPacket(p) \/ CallStreamRead(p)
  <2>1. pc'[p] # "WLock"
    BY ZenonT(60), <1>4, <1>g DEF CallFlush, CallClose, CallReadPacket, CallStreamRead
  <2> QED BY ZenonT(60), <1>0, <2>1 DEF Fresh
<1>5. CASE CallSetNewStreamHandler(p) \/ CallNewStream(p)
  <2>1. pc' = pc BY ZenonT(60), <1>5 DEF CallSetNewStreamHandler, CallNewStream, CallAtOnce
  <2> QED BY ZenonT(60), <1>0, <2>1 DEF Fresh
<1> QED BY ZenonT(60), <1>1, <1>2, <1>3, <1>4, <1>5 DEF UserCall

\* Every other step leaves what is buffered alone, and its goroutine is in no writePacket.
LEMMA OutSteps ==
  ASSUME Typed, WriteType, StreamType, Effects, \A p \in Loops : pkt[p].st = 0
  PROVE  \E p \in Procs : OutStep(p) /\ Fresh(p)
<1>p. /\ pkt \in [Procs -> Packets] /\ "readLoop" \in Procs /\ \A p \in Procs : p \in Users \/ p \in Loops
  BY ZenonT(60) DEF WriteType, Procs, Loops
<1>l. \A l \in {"FLock", "Recv", "Select", "Done", "ELock", "Exit", "WLock", "Next", "KDelete", "Idle",
                "RPop", "RStale", "SPop", "SStale"} \cup ReadPCs \cup InClose : l \notin WriterPCs
  BY ZenonT(60) DEF InClose, PostSwap, WriterPCs, ReadPCs
<1>d. ASSUME NEW p \in Procs, Moves(p), \A q \in Procs : q # p => pkt'[q] = pkt[q],
             pc[p] \notin WriterPCs, pc'[p] \notin WriterPCs, Out' = Out, acked' = acked, werr => werr'
      PROVE  OutStep(p)
  BY ZenonT(60), <1>d DEF OutStep, Written, WriterPCs
<1>k. ASSUME NEW p \in Procs, NEW k, pkt' = pkt \/ pkt' = [pkt EXCEPT ![p] = k]
      PROVE  \A q \in Procs : q # p => pkt'[q] = pkt[q]
  BY ZenonT(60), <1>k, <1>p
<1>f. ASSUME NEW p \in Procs, pkt' = pkt, pc'[p] # "WLock" PROVE Fresh(p) BY ZenonT(60), <1>f DEF Fresh
<1>b. ASSUME NEW p \in Loops, pkt' = pkt \/ \E n : pkt' = [pkt EXCEPT ![p] = Heartbeat(p, n)]
      PROVE  Fresh(p)
  <2>1. pkt'[p].st = 0
    <3>1. p \in Procs BY ZenonT(60) DEF Procs
    <3>2. CASE pkt' = pkt BY ZenonT(60), <3>2
    <3>3. ASSUME NEW n, pkt' = [pkt EXCEPT ![p] = Heartbeat(p, n)] PROVE pkt'[p].st = 0
      BY ZenonT(60), <1>p, <3>1, <3>3 DEF Heartbeat
    <3> QED BY ZenonT(60), <1>b, <3>2, <3>3
  <2>2. 0 \notin Objects BY SMTT(60) DEF Objects
  <2> QED BY ZenonT(60), <2>1, <2>2 DEF Fresh, Ends
<1>1. ASSUME NEW p \in Procs, WriteStep(p), WriteEffect(p) PROVE OutStep(p) /\ Fresh(p)
  <2>1. pkt' = pkt /\ pc'[p] # "WLock"
    BY ZenonT(60), <1>1, <1>p DEF WriteEffect, dataSide, callVars, WriterPCs
  <2> QED BY ZenonT(60), <1>1, <1>f, <2>1, WriteOutStep
<1>2. ASSUME NEW p \in Procs, Flush(p), FlushEffect(p) PROVE OutStep(p) /\ Fresh(p)
  <2>1. Moves(p) /\ pkt' = pkt /\ acked' = acked
    BY ZenonT(60), <1>2 DEF FlushEffect, dataSide, callVars
  <2>2. pc[p] \notin WriterPCs /\ pc'[p] \notin WriterPCs BY ZenonT(60), <1>2, <1>l, <1>p DEF FlushEffect
  <2>3. \/ UNCHANGED <<wire, wbuf, werr>>
        \/ WriteOut /\ wbuf' = <<>>
        \/ WriteOutFails
    BY ZenonT(60), <1>2 DEF Flush, DeadlineFails
  <2>4. Out' = Out BY ZenonT(60), <2>3, OutMoves
  <2>5. werr => werr'
    <3>1. ~werr \/ werr' = werr BY ZenonT(60), <2>3 DEF WriteOut, WriteOutFails
    <3> QED BY SMTT(60), <3>1
  <2>6. pc'[p] # "WLock" BY ZenonT(60), <1>2, <1>p DEF FlushEffect
  <2> QED BY ZenonT(60), <1>d, <1>f, <2>1, <2>2, <2>4, <2>5, <2>6
<1>3. ASSUME NEW p \in Procs, LoopEffect(p) PROVE OutStep(p) /\ Fresh(p)
  <2>1. Moves(p) /\ UNCHANGED <<wire, wbuf, werr, acked>> BY ZenonT(60), <1>3 DEF LoopEffect
  <2>2. pc[p] \notin WriterPCs /\ pc'[p] \notin WriterPCs BY ZenonT(60), <1>3, <1>l DEF LoopEffect
  <2>3. \A q \in Procs : q # p => pkt'[q] = pkt[q] BY ZenonT(60), <1>3, <1>k DEF LoopEffect
  <2>4. Fresh(p) BY ZenonT(60), <1>3, <1>b DEF LoopEffect
  <2> QED BY ZenonT(60), <1>d, <2>1, <2>2, <2>3, <2>4, OutMoves
<1>4. ASSUME NEW p \in Procs, CloseFrame(p), CloseEffect(p) PROVE OutStep(p) /\ Fresh(p)
  <2>1. Moves(p) /\ pkt' = pkt /\ acked' = acked BY ZenonT(60), <1>4 DEF CloseEffect, CloseFrame, callVars
  <2>2. pc[p] \notin WriterPCs /\ pc'[p] \notin WriterPCs BY ZenonT(60), <1>4, <1>l, <1>p DEF CloseEffect
  <2>3. \/ UNCHANGED <<wire, wbuf, werr>>
        \/ WriteOut /\ wbuf' = <<>>
        \/ WriteOutFails
    BY ZenonT(60), <1>4 DEF CloseFrame, CloseFlush
  <2>4. Out' = Out BY ZenonT(60), <2>3, OutMoves
  <2>5. werr => werr'
    <3>1. ~werr \/ werr' = werr BY ZenonT(60), <2>3 DEF WriteOut, WriteOutFails
    <3> QED BY SMTT(60), <3>1
  <2>6. pc'[p] # "WLock" BY ZenonT(60), <1>4, <1>p DEF CloseEffect, InClose, PostSwap
  <2> QED BY ZenonT(60), <1>d, <1>f, <2>1, <2>2, <2>4, <2>5, <2>6
<1>5. CASE ReadFrame /\ ReadEffect
  <2>1. Moves("readLoop") /\ UNCHANGED <<wire, wbuf, werr, acked>>
    BY ZenonT(60), <1>5 DEF ReadEffect, ReadFrame, writeVars
  <2>2. pc["readLoop"] \notin WriterPCs /\ pc'["readLoop"] \notin WriterPCs
    BY ZenonT(60), <1>5, <1>l DEF ReadEffect
  <2>3. \A q \in Procs : q # "readLoop" => pkt'[q] = pkt[q] BY ZenonT(60), <1>5, <1>k, <1>p DEF ReadFrame
  <2>4. OutStep("readLoop") BY ZenonT(60), <1>d, <1>p, <2>1, <2>2, <2>3, OutMoves
  <2>5. "readLoop" \in Loops BY ZenonT(60) DEF Loops
  <2>6. Fresh("readLoop") BY ZenonT(60), <1>5, <1>b, <2>5 DEF ReadFrame
  <2> QED BY ZenonT(60), <1>p, <2>4, <2>6
<1>6. ASSUME NEW p \in Users, UserFrame(p), UserEffect(p) PROVE p \in Procs /\ OutStep(p) /\ Fresh(p)
  <2>1. p \in Procs /\ Moves(p) /\ UNCHANGED <<wire, wbuf, werr, acked, pkt>>
    BY ZenonT(60), <1>6 DEF UserEffect, UserFrame, connSide, writeVars, callVars, Procs
  <2>2. pc[p] \notin WriterPCs /\ pc'[p] \notin WriterPCs BY ZenonT(60), <1>6, <1>l DEF UserEffect
  <2>3. pc'[p] # "WLock" BY ZenonT(60), <1>6 DEF UserEffect
  <2> QED BY ZenonT(60), <1>d, <1>f, <2>1, <2>2, <2>3, OutMoves
<1>7. ASSUME NEW p \in Users, UserCall(p), CallFrame(p), CallEffect(p)
      PROVE  p \in Procs /\ OutStep(p) /\ Fresh(p)
  <2>1. p \in Procs /\ Moves(p) /\ UNCHANGED <<wire, wbuf, werr, acked>>
    BY ZenonT(60), <1>7 DEF CallEffect, CallFrame, connSide, writeVars, Procs
  <2>2. pc[p] \notin WriterPCs /\ pc'[p] \notin WriterPCs
    <3>1. "CStale" \in InClose BY ZenonT(60) DEF InClose
    <3> QED BY ZenonT(60), <1>7, <1>l, <3>1 DEF CallEffect
  <2>3. \A q \in Procs : q # p => pkt'[q] = pkt[q] BY ZenonT(60), <1>7, <1>k, <2>1 DEF CallFrame, Outgoing
  <2>4. Fresh(p) BY ZenonT(60), <1>7, CallFresh
  <2> QED BY ZenonT(60), <1>d, <2>1, <2>2, <2>3, <2>4, OutMoves
<1> QED BY ZenonT(60), <1>1, <1>2, <1>3, <1>4, <1>5, <1>6, <1>7, <1>p DEF Effects

\* One more chunk at the end.
LEMMA Appended ==
  ASSUME NEW o \in Seq(Chunks), NEW c \in Chunks
  PROVE  /\ Append(o, c) \in Seq(Chunks) /\ Append(o, c) # <<>>
         /\ Len(o) \in Nat /\ Len(Append(o, c)) = Len(o) + 1 /\ Append(o, c)[Len(o) + 1] = c
         /\ \A i \in 1 .. Len(o) : Append(o, c)[i] = o[i]
         /\ 1 .. Len(Append(o, c)) = (1 .. Len(o)) \cup {Len(o) + 1} /\ Len(o) + 1 \notin 1 .. Len(o)
         /\ Range(Append(o, c)) = Range(o) \cup {c}
<1>1. /\ Append(o, c) \in Seq(Chunks) /\ Append(o, c) # <<>>
      /\ Len(o) \in Nat /\ Len(Append(o, c)) = Len(o) + 1 /\ Append(o, c)[Len(o) + 1] = c
      /\ \A i \in 1 .. Len(o) : Append(o, c)[i] = o[i]
  BY SMTT(60)
<1>2. 1 .. Len(Append(o, c)) = (1 .. Len(o)) \cup {Len(o) + 1} /\ Len(o) + 1 \notin 1 .. Len(o)
  BY SMTT(60), <1>1
<1>3. DOMAIN o = 1 .. Len(o) /\ DOMAIN Append(o, c) = 1 .. Len(Append(o, c)) BY SMTT(60), <1>1
<1>4. Range(Append(o, c)) = Range(o) \cup {c}
  <2>1. ASSUME NEW x \in Range(Append(o, c)) PROVE x \in Range(o) \cup {c}
    <3>1. PICK i \in 1 .. Len(Append(o, c)) : x = Append(o, c)[i] BY ZenonT(60), <1>3 DEF Range
    <3>2. CASE i \in 1 .. Len(o) BY ZenonT(60), <1>1, <1>3, <3>1, <3>2 DEF Range
    <3>3. CASE i = Len(o) + 1 BY ZenonT(60), <1>1, <3>1, <3>3
    <3> QED BY ZenonT(60), <1>2, <3>2, <3>3
  <2>2. ASSUME NEW x \in Range(o) PROVE x \in Range(Append(o, c))
    <3>1. PICK i \in 1 .. Len(o) : x = o[i] BY ZenonT(60), <1>3 DEF Range
    <3>2. i \in DOMAIN Append(o, c) /\ x = Append(o, c)[i] BY ZenonT(60), <1>1, <1>2, <1>3, <3>1
    <3> QED BY ZenonT(60), <3>2 DEF Range
  <2>3. c \in Range(Append(o, c))
    <3>1. Len(o) + 1 \in DOMAIN Append(o, c) BY ZenonT(60), <1>2, <1>3
    <3> QED BY ZenonT(60), <1>1, <3>1 DEF Range
  <2> QED BY ZenonT(60), <2>1, <2>2, <2>3
<1> QED BY ZenonT(60), <1>1, <1>2, <1>4

\* The chunk is the last one, and none is lost.
LEMMA Grown ==
  ASSUME NEW o \in Seq(Chunks), NEW c \in Chunks, NEW n, n = Append(o, c)
  PROVE  n # <<>> /\ n[Len(n)] = c /\ Range(o) \subseteq Range(n) /\ c \in Range(n)
<1>1. Len(n) = Len(o) + 1 /\ n[Len(o) + 1] = c /\ n # <<>> /\ Range(n) = Range(o) \cup {c}
  BY ZenonT(60), Appended
<1> QED BY ZenonT(60), <1>1

\* It comes after the others, which stay where they are.
LEMMA GrownAt ==
  ASSUME NEW o \in Seq(Chunks), NEW c \in Chunks, NEW n, n = Append(o, c)
  PROVE  /\ n \in Seq(Chunks)
         /\ \A i \in 1 .. Len(n) : (i \in 1 .. Len(o) /\ n[i] = o[i]) \/ (i = Len(o) + 1 /\ n[i] = c)
<1>1. n \in Seq(Chunks) /\ n[Len(o) + 1] = c BY ZenonT(60), Appended
<1>2. 1 .. Len(n) = (1 .. Len(o)) \cup {Len(o) + 1} BY ZenonT(60), Appended
<1>3. \A i \in 1 .. Len(o) : Append(o, c)[i] = o[i] BY ZenonT(60), Appended
<1>4. \A i \in 1 .. Len(o) : n[i] = o[i] BY ZenonT(60), <1>3
<1> QED BY ZenonT(60), <1>1, <1>2, <1>4

\* PacketsWhole of a sequence of chunks.
Whole(o) ==
  \A i \in 1 .. Len(o) :
    /\ o[i].part = "body" => i > 1 /\ o[i - 1] = Meta(o[i].pkt)
    /\ (o[i].part = "meta" /\ o[i].pkt.len > 0 /\ i < Len(o)) => o[i + 1] = Body(o[i].pkt)

\* The next chunk keeps the packets whole when it is what the last one calls for.
LEMMA WholeAppend ==
  ASSUME NEW o \in Seq(Chunks), NEW c \in Chunks, Whole(o),
         c.part = "body" => o # <<>> /\ o[Len(o)] = Meta(c.pkt),
         (o # <<>> /\ o[Len(o)].part = "meta" /\ o[Len(o)].pkt.len > 0) => c = Body(o[Len(o)].pkt)
  PROVE  Whole(Append(o, c))
<1> DEFINE n == Append(o, c)
<1>1. /\ Len(o) \in Nat /\ Len(n) = Len(o) + 1 /\ n[Len(o) + 1] = c
      /\ \A i \in 1 .. Len(o) : n[i] = o[i]
      /\ 1 .. Len(n) = (1 .. Len(o)) \cup {Len(o) + 1} /\ (o # <<>> <=> Len(o) > 0)
  BY SMTT(60), Appended
<1> HIDE DEF n
<1>2. ASSUME c.part = "body" PROVE Len(o) + 1 > 1 /\ n[Len(o)] = Meta(c.pkt)
  <2>1. Len(o) \in 1 .. Len(o) /\ o[Len(o)] = Meta(c.pkt) BY SMTT(60), <1>1, <1>2
  <2> QED BY SMTT(60), <1>1, <2>1
<1>3. ASSUME NEW i \in 1 .. Len(o)
      PROVE  /\ n[i].part = "body" => i > 1 /\ n[i - 1] = Meta(n[i].pkt)
             /\ (n[i].part = "meta" /\ n[i].pkt.len > 0) => n[i + 1] = Body(n[i].pkt)
  <2>1. n[i] = o[i] BY ZenonT(60), <1>1
  <2>2. ASSUME n[i].part = "body" PROVE i > 1 /\ n[i - 1] = Meta(n[i].pkt)
    <3>1. i > 1 /\ o[i - 1] = Meta(o[i].pkt) BY ZenonT(60), <2>1, <2>2 DEF Whole
    <3>2. i - 1 \in 1 .. Len(o) BY SMTT(60), <1>1, <3>1
    <3> QED BY ZenonT(60), <1>1, <2>1, <3>1, <3>2
  <2>3. ASSUME n[i].part = "meta", n[i].pkt.len > 0 PROVE n[i + 1] = Body(n[i].pkt)
    <3>1. CASE i < Len(o)
      <4>1. o[i + 1] = Body(o[i].pkt) BY ZenonT(60), <2>1, <2>3, <3>1 DEF Whole
      <4>2. i + 1 \in 1 .. Len(o) BY SMTT(60), <1>1, <3>1
      <4> QED BY ZenonT(60), <1>1, <2>1, <4>1, <4>2
    <3>2. CASE i = Len(o)
      <4>1. o # <<>> BY SMTT(60), <1>1, <3>2
      <4>2. c = Body(o[Len(o)].pkt) BY ZenonT(60), <2>1, <2>3, <3>2, <4>1
      <4> QED BY ZenonT(60), <1>1, <2>1, <3>2, <4>2
    <3> QED BY SMTT(60), <1>1, <3>1, <3>2
  <2> QED BY ZenonT(60), <2>2, <2>3
<1>4. Whole(n)
  <2> SUFFICES ASSUME NEW i \in 1 .. Len(n)
               PROVE  /\ n[i].part = "body" => i > 1 /\ n[i - 1] = Meta(n[i].pkt)
                      /\ (n[i].part = "meta" /\ n[i].pkt.len > 0 /\ i < Len(n)) => n[i + 1] = Body(n[i].pkt)
    BY ZenonT(60) DEF Whole
  <2>1. CASE i \in 1 .. Len(o) BY ZenonT(60), <1>3, <2>1
  <2>2. CASE i = Len(o) + 1
    <3>1. n[i] = c /\ i - 1 = Len(o) /\ ~(i < Len(n)) BY SMTT(60), <1>1, <2>2
    <3> QED BY ZenonT(60), <1>2, <2>2, <3>1
  <2> QED BY ZenonT(60), <1>1, <2>1, <2>2
<1> QED BY ZenonT(60), <1>4 DEF n

\* A step keeps the packets on the connection whole.
LEMMA WholeStep ==
  ASSUME LockInv, WriteType, WholeInv, NEW p \in Procs, OutStep(p)
  PROVE  WholeInv'
<1>0. /\ Out \in Seq(Chunks) /\ pkt[p] \in Packets
      /\ Meta(pkt[p]) \in Chunks /\ Body(pkt[p]) \in Chunks
  BY ZenonT(60), OutMoves DEF WriteType, Meta, Body, Chunks
<1>w. PacketsWhole <=> Whole(Out) BY ZenonT(60) DEF PacketsWhole, Whole, Out, Meta, Body
<1>w2. PacketsWhole' <=> Whole(Out') BY ZenonT(60) DEF PacketsWhole, Whole, Out, Meta, Body
<1>q. ASSUME NEW q \in Procs, q # p PROVE pc'[q] = pc[q] /\ pkt'[q] = pkt[q]
  BY ZenonT(60), <1>q DEF OutStep, Moves
<1>one. ASSUME pc[p] \in WriterPCs, NEW q \in Procs, pc[q] = "WBody" PROVE q = p
  BY ZenonT(60), <1>one DEF LockInv, WriterPCs
<1>1. CASE /\ pc[p] = "WMeta" /\ pc'[p] = (IF pkt[p].len > 0 THEN "WBody" ELSE "WSend")
           /\ Out' = Append(Out, Meta(pkt[p])) /\ ~werr /\ UNCHANGED <<werr, pkt, acked>>
  <2>1. \A q \in Procs : pc[q] # "WBody" BY ZenonT(60), <1>1, <1>one DEF WriterPCs
  <2>2. ~(Out # <<>> /\ Out[Len(Out)].part = "meta" /\ Out[Len(Out)].pkt.len > 0)
    BY ZenonT(60), <1>1, <2>1 DEF WholeInv
  <2>3. Meta(pkt[p]).part = "meta" /\ Meta(pkt[p]).pkt = pkt[p] BY ZenonT(60) DEF Meta
  <2>4. Whole(Out)  BY ZenonT(60), <1>w DEF WholeInv
  <2>5. Whole(Append(Out, Meta(pkt[p]))) BY ZenonT(60), <1>0, <2>2, <2>3, <2>4, WholeAppend
  <2>6. Out' # <<>> /\ Out'[Len(Out')] = Meta(pkt[p]) BY ZenonT(60), <1>0, <1>1, Grown
  <2>7. \A q \in Procs : pc'[q] = "WBody" => q = p /\ pkt[p].len > 0 BY ZenonT(60), <1>1, <1>q, <2>1
  <2>8. pkt[p].len > 0 => pc'[p] = "WBody" BY ZenonT(60), <1>1
  <2>9. PacketsWhole' BY ZenonT(60), <1>1, <1>w2, <2>5
  <2>10. ASSUME NEW q \in Procs, pc'[q] = "WBody"
         PROVE  pkt'[q].len > 0 /\ Out' # <<>> /\ Out'[Len(Out')] = Meta(pkt'[q])
    <3>1. q = p /\ pkt[p].len > 0 BY ZenonT(60), <2>7, <2>10
    <3>2. pkt'[q] = pkt[p] BY ZenonT(60), <1>1, <3>1
    <3> QED BY ZenonT(60), <2>6, <3>1, <3>2
  <2>11. Out'[Len(Out')].pkt.len > 0 => \E q \in Procs : pc'[q] = "WBody" BY ZenonT(60), <2>3, <2>6, <2>8
  <2> QED BY ZenonT(60), <2>9, <2>10, <2>11 DEF WholeInv
<1>2. CASE /\ pc[p] = "WBody" /\ pc'[p] = "WSend"
           /\ Out' = Append(Out, Body(pkt[p])) /\ ~werr /\ UNCHANGED <<werr, pkt, acked>>
  <2>1. Out # <<>> /\ Out[Len(Out)] = Meta(pkt[p]) BY ZenonT(60), <1>2 DEF WholeInv
  <2>2. /\ Meta(pkt[p]).part = "meta" /\ Meta(pkt[p]).pkt = pkt[p]
        /\ Body(pkt[p]).part = "body" /\ Body(pkt[p]).pkt = pkt[p]
    BY ZenonT(60) DEF Meta, Body
  <2>3. Whole(Out) BY ZenonT(60), <1>w DEF WholeInv
  <2>4. Whole(Append(Out, Body(pkt[p]))) BY ZenonT(60), <1>0, <2>1, <2>2, <2>3, WholeAppend
  <2>5. Out'[Len(Out')].part # "meta"
    <3>1. Out'[Len(Out')] = Body(pkt[p]) BY ZenonT(60), <1>0, <1>2, Grown
    <3> QED BY ZenonT(60), <2>2, <3>1
  <2>6. \A q \in Procs : pc'[q] # "WBody" BY ZenonT(60), <1>2, <1>q, <1>one DEF WriterPCs
  <2>7. PacketsWhole' BY ZenonT(60), <1>2, <1>w2, <2>4
  <2> QED BY ZenonT(60), <2>5, <2>6, <2>7 DEF WholeInv
<1>3. CASE /\ Out' = Out /\ pc'[p] # "WBody" /\ (werr => werr') /\ (pc[p] = "WBody" => werr')
  <2>1. \A q \in Procs : pc'[q] = "WBody" => pc[q] = "WBody" /\ pkt'[q] = pkt[q] BY ZenonT(60), <1>3, <1>q
  <2>2. ~werr' => \A q \in Procs : pc[q] = "WBody" => pc'[q] = "WBody" BY ZenonT(60), <1>3, <1>q
  <2>3. PacketsWhole' BY ZenonT(60), <1>3, <1>w, <1>w2 DEF WholeInv
  <2> QED BY ZenonT(60), <1>3, <2>1, <2>2, <2>3 DEF WholeInv
<1>4. CASE /\ pc[p] = "WSend" /\ pc'[p] \notin WriterPCs \cup {"WLock"}
           /\ acked' = acked \cup {pkt[p]} /\ Out' = Out /\ UNCHANGED <<werr, pkt>>
  BY ZenonT(60), <1>3, <1>4 DEF WriterPCs
<1> QED BY ZenonT(60), <1>1, <1>2, <1>3, <1>4 DEF OutStep, Written

\* A step keeps what was acknowledged in the buffer or on the wire.
LEMMA AckStep ==
  ASSUME LockInv, WriteType, AckInv, NEW p \in Procs, OutStep(p)
  PROVE  AckInv'
<1>0. /\ Out \in Seq(Chunks) /\ pkt[p] \in Packets
      /\ Meta(pkt[p]) \in Chunks /\ Body(pkt[p]) \in Chunks
  BY ZenonT(60), OutMoves DEF WriteType, Meta, Body, Chunks
<1>q. ASSUME NEW q \in Procs, q # p PROVE pc'[q] = pc[q] /\ pkt'[q] = pkt[q]
  BY ZenonT(60), <1>q DEF OutStep, Moves
<1>k. ASSUME Range(Out) \subseteq Range(Out'), acked' = acked
      PROVE  \A k \in acked' : Meta(k) \in Range(Out') /\ (k.len > 0 => Body(k) \in Range(Out'))
  BY ZenonT(60), <1>k DEF AckInv
<1>o. ASSUME Range(Out) \subseteq Range(Out'), NEW q \in Procs, q # p
      PROVE  /\ pc'[q] \in {"WBody", "WSend"} => Meta(pkt'[q]) \in Range(Out')
             /\ pc'[q] = "WSend" /\ pkt'[q].len > 0 => Body(pkt'[q]) \in Range(Out')
  BY ZenonT(60), <1>q, <1>o DEF AckInv
<1>1. CASE /\ pc[p] = "WMeta" /\ pc'[p] = (IF pkt[p].len > 0 THEN "WBody" ELSE "WSend")
           /\ Out' = Append(Out, Meta(pkt[p])) /\ ~werr /\ UNCHANGED <<werr, pkt, acked>>
  <2>1. Range(Out) \subseteq Range(Out') /\ Meta(pkt[p]) \in Range(Out')
    <3>1. Out' = Append(Out, Meta(pkt[p])) BY ZenonT(60), <1>1
    <3> DEFINE c == Meta(pkt[p])  n == Out'  o == Out
    <3>2. o \in Seq(Chunks) /\ c \in Chunks /\ n = Append(o, c) BY ZenonT(60), <1>0, <3>1
    <3> HIDE DEF c, n, o
    <3>3. Range(o) \subseteq Range(n) /\ c \in Range(n) BY ZenonT(60), <3>2, Grown
    <3> QED BY ZenonT(60), <3>3 DEF c, n, o
  <2>2. pkt'[p] = pkt[p] /\ (pc'[p] = "WSend" => ~(pkt[p].len > 0)) BY ZenonT(60), <1>1
  <2>3. /\ Meta(pkt'[p]) \in Range(Out')
        /\ pc'[p] = "WSend" /\ pkt'[p].len > 0 => Body(pkt'[p]) \in Range(Out')
    BY ZenonT(60), <2>1, <2>2
  <2>4. acked' = acked BY ZenonT(60), <1>1
  <2> QED BY ZenonT(60), <1>k, <1>o, <2>1, <2>3, <2>4 DEF AckInv
<1>2. CASE /\ pc[p] = "WBody" /\ pc'[p] = "WSend"
           /\ Out' = Append(Out, Body(pkt[p])) /\ ~werr /\ UNCHANGED <<werr, pkt, acked>>
  <2>1. Range(Out) \subseteq Range(Out') /\ Body(pkt[p]) \in Range(Out')
    <3>1. Out' = Append(Out, Body(pkt[p])) BY ZenonT(60), <1>2
    <3> DEFINE c == Body(pkt[p])  n == Out'  o == Out
    <3>2. o \in Seq(Chunks) /\ c \in Chunks /\ n = Append(o, c) BY ZenonT(60), <1>0, <3>1
    <3> HIDE DEF c, n, o
    <3>3. Range(o) \subseteq Range(n) /\ c \in Range(n) BY ZenonT(60), <3>2, Grown
    <3> QED BY ZenonT(60), <3>3 DEF c, n, o
  <2>2. pkt'[p] = pkt[p] /\ Meta(pkt[p]) \in Range(Out) BY ZenonT(60), <1>2 DEF AckInv
  <2>3. Meta(pkt'[p]) \in Range(Out') /\ Body(pkt'[p]) \in Range(Out') BY ZenonT(60), <2>1, <2>2
  <2>4. acked' = acked BY ZenonT(60), <1>2
  <2> QED BY ZenonT(60), <1>k, <1>o, <2>1, <2>3, <2>4 DEF AckInv
<1>3. CASE /\ pc[p] = "WSend" /\ pc'[p] \notin WriterPCs \cup {"WLock"}
           /\ acked' = acked \cup {pkt[p]} /\ Out' = Out /\ UNCHANGED <<werr, pkt>>
  <2>1. pc'[p] \notin {"WBody", "WSend"} BY ZenonT(60), <1>3 DEF WriterPCs
  <2> QED BY ZenonT(60), <1>3, <1>q, <2>1 DEF AckInv
<1>4. CASE pc'[p] \notin {"WBody", "WSend"} /\ Out' = Out /\ acked' = acked
  BY ZenonT(60), <1>4, <1>q DEF AckInv
<1> QED BY ZenonT(60), <1>1, <1>2, <1>3, <1>4 DEF OutStep, Written

=============================================================================
