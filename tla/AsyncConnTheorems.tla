-------------------------- MODULE AsyncConnTheorems -------------------------
(***************************************************************************)
(* The inductive invariant of AsyncConn holds in every reachable state, of *)
(* any number of goroutines, any packets and any bounds. From it follow the*)
(* safety properties of AsyncConnProps, directly or through the second     *)
(* layer of AsyncConnInv, and that ReadPacket implements PacketQueue.      *)
(***************************************************************************)
EXTENDS AsyncConnData, AsyncConnQueues

(* The invariant holds.                                                    *)

\* NewAsync establishes the invariant.
LEMMA InitIInv == Init => IInv
<1> SUFFICES ASSUME Init PROVE IInv
  BY SMTT(60)
<1>nil. /\ <<>> \in Seq(InPackets) /\ <<>> \in Seq(Chunks) /\ <<>> \o (<<>> \o <<>>) = <<>>
        /\ 1 .. Len(<<>>) = {}
  <2>1. \A S : <<>> \in Seq(S) /\ Len(<<>>) = 0 BY ZenonT(60), EmptySeq
  <2> QED BY SMTT(60), <2>1, ConcatEmptySeq
<1>procs. /\ \A p \in Users : p # "flushLoop" /\ p # "pingLoop" /\ p # "readLoop" /\ p # None
          /\ \A p \in Loops : p # None
  BY ZenonT(60), UsersAssumption DEF Loops
<1>pc. /\ pc \in [Procs -> {"Recv", "Select", "Arm", "Idle"}]
       /\ pc["flushLoop"] = "Recv" /\ pc["pingLoop"] = "Select" /\ pc["readLoop"] = "Arm"
       /\ \A u \in Users : pc[u] = "Idle"
  BY ZenonT(60), <1>procs DEF Init, Procs, Loops
<1>1. pc \in [Procs -> Labels] BY ZenonT(60), <1>pc DEF Labels
<1>2. StateType BY ZenonT(60) DEF Init, StateType, Errors
<1>3. ProcType BY ZenonT(60) DEF Init, ProcType, Errors, Outcomes
<1>4. Control
  <2>1. LockInv BY ZenonT(60), <1>pc, <1>procs DEF Init, LockInv, Procs, WriterPCs, StaleHeld,
        StreamsHeld
  <2>2. WinnerInv BY ZenonT(60) DEF Init, WinnerInv, PostSwap
  <2>3. LoopInv BY ZenonT(60) DEF Init, LoopInv, Quiet
  <2>4. LabelInv BY ZenonT(60), <1>pc DEF LabelInv, Loops
  <2>5. OpInv BY ZenonT(60), <1>pc DEF OpInv, WriterPCs
  <2>6. ResInv BY ZenonT(60) DEF Init, ResInv
  <2>7. NoLostWakeup BY ZenonT(60) DEF Init, NoLostWakeup
  <2> QED BY ZenonT(60), <2>1, <2>2, <2>3, <2>4, <2>5, <2>6, <2>7 DEF Control
<1>5. QueueInv BY SMTT(60), InboundAssumption DEF Init, QueueInv, NoPacketLost
<1>6. WriteType
  <2>1. \A p \in Procs : Heartbeat(p, 0) \in Packets BY SMTT(60), BoundsAssumption DEF Heartbeat,
        Packets
  <2> QED BY SMTT(60), <2>1 DEF Init, WriteType
<1>7. StreamType
  <2>1. (CHOOSE i \in StreamIds : TRUE) \in StreamIds BY ZenonT(60), StreamIdsAssumption
  <2>2. ASSUME NEW i \in StreamIds PROVE newStream(i) \in GoodStreams
    <3>1. newStream(i) \in StreamRecords BY ZenonT(60), <1>nil DEF newStream, StreamRecords
    <3> QED BY ZenonT(60), <1>nil, <3>1 DEF newStream, GoodStreams
  <2>3. strm \in [Objects -> GoodStreams] BY ZenonT(60), <2>1, <2>2 DEF Init
  <2>4. 0 \in 0 .. MaxStreams BY SMTT(60), BoundsAssumption
  <2> QED BY ZenonT(60), <2>3, <2>4, StreamIdsAssumption DEF Init, StreamType
<1>8. StreamInv BY SMTT(60), <1>pc DEF Init, StreamInv, TableInv, DispatchInv, StreamUserInv
<1> QED BY ZenonT(60), <1>1, <1>2, <1>3, <1>4, <1>5, <1>6, <1>7, <1>8 DEF IInv

\* Every step, and stuttering, keeps the invariant.
LEMMA NextIInv == IInv /\ [Next]_vars => IInv'
<1>1. ASSUME IInv, Next PROVE IInv'
  <2>0. /\ Typed /\ Control /\ QueueInv /\ WriteType /\ StreamType /\ StreamInv
        /\ cur \in [Procs -> 0 .. MaxStreams] /\ nstr \in 0 .. MaxStreams /\ rbuf \in Seq(InPackets)
    BY ZenonT(60), <1>1 DEF IInv, Typed, StreamType, QueueInv
  <2>1. Effects BY ZenonT(60), <1>1, <2>0, StepEffects
  <2>2. Typed' BY ZenonT(60), <2>0, <2>1, TypedStep
  <2>3. Control' BY ZenonT(60), <2>0, <2>1, ControlStep
  <2>4. QueueInv' BY ZenonT(60), <2>0, <2>1, QueueStep
  <2>5. WriteType' BY ZenonT(60), <2>0, <2>1, WriteTypeStep
  <2>6. StreamsKept BY ZenonT(60), <2>0, <2>1, StreamMoves, StreamsStep
  <2>7. StreamType' BY ZenonT(60), <2>0, <2>1, <2>6, StreamTypeStep
  <2>8. StreamInv' BY ZenonT(60), <2>0, <2>1, <2>6, StreamInvStep
  <2> QED BY ZenonT(60), <2>2, <2>3, <2>4, <2>5, <2>7, <2>8 DEF IInv, Typed
<1>2. ASSUME IInv, UNCHANGED vars PROVE IInv'
  <2> USE Zenon, <1>2 DEF IInv, vars, connSide, dataSide, lockVars, stateVars, writeVars, connVars,
          inVars, queueVars, streamVars, callVars
  <2>0. (pc \in [Procs -> Labels] /\ ProcType)' BY ZenonT(60) DEF ProcType
  <2>1. StateType' BY ZenonT(60) DEF StateType
  <2>2. (LockInv /\ WinnerInv /\ NoLostWakeup)'
    BY ZenonT(60) DEF Control, LockInv, WinnerInv, NoLostWakeup
  <2>3. (LoopInv /\ ResInv)' BY ZenonT(60) DEF Control, LoopInv, ResInv, Quiet
  <2>4. (LabelInv /\ OpInv)' BY ZenonT(60) DEF Control, LabelInv, OpInv
  <2>5. (QueueInv /\ WriteType)' BY ZenonT(60) DEF QueueInv, NoPacketLost, WriteType
  <2>6. (StreamType /\ StreamInv)'
    BY ZenonT(60) DEF StreamType, StreamInv, TableInv, DispatchInv, StreamUserInv
  <2> QED BY ZenonT(60), <2>0, <2>1, <2>2, <2>3, <2>4, <2>5, <2>6 DEF Control
<1> QED BY ZenonT(60), <1>1, <1>2

\* The invariant holds in every reachable state.
THEOREM Invariance == Spec => []IInv
  BY InitIInv, NextIInv, PTL DEF Spec

-----------------------------------------------------------------------------
(* What follows from it.                                                   *)

\* Every field of the connection, its streams and its goroutines keeps its type.
THEOREM TypeCorrect == Spec => []TypeOK
<1>1. IInv => TypeOK
  <2>1. GoodStreams \subseteq StreamRecords BY ZenonT(60) DEF GoodStreams
  <2>2. IInv => strm \in [Objects -> StreamRecords] BY ZenonT(60), <2>1 DEF IInv, StreamType
  <2> QED BY ZenonT(60), <2>2 DEF IInv, StateType, ProcType, QueueInv, WriteType, StreamType,
        TypeOK
<1> QED BY <1>1, Invariance, PTL

\* No goroutine sends on, or closes, a channel that close() has closed.
THEOREM ChannelsSafe == Spec => []NoChannelPanic
<1>1. IInv => NoChannelPanic BY ZenonT(60) DEF IInv, Control, WinnerInv, NoChannelPanic, WriterPCs
<1> QED BY <1>1, Invariance, PTL

\* Data in the write buffer of an open connection has a wakeup under way.
THEOREM WakeupKept == Spec => []NoLostWakeup
<1>1. IInv => NoLostWakeup BY ZenonT(60) DEF IInv, Control
<1> QED BY <1>1, Invariance, PTL

\* ReadPacket returns every packet pushed once and in order, across close().
THEOREM PacketsKept == Spec => []NoPacketLost
<1>1. IInv => NoPacketLost BY ZenonT(60) DEF IInv, QueueInv
<1> QED BY <1>1, Invariance, PTL

\* ReadPacket reports ConnectionClosed only when nothing is left to return and the
\* loops are gone.
THEOREM ReadsEndDrained == Spec => []ReadEndsDrained
<1>1. IInv => ReadEndsDrained
  <2> SUFFICES ASSUME IInv, NEW u \in Users
               PROVE  /\ res[u] = "ConnectionClosed" => returned = pushed /\ wg = {}
                      /\ res[u] # "QueueClosed"
    BY ZenonT(60) DEF ReadEndsDrained
  <2>1. res[u] # "QueueClosed" BY ZenonT(60) DEF IInv, Control, ResInv
  <2>2. ASSUME res[u] = "ConnectionClosed" PROVE returned = pushed /\ wg = {}
    <3>1. wg = {} /\ incoming = <<>> /\ stale = <<>>
      BY ZenonT(60), <2>2 DEF IInv, Control, ResInv, LoopInv
    <3>2. returned \in Seq(InPackets) /\ <<>> \in Seq(InPackets) BY SMTT(60) DEF IInv, QueueInv
    <3>3. returned \o (<<>> \o <<>>) = returned BY SMTT(60)
    <3> QED BY SMTT(60), <3>1 DEF IInv, QueueInv, NoPacketLost
  <2> QED BY ZenonT(60), <2>1, <2>2
<1> QED BY <1>1, Invariance, PTL

\* When Close or Raw has returned, the loops are gone and no deadline is left.
THEOREM ClosedIsQuiet == Spec => []CloseQuiesces
<1>1. IInv => CloseQuiesces
  <2> SUFFICES ASSUME IInv, NEW u \in Users, res[u] = "closed"
               PROVE  closed /\ wg = {} /\ deadline = "none" /\ pc["readLoop"] \notin {"Arm", "Read"}
    BY ZenonT(60) DEF CloseQuiesces, Handed
  <2>1. Quiet BY ZenonT(60) DEF IInv, Control, ResInv
  <2>2. closed /\ wg = {} /\ deadline = "none" BY ZenonT(60), <2>1 DEF IInv, Control, LoopInv,
        Quiet
  <2>3. pc["readLoop"] \in InClose \cup {"ELock", "Exit"}
    BY ZenonT(60), <2>2 DEF IInv, Control, LoopInv, Loops
  <2> QED BY ZenonT(60), <2>2, <2>3 DEF InClose, PostSwap
<1> QED BY <1>1, Invariance, PTL

\* Every packet of a stream is returned once, in order, to a reader of that stream.
THEOREM StreamPacketsKept == Spec => []StreamNoPacketLost
<1>1. IInv => StreamNoPacketLost
  <2> SUFFICES ASSUME IInv, NEW s \in 1 .. nstr
               PROVE  /\ strm[s].returned \o (strm[s].stale \o strm[s].queue) = strm[s].pushed
                      /\ \A i \in 1 .. Len(strm[s].pushed) : strm[s].pushed[i].id = strm[s].id
    BY ZenonT(60) DEF StreamNoPacketLost
  <2>1. s \in Objects BY SMTT(60), BoundsAssumption DEF IInv, StreamType, Objects
  <2>2. strm[s] \in GoodStreams BY ZenonT(60), <2>1 DEF IInv, StreamType
  <2> QED BY ZenonT(60), <2>2 DEF GoodStreams
<1> QED BY <1>1, Invariance, PTL

-----------------------------------------------------------------------------
(* ReadPacket implements PacketQueue.                                      *)

\* A new connection is an empty, open queue.
LEMMA ReadInit == Init => ReadQueue!Init
<1>1. <<>> \o <<>> = <<>> BY ZenonT(60), QueueEmpty
<1> QED BY ZenonT(60), <1>1 DEF Init, ReadQueue!Init

\* Readers whose last call reported the end of the connection.
Reported == {u \in Users : res[u] = "ConnectionClosed"}

\* Every step of the connection is a step of the queue or leaves it alone.
LEMMA ReadStep == IInv /\ [Next]_vars => [ReadQueue!Next]_(ReadQueue!vars)
<1> SUFFICES ASSUME IInv, [Next]_vars PROVE [ReadQueue!Next]_(ReadQueue!vars)
  BY SMTT(60)
<1> DEFINE pending == stale \o incoming
<1>seq. /\ stale \in Seq(InPackets) /\ incoming \in Seq(InPackets) /\ rbuf \in Seq(InPackets)
        /\ <<>> \in Seq(InPackets) /\ res \in [Users -> Outcomes]
  BY ZenonT(60), QueueEmpty DEF IInv, QueueInv, ProcType
<1>inv. /\ shut => closed
        /\ ~Quiet => stale = <<>>
        /\ Quiet => shut /\ incoming = <<>>
        /\ \A u \in Users : res[u] = "ConnectionClosed" => Quiet /\ stale = <<>>
  BY ZenonT(60) DEF IInv, Control, WinnerInv, LoopInv, ResInv
<1>same. ASSUME UNCHANGED <<stale, incoming, returned, shut, res>>
         PROVE  [ReadQueue!Next]_(ReadQueue!vars)
  BY ZenonT(60), <1>same DEF ReadQueue!vars
\* A step that changes no packet and records an outcome of p other than the end.
<1>leave. ASSUME UNCHANGED <<stale, incoming, returned, shut>>, NEW p \in Users, NEW v,
                 v # "ConnectionClosed", res' = [res EXCEPT ![p] = v]
          PROVE  [ReadQueue!Next]_(ReadQueue!vars)
  <2>1. Reported' = Reported \ {p} BY ZenonT(60), <1>seq, <1>leave DEF Reported
  <2>2. CASE p \in Reported
    BY ZenonT(60), <1>leave, <2>1, <2>2 DEF Reported, ReadQueue!Next, ReadQueue!Leave
  <2>3. CASE p \notin Reported
    <3>1. Reported' = Reported BY ZenonT(60), <2>1, <2>3
    <3> QED BY ZenonT(60), <1>leave, <3>1 DEF Reported, ReadQueue!vars
  <2> QED BY ZenonT(60), <2>2, <2>3
<1>1. ASSUME NEW p \in Procs, WriteEffect(p) \/ FlushEffect(p) \/ LoopEffect(p)
      PROVE  [ReadQueue!Next]_(ReadQueue!vars)
  <2>1. UNCHANGED <<stale, incoming, returned, shut, res>>
    BY ZenonT(60), <1>1 DEF WriteEffect, FlushEffect, LoopEffect, dataSide, queueVars, stateVars
  <2> QED BY ZenonT(60), <1>same, <2>1
<1>2. ASSUME NEW p \in Procs, CloseFrame(p), CloseEffect(p) PROVE [ReadQueue!Next]_(ReadQueue!vars)
  <2>1. CASE CloseShut(p)
    <3>1. ~shut BY ZenonT(60), <2>1 DEF CloseShut, IInv, Control, WinnerInv
    <3>2. shut' = TRUE /\ UNCHANGED <<stale, incoming, returned, res>>
      BY ZenonT(60), <2>1 DEF CloseShut, dataSide, queueVars
    <3> QED BY ZenonT(60), <3>1, <3>2 DEF ReadQueue!Next, ReadQueue!Seal
  <2>2. CASE CloseWait(p)
    <3>1. stale = <<>> BY ZenonT(60), <1>inv, <2>2 DEF CloseWait, Quiet
    <3>2. /\ stale' = incoming /\ incoming' = <<>>
          /\ UNCHANGED <<returned, shut, res>>
      BY ZenonT(60), <2>2 DEF CloseWait, Drained, stateVars
    <3>3. pending' = pending BY ZenonT(60), <1>seq, <3>1, <3>2, QueueEmpty
    <3> QED BY ZenonT(60), <3>2, <3>3 DEF ReadQueue!vars
  <2>3. CASE ~CloseShut(p) /\ ~CloseWait(p)
    <3>1. /\ UNCHANGED <<stale, incoming, returned, shut>>
          /\ res' = res \/ (p \in Users /\ res' = [res EXCEPT ![p] = "closed"])
      BY ZenonT(60), <1>2, <2>3 DEF CloseFrame, CloseEffect
    <3> QED BY ZenonT(60), <1>same, <1>leave, <3>1
  <2> QED BY ZenonT(60), <2>1, <2>2, <2>3
<1>3. CASE ReadFrame
  <2>1. UNCHANGED <<stale, returned, res, shut>> BY ZenonT(60), <1>3 DEF ReadFrame, stateVars
  <2>2. CASE incoming' = incoming BY ZenonT(60), <1>same, <2>1, <2>2
  <2>3. CASE incoming' # incoming
    <3>1. rbuf # <<>> /\ ~shut /\ incoming' = Append(incoming, Head(rbuf))
      BY ZenonT(60), <1>3, <2>3 DEF ReadFrame
    <3>2. Head(rbuf) \in InPackets BY ZenonT(60), <1>seq, <3>1, QueueParts
    <3>3. stale \o Append(incoming, Head(rbuf)) = Append(stale \o incoming, Head(rbuf))
      BY SMTT(60), <1>seq, <3>2
    <3> QED BY ZenonT(60), <2>1, <3>1, <3>2, <3>3 DEF ReadQueue!Next, ReadQueue!Put
  <2> QED BY ZenonT(60), <2>2, <2>3
<1>take. ASSUME NEW a \in Seq(InPackets), NEW b \in Seq(InPackets), a # <<>>, pending = a \o b,
                pending' = Tail(a) \o b, returned' = Append(returned, Head(a)), UNCHANGED shut,
                Reported' = Reported
         PROVE  [ReadQueue!Next]_(ReadQueue!vars)
  <2>1. a \o b # <<>> /\ Head(a \o b) = Head(a) /\ Tail(a \o b) = Tail(a) \o b BY SMTT(60), <1>take
  <2> QED BY ZenonT(60), <1>take, <2>1 DEF ReadQueue!Next, ReadQueue!Take, Reported
<1>4. ASSUME NEW p \in Users, UserStep(p), UserFrame(p), UserEffect(p)
      PROVE  [ReadQueue!Next]_(ReadQueue!vars)
  <2>1. shut' = shut BY ZenonT(60), <1>4 DEF UserFrame, connSide, stateVars
  <2>rep. ASSUME Reported = {}, res' = [res EXCEPT ![p] = "packet"] PROVE Reported' = Reported
    BY ZenonT(60), <1>seq, <2>rep DEF Reported
  <2>2. CASE ReadPop(p)
    <3>1. CASE shut
      <4>1. UNCHANGED <<stale, incoming, returned, res>> BY ZenonT(60), <1>inv, <2>2, <3>1 DEF ReadPop
      <4> QED BY ZenonT(60), <1>same, <2>1, <4>1
    <3>2. CASE ~shut
      <4>1. /\ incoming # <<>> /\ incoming' = Tail(incoming) /\ stale' = stale
            /\ returned' = Append(returned, Head(incoming)) /\ res' = [res EXCEPT ![p] = "packet"]
        BY ZenonT(60), <2>2, <3>2 DEF ReadPop, Finish
      <4>2. stale = <<>> /\ Reported = {} BY ZenonT(60), <1>inv, <3>2 DEF Reported
      <4>3. Reported' = Reported BY ZenonT(60), <2>rep, <4>1, <4>2
      <4>4. Tail(incoming) \in Seq(InPackets) BY ZenonT(60), <1>seq, <4>1, QueueParts
      <4>5. pending = incoming \o <<>> /\ pending' = Tail(incoming) \o <<>>
        BY ZenonT(60), <1>seq, <4>1, <4>2, <4>4, QueueEmpty
      <4> QED BY ZenonT(60), <1>seq, <1>take, <2>1, <4>1, <4>3, <4>5
    <3> QED BY ZenonT(60), <3>1, <3>2
  <2>3. CASE ReadStale(p)
    <3>1. Quiet
      <4>1. closed /\ staleMu = None BY ZenonT(60), <2>3 DEF ReadStale, IInv, Control, OpInv
      <4>2. \A q \in Procs : q # None BY ZenonT(60), Identity
      <4> QED BY ZenonT(60), <4>1, <4>2 DEF Quiet, IInv, Control, LockInv, StaleHeld
    <3>2. incoming = <<>> /\ shut /\ incoming' = incoming BY ZenonT(60), <1>inv, <2>3, <3>1 DEF ReadStale
    <3>3. CASE stale # <<>>
      <4>1. /\ stale' = Tail(stale) /\ returned' = Append(returned, Head(stale))
            /\ res' = [res EXCEPT ![p] = "packet"]
        BY ZenonT(60), <2>3, <3>3 DEF ReadStale, Finish
      <4>2. Reported = {} BY ZenonT(60), <1>inv, <3>3 DEF Reported
      <4>3. Reported' = Reported BY ZenonT(60), <2>rep, <4>1, <4>2
      <4> QED BY ZenonT(60), <1>seq, <1>take, <2>1, <3>2, <3>3, <4>1, <4>3
    <3>4. CASE stale = <<>>
      <4>1. UNCHANGED <<stale, returned>> /\ res' = [res EXCEPT ![p] = "ConnectionClosed"]
        BY ZenonT(60), <2>3, <3>4 DEF ReadStale, Finish
      <4>2. Reported' = Reported \cup {p} BY ZenonT(60), <1>seq, <4>1 DEF Reported
      <4>3. stale \o incoming = <<>> /\ pending' = pending
        BY ZenonT(60), <3>2, <3>4, <4>1, QueueEmpty
      <4> QED BY ZenonT(60), <2>1, <3>2, <4>1, <4>2, <4>3 DEF Reported, ReadQueue!Next,
            ReadQueue!ReportEnd
    <3> QED BY ZenonT(60), <3>3, <3>4
  <2>4. CASE StreamPop(p) \/ StreamStale(p)
    <3>1. /\ UNCHANGED <<stale, incoming, returned>>
          /\ res' = res \/ \E v \in {"packet", "StreamClosed"} : res' = [res EXCEPT ![p] = v]
      BY ZenonT(60), <2>4 DEF StreamPop, StreamStale, Finish, queueVars
    <3> QED BY ZenonT(60), <1>same, <1>leave, <2>1, <3>1
  <2>5. CASE StreamDelete(p)
    BY ZenonT(60), <1>same, <2>5 DEF StreamDelete, queueVars, connSide, stateVars
  <2> QED BY ZenonT(60), <1>4, <2>2, <2>3, <2>4, <2>5 DEF UserStep
<1>5. ASSUME NEW p \in Users, CallFrame(p) PROVE [ReadQueue!Next]_(ReadQueue!vars)
  BY ZenonT(60), <1>5, <1>same DEF CallFrame, connSide, stateVars, queueVars
<1>6. CASE UNCHANGED vars
  BY ZenonT(60), <1>6, <1>same DEF vars, connSide, dataSide, stateVars, queueVars
<1>7. CASE Next
  <2>1. Effects BY ZenonT(60), <1>7, StepEffects DEF IInv, Typed, StreamType
  <2> QED BY ZenonT(60), <2>1, <1>1, <1>2, <1>3, <1>4, <1>5 DEF Effects
<1> QED BY ZenonT(60), <1>6, <1>7

\* ReadPacket is an atomic queue: what readers get, and when they are told of the end,
\* is what PacketQueue allows.
THEOREM ReadRefinesQueue == Spec => ReadIsQueue
<1>1. ReadQueue!Init /\ [][ReadQueue!Next]_(ReadQueue!vars) => ReadIsQueue
  BY PTL DEF ReadIsQueue, ReadQueue!Spec
<1> QED BY <1>1, ReadInit, ReadStep, Invariance, PTL DEF Spec, ReadIsQueue, ReadQueue!Spec

-----------------------------------------------------------------------------
(* So does Stream.ReadPacket, for every stream.                            *)

\* A new connection has no streams and no reader.
LEMMA InitReader == Init => ReaderInv
<1> SUFFICES ASSUME Init PROVE ReaderInv
  BY SMTT(60)
<1>1. (CHOOSE i \in StreamIds : TRUE) \in StreamIds BY ZenonT(60), StreamIdsAssumption
<1>2. \A s \in Objects : \E i \in StreamIds : strm[s] = newStream(i) BY ZenonT(60), <1>1 DEF Init
<1>3. \A s \in Objects : strm[s].closed = FALSE
  <2>1. \A i \in StreamIds : newStream(i).closed = FALSE BY ZenonT(60) DEF newStream
  <2> QED BY ZenonT(60), <1>2, <2>1
<1>4. \A u \in Users : u \in Procs /\ op[u] = "none" BY ZenonT(60) DEF Init, Procs
<1>5. \A s \in Objects : Told(s) = {} BY ZenonT(60), <1>4 DEF Told
<1>6. ReadsOnly BY ZenonT(60), <1>4 DEF ReadsOnly
<1> QED BY ZenonT(60), <1>2, <1>3, <1>5, <1>6 DEF ReaderInv

\* A step moves the streams and their readers as StreamsMove and ToldMove say.
LEMMA NextReader ==
  ASSUME IInv, ReaderInv, Next
  PROVE  StreamsMove /\ ToldMove /\ ReaderInv'
<1>0. /\ Typed /\ Control /\ OpInv /\ StreamType /\ StreamInv /\ ReadsOnly /\ res \in [Users -> Outcomes]
      /\ cur \in [Procs -> 0 .. MaxStreams] /\ nstr \in 0 .. MaxStreams /\ rbuf \in Seq(InPackets)
  BY ZenonT(60) DEF IInv, Typed, ProcType, Control, StreamType, QueueInv, ReaderInv
<1>1. Effects BY ZenonT(60), <1>0, StepEffects
<1>2. StreamsMove BY ZenonT(60), <1>0, <1>1, StreamMoves
<1>3. ToldMove /\ ReadsOnly' BY ZenonT(60), <1>0, <1>1, ToldMoves
<1> QED BY ZenonT(60), <1>0, <1>2, <1>3, ReaderStep

\* What is known of the streams and their readers holds in every reachable state.
THEOREM ReaderInvariance == Spec => []ReaderInv
<1>1. IInv /\ ReaderInv /\ [Next]_vars => ReaderInv'
  <2>1. ASSUME ReaderInv, UNCHANGED vars PROVE ReaderInv'
    <3>1. UNCHANGED <<nstr, strm, op, pc, cur, res>>
      BY ZenonT(60), <2>1 DEF vars, dataSide, streamVars, callVars
    <3>2. \A s \in Objects : Told(s)' = Told(s) BY ZenonT(60), <3>1 DEF Told
    <3> QED BY ZenonT(60), <2>1, <3>1, <3>2 DEF ReaderInv, ReadsOnly
  <2> QED BY ZenonT(60), <2>1, NextReader
<1> QED BY <1>1, InitReader, Invariance, PTL DEF Spec

\* What an operation on stream s does to the queue its readers see.
LEMMA StreamOpStep ==
  ASSUME NEW s \in Objects, strm[s] \in GoodStreams, strm[s].closed => strm[s].queue = <<>>,
         StreamOp(strm[s], strm'[s]), Told(s)' = Told(s)
  PROVE  [StreamQueue(s)!Next]_(StreamQueue(s)!vars)
<1>told. Told(s)' = Told(s) BY SMTT(60)
<1>1. CASE ViewKept(strm[s], strm'[s])
  BY ZenonT(60), <1>1, <1>told DEF ViewKept, View, Told, StreamQueue!vars
<1>2. CASE ViewPut(strm[s], strm'[s])
  BY ZenonT(60), <1>2, <1>told DEF ViewPut, View, Told, StreamQueue!Next, StreamQueue!Put
<1>3. CASE ViewTaken(strm[s], strm'[s])
  BY ZenonT(60), <1>3, <1>told DEF ViewTaken, View, Told, StreamQueue!Next, StreamQueue!Take
<1>4. CASE ViewSealed(strm[s], strm'[s])
  BY ZenonT(60), <1>4, <1>told DEF ViewSealed, View, Told, StreamQueue!Next, StreamQueue!Seal
<1> QED BY ZenonT(60), <1>1, <1>2, <1>3, <1>4, StreamViews

\* Every step of the connection is a step of the queue of stream s or leaves it alone.
LEMMA StreamStep ==
  ASSUME IInv, ReaderInv, [Next]_vars, NEW s \in Objects
  PROVE  [StreamQueue(s)!Next]_(StreamQueue(s)!vars)
<1>t. nstr \in 0 .. MaxStreams /\ strm \in [Objects -> GoodStreams] BY ZenonT(60) DEF IInv, StreamType
<1>o. s <= nstr \/ s > nstr BY SMTT(60), <1>t DEF Objects
<1>same. ASSUME strm'[s] = strm[s], Told(s)' = Told(s) PROVE [StreamQueue(s)!Next]_(StreamQueue(s)!vars)
  BY ZenonT(60), <1>same DEF Told, StreamQueue!vars
<1>1. CASE UNCHANGED vars
  <2>1. UNCHANGED <<strm, op, pc, cur, res>> BY ZenonT(60), <1>1 DEF vars, dataSide, streamVars, callVars
  <2>2. strm'[s] = strm[s] /\ Told(s)' = Told(s) BY ZenonT(60), <2>1 DEF Told
  <2> QED BY ZenonT(60), <1>same, <2>2
<1>2. ASSUME StreamsMove, Told(s)' = Told(s) PROVE [StreamQueue(s)!Next]_(StreamQueue(s)!vars)
  <2>1. CASE s <= nstr
    BY ZenonT(60), <1>t, <1>2, <2>1, StreamOpStep DEF StreamsMove, ReaderInv
  <2>2. ASSUME NEW i \in StreamIds, NEW j \in StreamIds, strm[s] = newStream(i), strm'[s] = newStream(j)
        PROVE  [StreamQueue(s)!Next]_(StreamQueue(s)!vars)
    <3>1. /\ strm'[s].stale = strm[s].stale /\ strm'[s].queue = strm[s].queue
          /\ strm'[s].returned = strm[s].returned /\ strm'[s].closed = strm[s].closed
      <4>1. \A k \in StreamIds : /\ newStream(k).stale = <<>> /\ newStream(k).queue = <<>>
                                 /\ newStream(k).returned = <<>> /\ newStream(k).closed = FALSE
        BY ZenonT(60) DEF newStream
      <4> QED BY ZenonT(60), <2>2, <4>1
    <3> QED BY ZenonT(60), <1>2, <3>1 DEF Told, StreamQueue!vars
  <2>3. CASE s > nstr BY ZenonT(60), <1>2, <1>same, <2>2, <2>3 DEF StreamsMove, ReaderInv
  <2> QED BY ZenonT(60), <1>o, <2>1, <2>3
<1>3. ASSUME NEW p \in Users, CallFrame(p), p \in Told(s), Told(s)' = Told(s) \ {p}
      PROVE  [StreamQueue(s)!Next]_(StreamQueue(s)!vars)
  <2>1. s <= nstr /\ strm[s].closed BY ZenonT(60), <1>3 DEF ReaderInv
  <2>2. s # nstr + 1 BY SMTT(60), <1>t, <2>1 DEF Objects
  <2>3. strm'[s] = strm[s]
    BY ZenonT(60), <1>t, <1>3, <2>1, <2>2 DEF CallFrame, CallNewStream, Allocate, CallStreamClose, Swapped
  <2> QED BY ZenonT(60), <1>3, <2>3 DEF Told, StreamQueue!Next, StreamQueue!Leave
<1>4. ASSUME NEW p \in Users, pc[p] = "SStale", strm[s].stale = <<>>, UNCHANGED strm, s = cur[p],
             Told(s)' = Told(s) \cup {p}
      PROVE  [StreamQueue(s)!Next]_(StreamQueue(s)!vars)
  <2>1. strm[s].closed BY ZenonT(60), <1>4 DEF IInv, StreamInv, StreamUserInv
  <2>2. strm[s].stale \o strm[s].queue = <<>> BY ZenonT(60), <1>4, <2>1, QueueEmpty DEF ReaderInv
  <2> QED BY ZenonT(60), <1>4, <2>1, <2>2 DEF Told, StreamQueue!Next, StreamQueue!ReportEnd
<1>5. CASE Next
  <2>1. StreamsMove /\ ToldMove BY ZenonT(60), <1>5, NextReader
  <2>2. \/ Told(s)' = Told(s)
        \/ \E p \in Users : CallFrame(p) /\ p \in Told(s) /\ Told(s)' = Told(s) \ {p}
        \/ \E p \in Users : /\ pc[p] = "SStale" /\ strm[s].stale = <<>> /\ UNCHANGED strm /\ s = cur[p]
                            /\ Told(s)' = Told(s) \cup {p}
    <3>1. CASE \A t \in Objects : Told(t)' = Told(t) BY ZenonT(60), <3>1
    <3>2. ASSUME NEW p \in Users, CallFrame(p), \A t \in Objects : Told(t)' = Told(t) \ {p}
          PROVE  Told(s)' = Told(s) \/ (p \in Told(s) /\ Told(s)' = Told(s) \ {p})
      <4>1. Told(s)' = Told(s) \ {p} BY ZenonT(60), <3>2
      <4>2. p \notin Told(s) => Told(s) \ {p} = Told(s) BY ZenonT(60)
      <4> QED BY ZenonT(60), <4>1, <4>2
    <3>3. ASSUME NEW p \in Users,
                 \A t \in Objects : Told(t)' = IF t = cur[p] THEN Told(t) \cup {p} ELSE Told(t)
          PROVE  Told(s)' = Told(s) \/ (s = cur[p] /\ Told(s)' = Told(s) \cup {p})
      BY ZenonT(60), <3>3
    <3> QED BY ZenonT(60), <2>1, <3>1, <3>2, <3>3 DEF ToldMove
  <2> QED BY ZenonT(60), <1>2, <1>3, <1>4, <2>1, <2>2
<1> QED BY ZenonT(60), <1>1, <1>5

\* Every stream is an atomic queue to its readers, across its end from either side and the
\* end of the connection.
THEOREM StreamRefinesQueue == Spec => StreamIsQueue
<1>1. IInv /\ ReaderInv /\ [Next]_vars => \A s \in Objects : [StreamQueue(s)!Next]_(StreamQueue(s)!vars)
  BY ZenonT(60), StreamStep
<1> QED BY <1>1, Invariance, ReaderInvariance, PTL DEF Spec, StreamIsQueue

-----------------------------------------------------------------------------
(* The error of the connection, and what is written to it.                 *)

\* OneCloseFrame of a sequence of chunks.
OneEnd(o) ==
  \A s \in Objects : \A i, j \in 1 .. Len(o) : Ends(o[i].pkt, s) /\ Ends(o[j].pkt, s) => i = j

OneFrame(o) ==
  \A i, j \in 1 .. Len(o) :
    (o[i].pkt.st # 0 /\ o[i].pkt.len = 0 /\ o[j].pkt.len = 0 /\ o[i].pkt.st = o[j].pkt.st) => i = j

\* It is what OneCloseFrame says of the chunks written.
LEMMA OneEndOut ==
  ASSUME NEW o \in Seq(Chunks)
  PROVE  OneFrame(o) <=> OneEnd(o)
<1>0. ASSUME NEW i \in 1 .. Len(o) PROVE o[i].pkt.st \in 0 .. MaxStreams
  <2>1. o[i] \in Chunks BY SMTT(60), <1>0
  <2> QED BY ZenonT(60), <2>1 DEF Chunks, Packets
<1>1. 0 \notin Objects /\ \A s \in 0 .. MaxStreams : s # 0 => s \in Objects
  BY SMTT(60), BoundsAssumption DEF Objects
<1>2. ASSUME OneFrame(o) PROVE OneEnd(o)
  <2> SUFFICES ASSUME NEW s \in Objects, NEW i \in 1 .. Len(o), NEW j \in 1 .. Len(o),
                      Ends(o[i].pkt, s), Ends(o[j].pkt, s)
               PROVE  i = j
    BY ZenonT(60) DEF OneEnd
  <2> QED BY ZenonT(60), <1>1, <1>2 DEF OneFrame, Ends
<1>3. ASSUME OneEnd(o) PROVE OneFrame(o)
  <2> SUFFICES ASSUME NEW i \in 1 .. Len(o), NEW j \in 1 .. Len(o), o[i].pkt.st # 0,
                      o[i].pkt.len = 0, o[j].pkt.len = 0, o[i].pkt.st = o[j].pkt.st
               PROVE  i = j
    BY ZenonT(60) DEF OneFrame
  <2>1. o[i].pkt.st \in Objects BY ZenonT(60), <1>0, <1>1
  <2>2. Ends(o[i].pkt, o[i].pkt.st) /\ Ends(o[j].pkt, o[i].pkt.st) BY ZenonT(60) DEF Ends
  <2> QED BY ZenonT(60), <1>3, <2>1, <2>2 DEF OneEnd
<1> QED BY ZenonT(60), <1>2, <1>3

\* Goroutine q is about to write the empty packet that ends stream s.
Pending(q, s) == pc[q] \in {"WLock", "WMeta"} /\ Ends(pkt[q], s)

\* No step of closeSend or writePacket sends the end of a stream a second time.
LEMMA EndStep ==
  ASSUME WriteType, StreamType, StreamsKept, WholeInv, EndInv, NEW p \in Procs, OutStep(p), Fresh(p)
  PROVE  EndInv'
<1>0. /\ Out \in Seq(Chunks) /\ pkt[p] \in Packets /\ Meta(pkt[p]) \in Chunks /\ Body(pkt[p]) \in Chunks
      /\ Meta(pkt[p]).pkt = pkt[p] /\ Body(pkt[p]).pkt = pkt[p]
  BY ZenonT(60), OutMoves DEF WriteType, Meta, Body, Chunks
<1>e. /\ OneEnd(Out)
      /\ \A s \in Objects : \A i \in 1 .. Len(Out) : Ends(Out[i].pkt, s) => s <= nstr /\ strm[s].closed
      /\ \A s \in Objects : \A q \in Procs : Pending(q, s) =>
           /\ s <= nstr /\ strm[s].closed /\ \A i \in 1 .. Len(Out) : ~Ends(Out[i].pkt, s)
           /\ \A r \in Procs : Pending(r, s) => q = r
  <2>1. OneFrame(Out) BY ZenonT(60) DEF EndInv, OneCloseFrame, OneFrame, Out
  <2>2. OneEnd(Out) BY ZenonT(60), <1>0, <2>1, OneEndOut
  <2> QED BY ZenonT(60), <2>2 DEF EndInv, Pending
<1>s. ASSUME NEW s \in Objects, s <= nstr, strm[s].closed PROVE s <= nstr' /\ strm'[s].closed
  <2>1. nstr \in 0 .. MaxStreams /\ nstr' \in nstr .. MaxStreams /\ MaxStreams \in Nat
    BY ZenonT(60), BoundsAssumption DEF StreamType, StreamsKept
  <2>2. s \in 1 .. nstr /\ s <= nstr' BY SMTT(60), <1>s, <2>1 DEF Objects
  <2> QED BY ZenonT(60), <1>s, <2>2 DEF StreamsKept
<1>q. ASSUME NEW q \in Procs, q # p PROVE pc'[q] = pc[q] /\ pkt'[q] = pkt[q]
  BY ZenonT(60), <1>q DEF OutStep, Moves
<1>p. \A q \in Loops : pkt'[q].st = 0
  <2>1. Loops \subseteq Procs BY ZenonT(60) DEF Procs
  <2> QED BY ZenonT(60), <1>q, <2>1 DEF Fresh, EndInv
<1>done. ASSUME Out' \in Seq(Chunks), OneEnd(Out'),
                \A s \in Objects : \A i \in 1 .. Len(Out') :
                  Ends(Out'[i].pkt, s) => s <= nstr' /\ strm'[s].closed,
                \A s \in Objects : \A q \in Procs : Pending(q, s)' =>
                  /\ s <= nstr' /\ strm'[s].closed /\ \A i \in 1 .. Len(Out') : ~Ends(Out'[i].pkt, s)
                  /\ \A r \in Procs : Pending(r, s)' => q = r
         PROVE  EndInv'
  <2>1. OneCloseFrame'
    <3>1. OneFrame(Out') BY ZenonT(60), <1>done, OneEndOut
    <3> QED BY ZenonT(60), <3>1 DEF OneCloseFrame, OneFrame, Out
  <2> QED BY ZenonT(60), <1>p, <1>done, <2>1 DEF EndInv, Pending
<1>1. ASSUME NEW c \in Chunks, Out' = Append(Out, c), c.pkt = pkt[p], pc'[p] \notin {"WLock", "WMeta"},
             \A s \in Objects : Ends(pkt[p], s) => pc[p] = "WMeta"
      PROVE  EndInv'
  <2>1. /\ Out' \in Seq(Chunks)
        /\ \A i \in 1 .. Len(Out') : \/ i \in 1 .. Len(Out) /\ Out'[i] = Out[i]
                                     \/ i = Len(Out) + 1 /\ Out'[i].pkt = pkt[p]
    <3> DEFINE n == Out'  o == Out
    <3>1. n = Append(o, c) /\ o \in Seq(Chunks) BY ZenonT(60), <1>0, <1>1
    <3> HIDE DEF n, o
    <3>2. /\ n \in Seq(Chunks)
          /\ \A i \in 1 .. Len(n) : (i \in 1 .. Len(o) /\ n[i] = o[i]) \/ (i = Len(o) + 1 /\ n[i] = c)
      BY SMTT(60), <3>1, GrownAt
    <3> QED BY ZenonT(60), <1>1, <3>2 DEF n, o
  <2>2. \A s \in Objects : Ends(pkt[p], s) => Pending(p, s) BY ZenonT(60), <1>1 DEF Pending
  <2>3. \A s \in Objects : \A q \in Procs : Pending(q, s)' => q # p /\ Pending(q, s)
    BY ZenonT(60), <1>1, <1>q DEF Pending
  <2>4. OneEnd(Out')
    <3> SUFFICES ASSUME NEW s \in Objects, NEW i \in 1 .. Len(Out'), NEW j \in 1 .. Len(Out'),
                        Ends(Out'[i].pkt, s), Ends(Out'[j].pkt, s)
                 PROVE  i = j
      BY ZenonT(60) DEF OneEnd
    <3>1. CASE Ends(pkt[p], s)
      <4>1. \A k \in 1 .. Len(Out) : ~Ends(Out[k].pkt, s) BY ZenonT(60), <1>e, <2>2, <3>1
      <4>2. i = Len(Out) + 1 /\ j = Len(Out) + 1 BY ZenonT(60), <2>1, <4>1
      <4> QED BY ZenonT(60), <4>2
    <3>2. CASE ~Ends(pkt[p], s)
      <4>1. i \in 1 .. Len(Out) /\ j \in 1 .. Len(Out) /\ Ends(Out[i].pkt, s) /\ Ends(Out[j].pkt, s)
        BY ZenonT(60), <2>1, <3>2
      <4> QED BY ZenonT(60), <1>e, <4>1 DEF OneEnd
    <3> QED BY ZenonT(60), <3>1, <3>2
  <2>5. ASSUME NEW s \in Objects, NEW i \in 1 .. Len(Out'), Ends(Out'[i].pkt, s)
        PROVE  s <= nstr' /\ strm'[s].closed
    <3>1. s <= nstr /\ strm[s].closed BY ZenonT(60), <1>e, <2>1, <2>2, <2>5
    <3> QED BY ZenonT(60), <1>s, <3>1
  <2>6. ASSUME NEW s \in Objects, NEW q \in Procs, Pending(q, s)'
        PROVE  /\ s <= nstr' /\ strm'[s].closed /\ \A i \in 1 .. Len(Out') : ~Ends(Out'[i].pkt, s)
               /\ \A r \in Procs : Pending(r, s)' => q = r
    <3>1. q # p /\ Pending(q, s) BY ZenonT(60), <2>3, <2>6
    <3>2. /\ s <= nstr /\ strm[s].closed /\ \A i \in 1 .. Len(Out) : ~Ends(Out[i].pkt, s)
          /\ \A r \in Procs : Pending(r, s) => q = r
      BY ZenonT(60), <1>e, <3>1
    <3>3. ~Ends(pkt[p], s) BY ZenonT(60), <2>2, <3>1, <3>2
    <3> QED BY ZenonT(60), <1>s, <2>1, <2>3, <3>2, <3>3
  <2> QED BY ZenonT(60), <1>done, <2>1, <2>4, <2>5, <2>6
<1>2. ASSUME Out' = Out, pc'[p] = "WMeta" => pc[p] = "WLock" /\ pkt' = pkt PROVE EndInv'
  <2>1. ASSUME NEW s \in Objects, NEW q \in Procs, Pending(q, s)'
        PROVE  Pending(q, s) \/ (q = p /\ s <= nstr /\ ~strm[s].closed /\ strm'[s].closed)
    <3>1. CASE q # p BY ZenonT(60), <1>q, <2>1, <3>1 DEF Pending
    <3>2. CASE q = p /\ pc'[p] = "WMeta" BY ZenonT(60), <1>2, <2>1, <3>2 DEF Pending
    <3>3. CASE q = p /\ pc'[p] = "WLock" BY ZenonT(60), <2>1, <3>3 DEF Pending, Fresh
    <3> QED BY ZenonT(60), <2>1, <3>1, <3>2, <3>3 DEF Pending
  <2>2. ASSUME NEW s \in Objects, NEW i \in 1 .. Len(Out'), Ends(Out'[i].pkt, s)
        PROVE  s <= nstr' /\ strm'[s].closed
    <3>1. s <= nstr /\ strm[s].closed BY ZenonT(60), <1>e, <1>2, <2>2
    <3> QED BY ZenonT(60), <1>s, <3>1
  <2>3. ASSUME NEW s \in Objects, NEW q \in Procs, Pending(q, s)'
        PROVE  /\ s <= nstr' /\ strm'[s].closed /\ \A i \in 1 .. Len(Out') : ~Ends(Out'[i].pkt, s)
               /\ \A r \in Procs : Pending(r, s)' => q = r
    <3>1. CASE Pending(q, s)
      <4>1. /\ s <= nstr /\ strm[s].closed /\ \A i \in 1 .. Len(Out) : ~Ends(Out[i].pkt, s)
            /\ \A r \in Procs : Pending(r, s) => q = r
        BY ZenonT(60), <1>e, <3>1
      <4>2. \A r \in Procs : Pending(r, s)' => q = r BY ZenonT(60), <2>1, <4>1
      <4> QED BY ZenonT(60), <1>s, <1>2, <4>1, <4>2
    <3>2. CASE q = p /\ s <= nstr /\ ~strm[s].closed /\ strm'[s].closed
      <4>1. \A i \in 1 .. Len(Out') : ~Ends(Out'[i].pkt, s) BY ZenonT(60), <1>e, <1>2, <3>2
      <4>2. \A r \in Procs : Pending(r, s)' => q = r BY ZenonT(60), <1>e, <2>1, <3>2
      <4>3. s <= nstr'
        <5>1. nstr \in 0 .. MaxStreams /\ nstr' \in nstr .. MaxStreams /\ MaxStreams \in Nat
          BY ZenonT(60), BoundsAssumption DEF StreamType, StreamsKept
        <5> QED BY SMTT(60), <3>2, <5>1 DEF Objects
      <4> QED BY ZenonT(60), <3>2, <4>1, <4>2, <4>3
    <3> QED BY ZenonT(60), <2>1, <2>3, <3>1, <3>2
  <2>4. Out' \in Seq(Chunks) /\ OneEnd(Out') BY ZenonT(60), <1>0, <1>2, <1>e
  <2> QED BY ZenonT(60), <1>done, <2>2, <2>3, <2>4
<1>3. CASE /\ pc[p] = "WMeta" /\ pc'[p] = (IF pkt[p].len > 0 THEN "WBody" ELSE "WSend")
           /\ Out' = Append(Out, Meta(pkt[p])) /\ ~werr /\ UNCHANGED <<werr, pkt, acked>>
  <2>1. pc'[p] \notin {"WLock", "WMeta"} BY ZenonT(60), <1>3
  <2> QED BY ZenonT(60), <1>0, <1>1, <1>3, <2>1
<1>4. CASE /\ pc[p] = "WBody" /\ pc'[p] = "WSend"
           /\ Out' = Append(Out, Body(pkt[p])) /\ ~werr /\ UNCHANGED <<werr, pkt, acked>>
  <2>1. pkt[p].len > 0 BY ZenonT(60), <1>4 DEF WholeInv
  <2>2. pkt[p].len # 0 BY SMTT(60), <2>1
  <2>3. pc'[p] \notin {"WLock", "WMeta"} BY ZenonT(60), <1>4
  <2> QED BY ZenonT(60), <1>0, <1>1, <1>4, <2>2, <2>3 DEF Ends
<1>5. CASE /\ pc[p] = "WSend" /\ pc'[p] \notin WriterPCs \cup {"WLock"}
           /\ acked' = acked \cup {pkt[p]} /\ Out' = Out /\ UNCHANGED <<werr, pkt>>
  BY ZenonT(60), <1>2, <1>5 DEF WriterPCs
<1> QED BY ZenonT(60), <1>2, <1>3, <1>4, <1>5 DEF OutStep, Written

\* A new connection has written nothing and has no error.
LEMMA InitSent == Init => ErrorInv /\ OutInv
<1> SUFFICES ASSUME Init PROVE ErrorInv /\ OutInv
  BY SMTT(60)
<1>o. Out = <<>> /\ Len(Out) = 0 /\ 1 .. Len(Out) = {}
  <2>1. Out = <<>> \o <<>> BY ZenonT(60) DEF Init, Out
  <2> QED BY SMTT(60), <2>1
<1>p. /\ None \notin Procs /\ Loops \subseteq Procs
      /\ \A p \in Procs : pc[p] \in {"Recv", "Select", "Arm", "Idle"}
  BY ZenonT(60), Identity DEF Init, Procs
<1>1. ErrorInv
  <2>1. \A p \in Procs : pc[p] \notin InClose BY ZenonT(60), <1>p DEF InClose, PostSwap
  <2>2. errorMu = None /\ ~closed BY ZenonT(60) DEF Init
  <2> QED BY ZenonT(60), <1>p, <2>1, <2>2 DEF ErrorInv
<1>2. WholeInv
  <2>1. PacketsWhole BY ZenonT(60), <1>o DEF PacketsWhole, Out
  <2>2. \A p \in Procs : pc[p] # "WBody" BY ZenonT(60), <1>p
  <2> QED BY ZenonT(60), <1>o, <2>1, <2>2 DEF WholeInv
<1>3. AckInv
  <2>1. \A p \in Procs : pc[p] \notin {"WBody", "WSend"} BY ZenonT(60), <1>p
  <2> QED BY ZenonT(60), <2>1 DEF AckInv, Init
<1>4. FlushedInv BY ZenonT(60) DEF FlushedInv, Init
<1>5. EndInv
  <2>1. OneCloseFrame BY ZenonT(60), <1>o DEF OneCloseFrame, Out
  <2>2. \A p \in Procs : pc[p] \notin {"WLock", "WMeta"} BY ZenonT(60), <1>p
  <2>3. \A p \in Loops : pkt[p].st = 0 BY ZenonT(60), <1>p DEF Init, Heartbeat
  <2> QED BY ZenonT(60), <1>o, <2>1, <2>2, <2>3 DEF EndInv
<1> QED BY ZenonT(60), <1>1, <1>2, <1>3, <1>4, <1>5 DEF OutInv

\* Every step, and stuttering, keeps what is known of the error and of what was written.
LEMMA NextSent == IInv /\ ErrorInv /\ OutInv /\ [Next]_vars => (ErrorInv /\ OutInv)'
<1>1. ASSUME IInv, ErrorInv, OutInv, Next PROVE (ErrorInv /\ OutInv)'
  <2>0. /\ Typed /\ Control /\ LockInv /\ WriteType /\ StreamType /\ StreamInv
        /\ cur \in [Procs -> 0 .. MaxStreams] /\ nstr \in 0 .. MaxStreams /\ rbuf \in Seq(InPackets)
    BY ZenonT(60), <1>1 DEF IInv, Typed, Control, StreamType, QueueInv
  <2>1. Effects BY ZenonT(60), <1>1, <2>0, StepEffects
  <2>2. StreamsKept BY ZenonT(60), <2>0, <2>1, StreamMoves, StreamsStep
  <2>3. WholeInv /\ AckInv /\ FlushedInv /\ EndInv BY ZenonT(60), <1>1 DEF OutInv
  <2>4. \A p \in Loops : pkt[p].st = 0 BY ZenonT(60), <2>3 DEF EndInv
  <2>5. PICK p \in Procs : OutStep(p) /\ Fresh(p) BY ZenonT(60), <2>0, <2>1, <2>4, OutSteps
  <2>6. ErrorInv' BY ZenonT(60), <1>1, <2>0, <2>1, ErrorStep
  <2>7. WholeInv' BY ZenonT(60), <2>0, <2>3, <2>5, WholeStep
  <2>8. AckInv' BY ZenonT(60), <2>0, <2>3, <2>5, AckStep
  <2>9. FlushedInv' BY ZenonT(60), <2>0, <2>1, <2>3, FlushedStep
  <2>10. EndInv' BY ZenonT(60), <2>0, <2>2, <2>3, <2>5, EndStep
  <2> QED BY ZenonT(60), <2>6, <2>7, <2>8, <2>9, <2>10 DEF OutInv
<1>2. ASSUME ErrorInv, OutInv, UNCHANGED vars PROVE (ErrorInv /\ OutInv)'
  <2>0. UNCHANGED <<wire, wbuf, werr, acked, pkt, pc, op, nstr, strm, closed, error, errorMu, reason, cause>>
    BY ZenonT(60), <1>2 DEF vars, connSide, dataSide, lockVars, stateVars, writeVars, streamVars, callVars
  <2>1. Out' = Out BY ZenonT(60), <2>0 DEF Out
  <2>2. ErrorInv'
    <3>1. \A p \in Procs : Closing(p)' = Closing(p) BY ZenonT(60), <2>0 DEF Closing
    <3> QED BY ZenonT(60), <1>2, <2>0, <3>1 DEF ErrorInv
  <2>3. WholeInv' BY ZenonT(60), <1>2, <2>0, <2>1 DEF OutInv, WholeInv, PacketsWhole
  <2>4. AckInv' BY ZenonT(60), <1>2, <2>0, <2>1 DEF OutInv, AckInv
  <2>5. FlushedInv' BY ZenonT(60), <1>2, <2>0 DEF OutInv, FlushedInv, TornDown
  <2>6. EndInv' BY ZenonT(60), <1>2, <2>0, <2>1 DEF OutInv, EndInv, OneCloseFrame
  <2> QED BY ZenonT(60), <2>2, <2>3, <2>4, <2>5, <2>6 DEF OutInv
<1> QED BY ZenonT(60), <1>1, <1>2

\* What is known of c.error and of the packets written holds in every reachable state.
THEOREM SentInvariance == Spec => [](ErrorInv /\ OutInv)
<1>1. Init => ErrorInv /\ OutInv BY ZenonT(60), InitSent
<1>2. IInv /\ (ErrorInv /\ OutInv) /\ [Next]_vars => (ErrorInv /\ OutInv)' BY ZenonT(60), NextSent
<1> QED BY <1>1, <1>2, Invariance, PTL DEF Spec

\* Error() of a connection that closed with an error says so.
THEOREM ErrorsKnown == Spec => []ErrorKnown
<1>1. ErrorInv /\ OutInv => ErrorKnown BY ZenonT(60) DEF ErrorInv, ErrorKnown, TornDown
<1> QED BY <1>1, SentInvariance, PTL

\* Concurrent writers, heartbeats and flushes never interleave two packets.
THEOREM WritesWhole == Spec => []PacketsWhole
<1>1. ErrorInv /\ OutInv => PacketsWhole BY ZenonT(60) DEF OutInv, WholeInv
<1> QED BY <1>1, SentInvariance, PTL

\* When close() is over, the packets whose writePacket returned nil are on the wire.
THEOREM ClosedDelivers == Spec => []CloseDelivers
<1>1. IInv /\ (ErrorInv /\ OutInv) => CloseDelivers
  <2> SUFFICES ASSUME IInv, OutInv, TornDown, ~werr, NEW k \in acked
               PROVE  Meta(k) \in Range(wire) /\ (k.len > 0 => Body(k) \in Range(wire))
    BY ZenonT(60) DEF CloseDelivers, Meta, Body
  <2>1. wbuf = <<>> /\ wire \in Seq(Chunks) BY ZenonT(60) DEF OutInv, FlushedInv, IInv, WriteType
  <2>2. Out = wire BY SMTT(60), <2>1 DEF Out
  <2> QED BY ZenonT(60), <2>2 DEF OutInv, AckInv
<1> QED BY <1>1, Invariance, SentInvariance, PTL

\* The end of a stream is sent at most once, whoever closes it.
THEOREM OneEndSent == Spec => []OneCloseFrame
<1>1. ErrorInv /\ OutInv => OneCloseFrame BY ZenonT(60) DEF OutInv, EndInv
<1> QED BY <1>1, SentInvariance, PTL

=============================================================================
