--------------------------- MODULE AsyncConnSteps ---------------------------
(***************************************************************************)
(* What each kind of step of an Async connection does: the variables it    *)
(* leaves alone, where its goroutine goes and which mutexes and channels it*)
(* changes. The proofs of the invariant use these effects instead of the   *)
(* actions. The parts of the invariant that hold no packets are here too.  *)
(***************************************************************************)
EXTENDS AsyncConnInv, TLAPS

Typed == pc \in [Procs -> Labels] /\ StateType /\ ProcType

\* Goroutine p has moved, the others have not.
Moves(p) == pc' \in [Procs -> Labels] /\ \A q \in Procs : q # p => pc'[q] = pc[q]

-----------------------------------------------------------------------------
\* writePacket: c.Mutex goes with the critical section, and a writer that lets it go has
\* woken flushLoop or left an error.
WriteEffect(p) ==
  /\ UNCHANGED <<staleMu, streamsMu, errorMu, stateVars, connVars, dataSide, res>>
  /\ Moves(p) /\ cause' \in [Procs -> Errors] /\ flushCh' \in {0, 1} /\ werr' \in BOOLEAN
  /\ pc[p] \in {"WLock", "WErr"} \cup WriterPCs
  /\ p \in Loops => pc'[p] \in {"WErr", "Done", "Select", "Next"} \cup WriterPCs
  /\ p \in Users => pc'[p] \in {"WErr", "ELock", "KDelete", "Idle"} \cup WriterPCs
  /\ pc'[p] = "KDelete" => op[p] = "StreamClose"
  /\ pc'[p] \in WriterPCs /\ pc[p] \notin WriterPCs => ~closed /\ mu = None
  /\ mu' = IF pc'[p] \in WriterPCs THEN p ELSE IF pc[p] \in WriterPCs THEN None ELSE mu
  /\ werr' \/ flushCh' > 0 \/ mu' # None \/ UNCHANGED <<wbuf, werr, flushCh, mu>>

\* Each step of writePacket has that effect.
LEMMA WriteEffects ==
  ASSUME Typed, Control, NEW p \in Procs, WriteStep(p)
  PROVE  WriteEffect(p)
<1>0. /\ p \in Users => op[p] \notin {"Close", "Raw"}
      /\ pc[p] \in WriterPCs => mu = p
      /\ p # None
  <2>1. pc[p] \in {"WLock", "WErr"} \cup WriterPCs
    BY ZenonT(60)
       DEF WriteStep, WriteLock, WriteMeta, WriteBody, WriteChunk, WriteSend, WriteError, WriterPCs
  <2> QED BY ZenonT(60), <2>1, UsersAssumption DEF Control, OpInv, LockInv, Procs
<1>1. CASE WriteLock(p)
  BY SMTT(60), <1>0, <1>1, UsersAssumption
     DEF WriteEffect, Moves, Typed, StateType, ProcType, Errors, Labels,
     Goto, WriterPCs, WriteLock, WriteReturns, FailLoop, ReturnToUser, writeVars, dataSide, callVars
<1>2. ASSUME NEW l, NEW part, NEW next \in {"WBody", "WSend"}, l \in {"WMeta", "WBody"},
             WriteChunk(p, l, part, next)
      PROVE  WriteEffect(p)
  <2>1. CASE pc'[p] = next
    <3>1. BufferedWrite([pkt |-> pkt[p], part |-> part]) /\ Goto(p, next) /\ UNCHANGED <<mu, cause>>
      BY ZenonT(60), <1>2, <2>1 DEF WriteChunk, Goto, Typed
    <3> QED
      BY ZenonT(60), <1>0, <1>2, <3>1 DEF WriteEffect, Moves, Typed, StateType, ProcType, Labels, Goto,
       WriterPCs, WriteChunk, BufferedWrite, WriteOut
  <2>2. CASE pc'[p] # next
    <3>1. BufferedWriteFails /\ mu' = None /\ Goto(p, "WErr")
          /\ cause' = [cause EXCEPT ![p] = "WriteError"]
      BY ZenonT(60), <1>2, <2>2 DEF WriteChunk, Goto, Typed
    <3>2. werr' = TRUE BY ZenonT(60), <3>1 DEF BufferedWriteFails, WriteOutFails, Typed, StateType
    <3> QED
      BY ZenonT(60), <1>0, <1>2, <3>1, <3>2 DEF WriteEffect, Moves, Typed, StateType, ProcType, Errors,
       Labels, Goto, WriterPCs, WriteChunk
  <2> QED BY ZenonT(60), <2>1, <2>2
<1>3. CASE WriteMeta(p) BY ZenonT(60), <1>2, <1>3 DEF WriteMeta
<1>4. CASE WriteBody(p) BY ZenonT(60), <1>2, <1>4 DEF WriteBody
<1>5. CASE WriteSend(p)
  BY SMTT(60), <1>0, <1>5, UsersAssumption
     DEF WriteEffect, Moves, Typed, StateType, ProcType, Labels, Loops,
     Goto, WriterPCs, WriteSend, WriteSucceeds, ReturnToUser, Wake, dataSide, callVars
<1>6. CASE WriteError(p)
  BY SMTT(60), <1>0, <1>6, UsersAssumption
     DEF WriteEffect, Moves, Typed, StateType, ProcType, Errors, Labels,
     Goto, WriterPCs, WriteError, WriteReturns, FailLoop, ReturnToUser, connSide, lockVars, writeVars,
     dataSide, callVars
<1> QED BY ZenonT(60), <1>1, <1>3, <1>4, <1>5, <1>6 DEF WriteStep

\* flush: its caller goes on, to closeWithError after an error.
FlushEffect(p) ==
  /\ UNCHANGED <<lockVars, stateVars, flushCh, acked, connVars, dataSide, res>>
  /\ Moves(p) /\ cause' \in [Procs -> Errors] /\ werr' \in BOOLEAN
  /\ pc[p] = "FLock"
  /\ p \in Loops => pc'[p] \in {"Done", "Recv"}
  /\ p \in Users => pc'[p] \in {"ELock", "KDelete", "Idle"}
  /\ pc'[p] = "KDelete" => op[p] = "StreamClose"
  /\ wbuf' = <<>> \/ werr' \/ (pc'[p] # "Recv" /\ UNCHANGED <<wbuf, werr>>)

\* The critical section of flush has that effect.
LEMMA FlushEffects ==
  ASSUME Typed, Control, NEW p \in Procs, Flush(p)
  PROVE  FlushEffect(p)
<1>1. p \in Users => op[p] \notin {"Close", "Raw"} BY ZenonT(60) DEF Flush, Control, OpInv
<1>2. /\ werr' \in BOOLEAN
      /\ \/ \E e \in Errors : FlushReturns(p, e) /\ (wbuf' = <<>> \/ werr' \/ UNCHANGED <<wbuf, werr>>)
         \/ FlushSucceeds(p) /\ wbuf' = <<>>
  BY ZenonT(60) DEF Flush, WriteOut, WriteOutFails, DeadlineFails, Errors, Typed, StateType
<1>3. CASE FlushSucceeds(p) /\ wbuf' = <<>>
  <2>1. \E l \in {"Recv", "KDelete", "Idle"} :
           /\ Goto(p, l) /\ UNCHANGED <<cause, res>>
           /\ IF l = "Recv" THEN p \in Loops ELSE p \in Users
           /\ l = "KDelete" => op[p] = "StreamClose"
    BY ZenonT(60), <1>1, <1>3 DEF FlushSucceeds, ReturnToUser
  <2> QED
    BY SMTT(60), <1>2, <1>3, <2>1, UsersAssumption
       DEF FlushEffect, Moves, Typed, ProcType, Labels, Goto, Flush
<1>4. ASSUME NEW e \in Errors, FlushReturns(p, e), wbuf' = <<>> \/ werr' \/ UNCHANGED <<wbuf, werr>>
      PROVE  FlushEffect(p)
  <2>1. PICK l \in {"Done", "ELock"} :
          Goto(p, l) /\ UNCHANGED res /\ IF l = "Done" THEN p \in Loops ELSE p \in Users
    BY ZenonT(60), <1>4 DEF FlushReturns, FailLoop
  <2>2. cause' \in [Procs -> Errors]
    BY ZenonT(60), <1>4 DEF FlushReturns, FailLoop, Typed, ProcType
  <2>3. pc'[p] = l /\ Moves(p) BY SMTT(60), <2>1 DEF Moves, Typed, Labels, Goto
  <2>4. p \in Loops <=> p \notin Users BY SMTT(60), UsersAssumption DEF Procs, Loops
  <2>5. /\ UNCHANGED <<lockVars, stateVars, flushCh, acked, connVars, dataSide>>
        /\ pc[p] = "FLock"
    BY ZenonT(60) DEF Flush
  <2>6. /\ p \in Loops => pc'[p] \in {"Done", "Recv"}
        /\ p \in Users => pc'[p] \in {"ELock", "KDelete", "Idle"}
        /\ pc'[p] # "KDelete" /\ pc'[p] # "Recv"
    BY ZenonT(60), <2>1, <2>3, <2>4
  <2> QED BY ZenonT(60), <1>2, <1>4, <2>1, <2>2, <2>3, <2>5, <2>6 DEF FlushEffect
<1> QED BY ZenonT(60), <1>2, <1>3, <1>4

\* wg.Done of a failing loop, the receive of flushLoop and the select of pingLoop.
LoopEffect(p) ==
  /\ UNCHANGED <<lockVars, closed, shut, error, reason, wbuf, werr, wire, acked, connVars, inVars,
                 queueVars, streamVars, op, cur, cause, res>>
  /\ Moves(p) /\ calls' \in [Procs -> Nat] /\ flushCh' \in {0, 1}
  /\ p \in Loops /\ pc[p] \in {"Recv", "Select", "Done"}
  /\ pc'[p] \in {"FLock", "WLock", "ELock", "Exit"}
  /\ wg' = wg \/ (wg' = wg \ {p} /\ pc'[p] \in {"ELock", "Exit"})
  /\ flushCh' = flushCh \/ p = "flushLoop"
  /\ pkt' = pkt \/ pkt' = [pkt EXCEPT ![p] = Heartbeat(p, calls[p] + 1)]

\* The three steps of the loops have that effect.
LEMMA LoopEffects ==
  ASSUME Typed, Control, NEW p \in Procs,
         LoopDone(p) \/ (p = "flushLoop" /\ FlushLoopRecv) \/ (p = "pingLoop" /\ PingLoopSelect)
  PROVE  LoopEffect(p)
<1>1. CASE LoopDone(p)
  <2>1. p \in Loops BY ZenonT(60), <1>1 DEF Control, LabelInv, LoopDone, Procs
  <2> QED
    BY ZenonT(60), <1>1, <2>1 DEF LoopEffect, Moves, Typed, StateType, ProcType, Labels, LoopDone, Goto,
       writeVars, dataSide, callVars
<1>2. CASE p = "flushLoop" /\ FlushLoopRecv
  BY SMTT(60), <1>2 DEF LoopEffect, Moves, Typed, StateType, ProcType, Labels, FlushLoopRecv, Goto, Loops,
     dataSide, callVars
<1>3. CASE p = "pingLoop" /\ PingLoopSelect
  BY SMTT(60), <1>3
     DEF LoopEffect, Moves, Typed, StateType, ProcType, Labels, PingLoopSelect, Goto, Loops,
     writeVars, callVars
<1> QED BY ZenonT(60), <1>1, <1>2, <1>3

-----------------------------------------------------------------------------
\* close: it leaves the calls, the table and what was pushed and returned alone, and each
\* of the queue, the streams, the write buffer and the channels to one of its steps.
CloseFrame(p) ==
  /\ UNCHANGED <<inVars, pushed, returned, handler, streams, nstr, callVars, flushCh, acked, cause>>
  /\ UNCHANGED <<incoming, stale>> \/ CloseWait(p)
  /\ UNCHANGED strm \/ CloseStreams(p)
  /\ UNCHANGED <<wbuf, werr, wire>> \/ CloseFlush(p)
  /\ UNCHANGED shut \/ CloseShut(p)

\* Each step of close() leaves those variables alone.
LEMMA CloseFrames ==
  ASSUME NEW p \in Procs, CloseStep(p)
  PROVE  CloseFrame(p)
<1> USE Zenon DEF CloseFrame, stateVars, writeVars, dataSide, queueVars, streamVars
<1>1. CASE CloseWithError(p) BY ZenonT(60), <1>1 DEF CloseWithError
<1>2. CASE CloseStale(p) BY ZenonT(60), <1>2 DEF CloseStale
<1>3. CASE CloseSwap(p) BY ZenonT(60), <1>3 DEF CloseSwap
<1>4. CASE CloseShut(p) BY ZenonT(60), <1>4 DEF CloseShut
<1>5. CASE ClosePast(p) BY ZenonT(60), <1>5 DEF ClosePast
<1>6. CASE CloseWait(p) BY ZenonT(60), <1>6 DEF CloseWait
<1>7. CASE CloseStreams(p) BY ZenonT(60), <1>7 DEF CloseStreams
<1>8. CASE CloseFlush(p) BY ZenonT(60), <1>8 DEF CloseFlush
<1>9. CASE CloseFin(p) BY ZenonT(60), <1>9 DEF CloseFin
<1> QED BY ZenonT(60), <1>1, <1>2, <1>3, <1>4, <1>5, <1>6, <1>7, <1>8, <1>9 DEF CloseStep

\* Where it goes, and the types it keeps.
CloseEffect(p) ==
  /\ Moves(p) /\ StateType'
  /\ pc[p] \in {"ELock"} \cup InClose
  /\ p \in Loops => pc'[p] \in InClose \cup {"Exit"}
  /\ p \in Users => pc'[p] \in InClose \cup {"Idle", "KDelete"}
  /\ pc'[p] = "KDelete" => op[p] = "StreamClose"
  /\ mu' = mu /\ (closed => closed')
  /\ res' = res \/ (p \in Users /\ res' = [res EXCEPT ![p] = "closed"])

\* Each step of close() moves its goroutine that way.
LEMMA CloseEffects ==
  ASSUME Typed, NEW p \in Procs, CloseStep(p)
  PROVE  CloseEffect(p)
<1>ret. ASSUME CloseReturns(p)
        PROVE  /\ Moves(p) /\ (p \in Loops => pc'[p] = "Exit") /\ (p \in Users => pc'[p] \in {"Idle", "KDelete"})
               /\ pc'[p] = "KDelete" => op[p] = "StreamClose"
               /\ res' = res \/ (p \in Users /\ res' = [res EXCEPT ![p] = "closed"])
  <2>1. CASE p \in Loops
    BY ZenonT(60), <1>ret, <2>1, UsersAssumption DEF CloseReturns, Moves, Typed, Labels, Goto
  <2>2. CASE p \in Users
    BY ZenonT(60), <1>ret, <2>2, UsersAssumption
       DEF CloseReturns, ReturnToUser, Moves, Typed, Labels, Goto
  <2> QED BY ZenonT(60), <2>1, <2>2 DEF Procs
<1>1. CASE CloseWithError(p)
  BY SMTT(60), <1>1 DEF CloseEffect, Moves, Typed, StateType, ProcType, Labels, InClose, PostSwap, Goto,
     CloseWithError, writeVars, connVars
<1>2. CASE CloseStale(p)
  BY SMTT(60), <1>2 DEF CloseEffect, Moves, Typed, StateType, Labels, InClose, PostSwap, Goto, CloseStale,
     stateVars, writeVars, connVars
<1>3. CASE CloseSwap(p)
  <2>1. CASE ~closed
    <3>1. /\ closed' = TRUE /\ streamsMu' = p /\ Goto(p, "CShut") /\ reason' \in Errors
          /\ UNCHANGED <<mu, staleMu, errorMu, shut, wg, error, writeVars, connVars, res>>
      BY ZenonT(60), <1>3, <2>1 DEF CloseSwap, Typed, StateType, ProcType, Errors
    <3> QED
      BY SMTT(60), <1>3, <3>1 DEF CloseEffect, Moves, Typed, StateType, Labels, InClose, PostSwap, Goto,
         CloseSwap, writeVars, connVars
  <2>2. CASE closed
    <3>1. CloseReturns(p) /\ error' \subseteq Errors /\ errorMu' \in {None, errorMu}
      BY ZenonT(60), <1>3, <2>2 DEF CloseSwap, Typed, StateType, ProcType, Errors
    <3> QED
      BY ZenonT(60), <1>3, <1>ret, <2>2, <3>1
         DEF CloseEffect, Typed, StateType, InClose, CloseSwap, writeVars,
         connVars
  <2> QED BY ZenonT(60), <2>1, <2>2
<1>4. CASE CloseShut(p)
  BY SMTT(60), <1>4 DEF CloseEffect, Moves, Typed, StateType, Labels, InClose, PostSwap, Goto, CloseShut,
     lockVars, writeVars, connVars
<1>5. CASE ClosePast(p)
  BY SMTT(60), <1>5 DEF CloseEffect, Moves, Typed, StateType, Labels, InClose, PostSwap, Goto, ClosePast,
     lockVars, stateVars, writeVars
<1>6. CASE CloseWait(p)
  BY SMTT(60), <1>6 DEF CloseEffect, Moves, Typed, StateType, Labels, InClose, PostSwap, Goto, CloseWait,
     stateVars, writeVars
<1>7. CASE CloseStreams(p)
  BY SMTT(60), <1>7
     DEF CloseEffect, Moves, Typed, StateType, Labels, InClose, PostSwap, Goto, CloseStreams,
     stateVars, writeVars, connVars
<1>8. CASE CloseFlush(p)
  <2>1. werr' \in BOOLEAN BY ZenonT(60), <1>8 DEF CloseFlush, WriteOut, WriteOutFails, Typed, StateType
  <2> QED
    BY SMTT(60), <1>8, <2>1 DEF CloseEffect, Moves, Typed, StateType, Labels, InClose, PostSwap, Goto,
       CloseFlush, lockVars, stateVars, connVars
<1>9. CASE CloseFin(p)
  BY ZenonT(60), <1>9, <1>ret
     DEF CloseEffect, Typed, StateType, InClose, PostSwap, CloseFin, stateVars, writeVars
<1> QED BY ZenonT(60), <1>1, <1>2, <1>3, <1>4, <1>5, <1>6, <1>7, <1>8, <1>9 DEF CloseStep

-----------------------------------------------------------------------------
\* readLoop: it takes packets from its buffer and pushes them to c.incoming or to a stream.
ReadFrame ==
  /\ UNCHANGED <<lockVars, stateVars, writeVars, conn, op, stale, returned, handler, res>>
  /\ pkt' = pkt \/ pkt' = [pkt EXCEPT !["readLoop"] = Heartbeat("readLoop", calls["readLoop"] + 1)]
  /\ \/ UNCHANGED <<incoming, pushed>>
     \/ /\ ~shut /\ rbuf # <<>>
        /\ incoming' = Append(incoming, Head(rbuf)) /\ pushed' = Append(pushed, Head(rbuf))
  /\ \/ UNCHANGED <<inbox, rbuf>>
     \/ /\ UNCHANGED inbox /\ rbuf' = Tail(rbuf)
        /\ rbuf # <<>> \/ pc["readLoop"] \in {"Lookup", "DropStream", "PushStream"}
     \/ \E k \in 1 .. Len(inbox) : /\ rbuf' = SubSeq(inbox, 1, k)
                                   /\ inbox' = SubSeq(inbox, k + 1, Len(inbox))
  /\ UNCHANGED streams \/ StreamDrop \/ StreamAdd
  /\ UNCHANGED <<nstr, strm>> \/ StreamEnd \/ StreamAdd \/ StreamPush
  /\ UNCHANGED cur \/ StreamLookup \/ StreamAdd

\* Each step of readLoop leaves those variables alone.
LEMMA ReadFrames ==
  ASSUME ReadLoopStep
  PROVE  ReadFrame
<1> USE Zenon DEF ReadFrame, connSide, connVars, inVars, queueVars, streamVars, callVars
<1>1. CASE ReadArm BY ZenonT(60), <1>1 DEF ReadArm, FailLoop, dataSide
<1>2. CASE ReadConn BY ZenonT(60), <1>2 DEF ReadConn, FailLoop
<1>3. CASE ReadNext BY ZenonT(60), <1>3 DEF ReadNext, FailLoop
<1>4. CASE StreamLookup BY ZenonT(60), <1>4 DEF StreamLookup
<1>5. CASE StreamEnd BY ZenonT(60), <1>5 DEF StreamEnd
<1>6. CASE StreamDrop BY ZenonT(60), <1>6 DEF StreamDrop
<1>7. CASE StreamAdd BY ZenonT(60), <1>7 DEF StreamAdd
<1>8. CASE StreamPush BY ZenonT(60), <1>8 DEF StreamPush, FailLoop
<1> QED BY ZenonT(60), <1>1, <1>2, <1>3, <1>4, <1>5, <1>6, <1>7, <1>8 DEF ReadLoopStep

ReadPCs == {"Arm", "Read", "Next", "Lookup", "EndStream", "DropStream", "AddStream", "PushStream"}

\* It goes on until an error, and holds no mutex between two steps.
ReadEffect ==
  /\ Moves("readLoop") /\ deadline' \in {"none", "armed", "past"}
  /\ cause' \in [Procs -> Errors] /\ calls' \in [Procs -> Nat]
  /\ pc["readLoop"] \in ReadPCs /\ pc'["readLoop"] \in ReadPCs \cup {"WLock", "Done"}

\* Each step of readLoop moves it that way.
LEMMA ReadEffects ==
  ASSUME Typed, ReadLoopStep
  PROVE  ReadEffect
<1>0. "readLoop" \in Procs BY ZenonT(60) DEF Procs, Loops
<1>fail. ASSUME NEW e \in Errors, FailLoop("readLoop", e), UNCHANGED <<deadline, calls>>,
                pc["readLoop"] \in ReadPCs
         PROVE  ReadEffect
  BY ZenonT(60), <1>0, <1>fail DEF ReadEffect, Moves, Typed, StateType, ProcType, Labels, FailLoop, Goto
<1>go. ASSUME NEW l \in ReadPCs \cup {"WLock"}, Goto("readLoop", l), pc["readLoop"] \in ReadPCs,
              UNCHANGED cause, deadline' \in {deadline, "armed"},
              calls' = calls \/ calls' = [calls EXCEPT !["readLoop"] = @ + 1]
       PROVE  ReadEffect
  BY SMTT(60), <1>0, <1>go DEF ReadEffect, ReadPCs, Moves, Typed, StateType, ProcType, Labels, Goto
<1> USE DEF ReadPCs, connSide, connVars, callVars
<1>1. CASE ReadArm BY ZenonT(60), <1>fail, <1>go, <1>1 DEF ReadArm, Errors, dataSide
<1>2. CASE ReadConn BY ZenonT(60), <1>fail, <1>go, <1>2 DEF ReadConn, Errors
<1>3. CASE ReadNext
  <2>1. CASE UNCHANGED <<pc, cause, calls>>
    BY ZenonT(60), <1>3, <2>1 DEF ReadNext, ReadEffect, Moves, Typed, StateType, ProcType
  <2>2. CASE ~UNCHANGED <<pc, cause, calls>>
    BY ZenonT(60), <1>fail, <1>go, <1>3, <2>2 DEF ReadNext, Errors
  <2> QED BY ZenonT(60), <2>1, <2>2
<1>4. CASE StreamLookup BY ZenonT(60), <1>go, <1>4 DEF StreamLookup
<1>5. CASE StreamEnd BY ZenonT(60), <1>go, <1>5 DEF StreamEnd
<1>6. CASE StreamDrop BY ZenonT(60), <1>go, <1>6 DEF StreamDrop
<1>7. CASE StreamAdd BY ZenonT(60), <1>go, <1>7 DEF StreamAdd
<1>8. CASE StreamPush BY ZenonT(60), <1>fail, <1>go, <1>8 DEF StreamPush, Errors
<1> QED BY ZenonT(60), <1>1, <1>2, <1>3, <1>4, <1>5, <1>6, <1>7, <1>8 DEF ReadLoopStep

-----------------------------------------------------------------------------
\* A read by a user touches only the queue, or the stream, it reads.
UserFrame(p) ==
  /\ UNCHANGED <<connSide, inVars, pushed, handler, nstr, callVars, cause>>
  /\ UNCHANGED <<incoming, stale, returned>> \/ ReadPop(p) \/ ReadStale(p)
  /\ UNCHANGED strm \/ StreamPop(p) \/ StreamStale(p)
  /\ UNCHANGED streams \/ StreamDelete(p)

\* Each step of a read, and the delete of closeSend, leaves those variables alone.
LEMMA UserFrames ==
  ASSUME NEW p \in Users, UserStep(p)
  PROVE  UserFrame(p)
<1> USE Zenon DEF UserFrame, queueVars, streamVars
<1>1. CASE ReadPop(p) BY ZenonT(60), <1>1 DEF ReadPop
<1>2. CASE ReadStale(p) BY ZenonT(60), <1>2 DEF ReadStale
<1>3. CASE StreamPop(p) BY ZenonT(60), <1>3 DEF StreamPop
<1>4. CASE StreamStale(p) BY ZenonT(60), <1>4 DEF StreamStale
<1>5. CASE StreamDelete(p) BY ZenonT(60), <1>5 DEF StreamDelete
<1> QED BY ZenonT(60), <1>1, <1>2, <1>3, <1>4, <1>5 DEF UserStep

\* c.stale is read with staleMu free, and its end is an empty c.stale.
UserEffect(p) ==
  /\ Moves(p) /\ res' \in [Users -> Outcomes]
  /\ pc[p] \in {"RPop", "RStale", "SPop", "SStale", "KDelete"}
  /\ pc'[p] \in {"Idle", "RStale", "SStale"}
  /\ pc'[p] = "RStale" => pc[p] = "RPop" /\ closed
  /\ pc'[p] = "SStale" => pc[p] = "SPop" /\ strm[cur[p]].closed
  /\ incoming' = incoming \/ ~shut
  /\ stale' = stale \/ (closed /\ staleMu = None /\ stale # <<>>)
  /\ \A u \in Users : u # p => res'[u] = res[u]
  /\ \/ res'[p] = res[p] \/ res'[p] \notin {"closed", "ConnectionClosed", "QueueClosed"}
     \/ res'[p] = "ConnectionClosed" /\ closed /\ staleMu = None /\ stale = <<>> /\ stale' = <<>>

\* Each step of a read, and the delete of closeSend, has that effect.
LEMMA UserEffects ==
  ASSUME Typed, Control, NEW p \in Users, UserStep(p)
  PROVE  UserEffect(p)
<1>0. p \in Procs /\ (pc[p] = "RStale" => closed) /\ (shut => closed)
  BY ZenonT(60) DEF Procs, Control, OpInv, WinnerInv
<1>fin. ASSUME NEW v \in Outcomes, Finish(p, v)
        PROVE  /\ Moves(p) /\ pc'[p] = "Idle" /\ res' \in [Users -> Outcomes] /\ res'[p] = v
               /\ \A u \in Users : u # p => res'[u] = res[u]
  BY ZenonT(60), <1>0, <1>fin DEF Moves, Typed, ProcType, Labels, Finish, Goto
<1>go. ASSUME NEW l \in {"RStale", "SStale", "Idle"}, Goto(p, l), UNCHANGED res
       PROVE  Moves(p) /\ pc'[p] = l /\ res' \in [Users -> Outcomes]
  BY ZenonT(60), <1>0, <1>go DEF Moves, Typed, ProcType, Labels, Goto
<1> USE <1>0 DEF UserEffect
<1>1. CASE ReadPop(p)
  <2>1. CASE ~shut BY ZenonT(60), <1>1, <1>fin, <2>1 DEF ReadPop, Outcomes
  <2>2. CASE shut BY ZenonT(60), <1>1, <1>go, <2>2 DEF ReadPop
  <2> QED BY ZenonT(60), <2>1, <2>2
<1>2. CASE ReadStale(p) BY ZenonT(60), <1>2, <1>fin DEF ReadStale, Outcomes
<1>3. CASE StreamPop(p)
  <2>1. CASE ~strm[cur[p]].closed BY ZenonT(60), <1>3, <1>fin, <2>1 DEF StreamPop, Outcomes, queueVars
  <2>2. CASE strm[cur[p]].closed BY ZenonT(60), <1>3, <1>go, <2>2 DEF StreamPop, queueVars
  <2> QED BY ZenonT(60), <2>1, <2>2
<1>4. CASE StreamStale(p) BY ZenonT(60), <1>4, <1>fin DEF StreamStale, Outcomes, queueVars
<1>5. CASE StreamDelete(p) BY ZenonT(60), <1>5, <1>go DEF StreamDelete, queueVars
<1> QED BY ZenonT(60), <1>1, <1>2, <1>3, <1>4, <1>5 DEF UserStep

\* A call touches only its caller and the streams.
CallFrame(p) ==
  /\ UNCHANGED <<connSide, inVars, queueVars, cause, res>>
  /\ pkt' = pkt \/ \E s \in {0} \cup 1 .. nstr, len \in {0, 1} : Outgoing(p, s, len)
  /\ cur' = cur \/ \E s \in 1 .. nstr : cur' = [cur EXCEPT ![p] = s]
  /\ UNCHANGED handler \/ handler' \in BOOLEAN
  /\ UNCHANGED <<streams, nstr>> \/ CallNewStream(p)
  /\ UNCHANGED strm \/ CallNewStream(p) \/ CallStreamClose(p)

\* Each call leaves those variables alone.
LEMMA CallFrames ==
  ASSUME NEW p \in Users, UserCall(p)
  PROVE  CallFrame(p)
<1>0. 0 \in {0} \cup 1 .. nstr /\ 1 .. nstr \subseteq {0} \cup 1 .. nstr BY SMTT(60)
<1> USE Zenon, <1>0 DEF CallFrame, CallAtOnce, streamVars
<1>1. CASE CallWritePacket(p) BY ZenonT(60), <1>1 DEF CallWritePacket
<1>2. CASE CallFlush(p) BY ZenonT(60), <1>2 DEF CallFlush
<1>3. CASE CallClose(p) BY ZenonT(60), <1>3 DEF CallClose
<1>4. CASE CallReadPacket(p) BY ZenonT(60), <1>4 DEF CallReadPacket
<1>5. CASE CallSetNewStreamHandler(p) BY ZenonT(60), <1>5 DEF CallSetNewStreamHandler
<1>6. CASE CallNewStream(p) BY ZenonT(60), <1>6 DEF CallNewStream
<1>7. CASE CallStreamRead(p) BY ZenonT(60), <1>7 DEF CallStreamRead
<1>8. CASE CallStreamWrite(p) BY ZenonT(60), <1>8 DEF CallStreamWrite
<1>9. CASE CallStreamClose(p) BY ZenonT(60), <1>9 DEF CallStreamClose
<1> QED BY ZenonT(60), <1>1, <1>2, <1>3, <1>4, <1>5, <1>6, <1>7, <1>8, <1>9 DEF UserCall

\* The caller goes to the first label of its method.
CallEffect(p) ==
  /\ Moves(p) /\ op' \in [Procs -> Methods \cup {"none"}] /\ calls' \in [Procs -> Nat]
  /\ pc[p] = "Idle" /\ \A q \in Procs : q # p => op'[q] = op[q] /\ cur'[q] = cur[q]
  /\ pc'[p] \in {"Idle", "WLock", "FLock", "CStale", "RPop", "RStale", "SPop", "SStale"}
  /\ pc'[p] = "WLock" => op'[p] \in {"WritePacket", "StreamWrite", "StreamClose"}
  /\ pc'[p] = "FLock" => op'[p] = "Flush"
  /\ pc'[p] = "CStale" => op'[p] \in {"Close", "Raw"}
  /\ pc'[p] \in {"RPop", "RStale"} => op'[p] = "ReadPacket"
  /\ pc'[p] \in {"SPop", "SStale"} => op'[p] = "StreamRead" /\ cur'[p] \in 1 .. nstr
  /\ pc'[p] # "Idle" /\ op'[p] = "StreamClose" => cur'[p] \in 1 .. nstr
  /\ pc'[p] = "RStale" => closed
  /\ pc'[p] = "SStale" => strm[cur'[p]].closed
  /\ op'[p] = "StreamRead" => pc'[p] # "Idle"

\* Each call moves its caller that way.
LEMMA CallEffects ==
  ASSUME Typed, cur \in [Procs -> 0 .. MaxStreams], NEW p \in Users, UserCall(p)
  PROVE  CallEffect(p)
<1>0. p \in Procs BY ZenonT(60) DEF Procs
<1>go. ASSUME NEW m \in Methods, Call(p, m),
              NEW l \in {"Idle", "WLock", "FLock", "CStale", "RPop", "RStale", "SPop", "SStale"},
              Goto(p, l)
       PROVE  /\ Moves(p) /\ pc'[p] = l /\ pc[p] = "Idle" /\ op'[p] = m
              /\ op' \in [Procs -> Methods \cup {"none"}] /\ calls' \in [Procs -> Nat]
              /\ \A q \in Procs : q # p => op'[q] = op[q]
  BY SMTT(60), <1>0, <1>go DEF Moves, Typed, ProcType, Goto, Call, Labels
<1>once. ASSUME NEW m \in Methods \ {"StreamRead"}, CallAtOnce(p, m), UNCHANGED cur
         PROVE  CallEffect(p)
  <2>1. Call(p, m) /\ Goto(p, "Idle") BY ZenonT(60), <1>0, <1>once DEF Typed, Goto, Call, CallAtOnce
  <2> QED BY ZenonT(60), <1>go, <1>once, <2>1 DEF CallEffect
<1>cur. ASSUME NEW s \in 1 .. nstr, cur' = [cur EXCEPT ![p] = s]
        PROVE  cur'[p] = s /\ \A q \in Procs : q # p => cur'[q] = cur[q]
  BY ZenonT(60), <1>0, <1>cur
<1> USE DEF CallEffect, Methods
<1>1. CASE CallWritePacket(p) BY ZenonT(60), <1>1, <1>go DEF CallWritePacket
<1>2. CASE CallFlush(p) BY ZenonT(60), <1>2, <1>go DEF CallFlush
<1>3. CASE CallClose(p) BY ZenonT(60), <1>3, <1>go DEF CallClose
<1>4. CASE CallReadPacket(p) BY ZenonT(60), <1>4, <1>go DEF CallReadPacket
<1>5. CASE CallSetNewStreamHandler(p) BY ZenonT(60), <1>5, <1>once DEF CallSetNewStreamHandler
<1>6. CASE CallNewStream(p) BY ZenonT(60), <1>6, <1>once DEF CallNewStream
<1>7. CASE CallStreamRead(p)
  <2>1. PICK s \in 1 .. nstr : /\ cur' = [cur EXCEPT ![p] = s]
                               /\ Goto(p, IF strm[s].closed THEN "SStale" ELSE "SPop")
    BY <1>7, ZenonT(60) DEF CallStreamRead
  <2> QED BY ZenonT(60), <1>7, <1>go, <1>cur, <2>1 DEF CallStreamRead
<1>8. CASE CallStreamWrite(p)
  <2>1. PICK s \in 1 .. nstr : \/ CallAtOnce(p, "StreamWrite")
                               \/ Call(p, "StreamWrite") /\ Goto(p, "WLock")
    BY <1>8, ZenonT(60) DEF CallStreamWrite
  <2>2. UNCHANGED cur BY ZenonT(60), <1>8 DEF CallStreamWrite
  <2> QED BY ZenonT(60), <1>go, <1>once, <2>1, <2>2
<1>9. CASE CallStreamClose(p)
  <2>1. PICK s \in 1 .. nstr :
          \/ CallAtOnce(p, "StreamClose") /\ UNCHANGED cur
          \/ Call(p, "StreamClose") /\ cur' = [cur EXCEPT ![p] = s] /\ Goto(p, "WLock")
    BY <1>9, ZenonT(60) DEF CallStreamClose
  <2> QED BY ZenonT(60), <1>go, <1>once, <1>cur, <2>1
<1> QED BY ZenonT(60), <1>1, <1>2, <1>3, <1>4, <1>5, <1>6, <1>7, <1>8, <1>9 DEF UserCall

-----------------------------------------------------------------------------
\* What a step is: one of these kinds, with its effect.
Effects ==
  \/ \E p \in Procs : WriteStep(p) /\ WriteEffect(p)
  \/ \E p \in Procs : Flush(p) /\ FlushEffect(p)
  \/ \E p \in Procs : LoopEffect(p)
  \/ \E p \in Procs : CloseStep(p) /\ CloseFrame(p) /\ CloseEffect(p)
  \/ ReadLoopStep /\ ReadFrame /\ ReadEffect
  \/ \E p \in Users : UserStep(p) /\ UserFrame(p) /\ UserEffect(p)
  \/ \E p \in Users : UserCall(p) /\ CallFrame(p) /\ CallEffect(p)

\* Every step of the connection is of one of the kinds.
LEMMA StepEffects ==
  ASSUME Typed, Control, cur \in [Procs -> 0 .. MaxStreams], Next
  PROVE  Effects
<1> USE Zenon DEF Effects
<1>1. ASSUME NEW p \in Procs, WriteStep(p) PROVE Effects BY ZenonT(60), <1>1, WriteEffects
<1>2. ASSUME NEW p \in Procs, Flush(p) PROVE Effects BY ZenonT(60), <1>2, FlushEffects
<1>3. ASSUME NEW p \in Procs,
             LoopDone(p) \/ (p = "flushLoop" /\ FlushLoopRecv) \/ (p = "pingLoop" /\ PingLoopSelect)
      PROVE  Effects
  BY ZenonT(60), <1>3, LoopEffects
<1>4. ASSUME NEW p \in Procs, CloseStep(p) PROVE Effects BY ZenonT(60), <1>4, CloseFrames, CloseEffects
<1>5. CASE ReadLoopStep BY ZenonT(60), <1>5, ReadFrames, ReadEffects
<1>6. ASSUME NEW p \in Users, UserStep(p) PROVE Effects BY ZenonT(60), <1>6, UserFrames, UserEffects
<1>7. ASSUME NEW p \in Users, UserCall(p) PROVE Effects BY ZenonT(60), <1>7, CallFrames, CallEffects
<1> HIDE DEF Effects
<1> QED BY ZenonT(60), <1>1, <1>2, <1>3, <1>4, <1>5, <1>6, <1>7 DEF Next, Step

\* Every step keeps the types of the connection and of the goroutines.
LEMMA TypedStep ==
  ASSUME Typed, Effects
  PROVE  Typed'
<1> USE Zenon
<1>t. StateType /\ ProcType BY ZenonT(60) DEF Typed
<1>state. UNCHANGED <<lockVars, stateVars, connVars, flushCh, werr>> => StateType'
  BY ZenonT(60), <1>t DEF StateType, lockVars, stateVars, connVars
<1>all. ASSUME NEW p, Moves(p), StateType', ProcType' PROVE Typed' BY ZenonT(60), <1>all DEF Typed, Moves
<1>1. ASSUME NEW p \in Procs, WriteEffect(p) PROVE Typed'
  <2>1. mu' \in Procs \cup {None} BY ZenonT(60), <1>t, <1>1 DEF WriteEffect, StateType
  <2>2. StateType' BY ZenonT(60), <1>t, <1>1, <2>1 DEF WriteEffect, StateType, stateVars, connVars
  <2>3. ProcType' BY ZenonT(60), <1>t, <1>1 DEF WriteEffect, ProcType, dataSide, callVars
  <2> QED BY ZenonT(60), <1>1, <1>all, <2>2, <2>3 DEF WriteEffect
<1>2. ASSUME NEW p \in Procs, FlushEffect(p) PROVE Typed'
  <2>1. StateType' BY ZenonT(60), <1>t, <1>2 DEF FlushEffect, StateType, lockVars, stateVars, connVars
  <2>2. ProcType' BY ZenonT(60), <1>t, <1>2 DEF FlushEffect, ProcType, dataSide, callVars
  <2> QED BY ZenonT(60), <1>2, <1>all, <2>1, <2>2 DEF FlushEffect
<1>3. ASSUME NEW p \in Procs, LoopEffect(p) PROVE Typed'
  <2>1. /\ UNCHANGED <<mu, staleMu, streamsMu, errorMu, closed, shut, error, reason, werr, conn, deadline>>
        /\ flushCh' \in {0, 1} /\ wg' \subseteq wg
    BY ZenonT(60), <1>3 DEF LoopEffect, lockVars, connVars
  <2>2. StateType' BY ZenonT(60), <1>t, <2>1 DEF StateType
  <2>3. ProcType' BY ZenonT(60), <1>t, <1>3 DEF LoopEffect, ProcType
  <2> QED BY ZenonT(60), <1>3, <1>all, <2>2, <2>3 DEF LoopEffect
<1>4. ASSUME NEW p \in Procs, CloseFrame(p), CloseEffect(p) PROVE Typed'
  <2>1. res' \in [Users -> Outcomes] BY ZenonT(60), <1>t, <1>4 DEF CloseEffect, ProcType, Outcomes
  <2>2. ProcType' BY ZenonT(60), <1>t, <1>4, <2>1 DEF CloseFrame, ProcType, callVars
  <2> QED BY ZenonT(60), <1>4, <1>all, <2>2 DEF CloseEffect
<1>5. CASE ReadFrame /\ ReadEffect
  <2>1. StateType'
    BY ZenonT(60), <1>t, <1>5 DEF ReadFrame, ReadEffect, StateType, lockVars, stateVars, writeVars
  <2>2. ProcType' BY ZenonT(60), <1>t, <1>5 DEF ReadFrame, ReadEffect, ProcType
  <2> QED BY ZenonT(60), <1>5, <1>all, <2>1, <2>2 DEF ReadEffect
<1>6. ASSUME NEW p \in Users, UserFrame(p), UserEffect(p) PROVE Typed'
  <2>1. StateType' BY ZenonT(60), <1>state, <1>6 DEF UserFrame, connSide, writeVars
  <2>2. ProcType' BY ZenonT(60), <1>t, <1>6 DEF UserFrame, UserEffect, ProcType, callVars
  <2> QED BY ZenonT(60), <1>6, <1>all, <2>1, <2>2 DEF UserEffect
<1>7. ASSUME NEW p \in Users, CallFrame(p), CallEffect(p) PROVE Typed'
  <2>1. StateType' BY ZenonT(60), <1>state, <1>7 DEF CallFrame, connSide, writeVars
  <2>2. ProcType' BY ZenonT(60), <1>t, <1>7 DEF CallFrame, CallEffect, ProcType
  <2> QED BY ZenonT(60), <1>7, <1>all, <2>1, <2>2 DEF CallEffect
<1> QED BY ZenonT(60), <1>1, <1>2, <1>3, <1>4, <1>5, <1>6, <1>7 DEF Effects

-----------------------------------------------------------------------------
(* Every step keeps the part of the invariant about mutexes, the swap of   *)
(* c.closed, the loops and the outcomes of calls.                          *)

\* Labels inside a critical section or past the swap.
Critical == WriterPCs \cup StaleHeld \cup StreamsHeld \cup PostSwap

LoopPCs == {"Recv", "Select", "Done", "Exit"} \cup ReadPCs
UserPCs == {"Idle", "RPop", "RStale", "SPop", "SStale", "KDelete"}

\* A step between two other labels that touches no mutex keeps who holds what.
LEMMA Bystander ==
  ASSUME Control, NEW p \in Procs, UNCHANGED <<mu, staleMu, streamsMu, closed, shut>>, Moves(p),
         pc[p] \notin Critical, pc'[p] \notin Critical,
         p \in Loops => pc'[p] \notin UserPCs, p \in Users => pc'[p] \notin LoopPCs
  PROVE  LockInv' /\ WinnerInv' /\ LabelInv' /\ (Quiet' <=> Quiet)
<1>1. \A q \in Procs : pc'[q] = pc[q] \/ (pc[q] \notin Critical /\ pc'[q] \notin Critical)
  BY ZenonT(60) DEF Moves
<1>2. LockInv' BY ZenonT(60), <1>1 DEF Control, LockInv, Critical
<1>3. WinnerInv' BY ZenonT(60), <1>1 DEF Control, WinnerInv, Critical, PostSwap
<1>4. LabelInv' BY ZenonT(60) DEF Control, LabelInv, Moves, LoopPCs, UserPCs, ReadPCs, Procs
<1>5. Quiet' <=> Quiet BY ZenonT(60), <1>1 DEF Quiet, Critical, PostSwap
<1> QED BY ZenonT(60), <1>2, <1>3, <1>4, <1>5

\* Who a goroutine is.
LEMMA Identity ==
  ASSUME NEW p \in Procs
  PROVE  p # None /\ (p \in Users <=> p \notin Loops)
BY ZenonT(60), UsersAssumption DEF Procs

\* writePacket keeps c.mu to one goroutine, and never holds it with the channels closed.
LEMMA WriteControl ==
  ASSUME Control, NEW p \in Procs, WriteEffect(p)
  PROVE  Control'
<1>1. /\ UNCHANGED <<staleMu, streamsMu, closed, shut, wg, deadline, incoming, stale, op, res>>
      /\ \A q \in Procs : q # p => pc'[q] = pc[q]
  BY ZenonT(60) DEF WriteEffect, Moves, stateVars, connVars, dataSide, queueVars, callVars
<1>2. /\ pc[p] \in {"WLock", "WErr"} \cup WriterPCs
      /\ pc'[p] \in {"WErr", "Done", "Select", "Next", "ELock", "KDelete", "Idle"} \cup WriterPCs
  BY ZenonT(60) DEF WriteEffect, Procs
<1>q. Quiet' <=> Quiet BY ZenonT(60), <1>1, <1>2 DEF Quiet, WriterPCs
<1>3. LockInv'
  <2>1. \A q \in Procs : mu' = q <=> pc'[q] \in WriterPCs
    <3>0. \A q \in Procs : q # None BY ZenonT(60), Identity
    <3>1. \A q \in Procs : mu = q <=> pc[q] \in WriterPCs BY ZenonT(60) DEF Control, LockInv
    <3>2. pc'[p] \in WriterPCs => mu' = p /\ (mu = None \/ mu = p)
      BY ZenonT(60), <3>1 DEF WriteEffect
    <3>3. pc'[p] \notin WriterPCs => mu' = IF mu = p THEN None ELSE mu
      BY ZenonT(60), <3>1 DEF WriteEffect
    <3> QED BY ZenonT(60), <1>1, <3>0, <3>1, <3>2, <3>3
  <2>2. \A q \in Procs : (staleMu' = q <=> pc'[q] \in StaleHeld) /\ (streamsMu' = q <=> pc'[q] \in StreamsHeld)
    BY ZenonT(60), <1>1, <1>2 DEF Control, LockInv, WriterPCs, StaleHeld, StreamsHeld
  <2> QED BY ZenonT(60), <2>1, <2>2 DEF LockInv
<1>4. WinnerInv'
  <2>1. pc'[p] \in WriterPCs => ~shut BY ZenonT(60) DEF WriteEffect, Control, WinnerInv
  <2> QED BY ZenonT(60), <1>1, <1>2, <2>1 DEF Control, WinnerInv, WriterPCs, PostSwap
<1>5. LoopInv' BY ZenonT(60), <1>1, <1>2, <1>q DEF Control, LoopInv, Procs, InClose, PostSwap, WriterPCs
<1>6. LabelInv' BY ZenonT(60), <1>1 DEF WriteEffect, Control, LabelInv, Procs, WriterPCs
<1>7. OpInv' BY ZenonT(60), <1>1, <1>2 DEF Control, OpInv, Procs, WriterPCs
<1>8. ResInv' BY ZenonT(60), <1>1, <1>q DEF Control, ResInv
<1>9. NoLostWakeup'
  <2>1. p = "flushLoop" => pc'[p] # "Recv" BY ZenonT(60), <1>2 DEF WriterPCs
  <2>2. \/ werr' \/ flushCh' > 0 \/ mu' # None
        \/ wbuf' = wbuf /\ werr' = werr /\ flushCh' = flushCh /\ mu' = mu
    BY ZenonT(60) DEF WriteEffect
  <2>3. wbuf # <<>> /\ ~werr /\ ~shut => flushCh > 0 \/ mu # None \/ pc["flushLoop"] # "Recv"
    BY ZenonT(60) DEF Control, NoLostWakeup
  <2>4. pc["flushLoop"] # "Recv" => pc'["flushLoop"] # "Recv" BY ZenonT(60), <1>1, <2>1 DEF Procs, Loops
  <2>5. shut' = shut BY ZenonT(60), <1>1
  <2> QED BY SMTT(60), <2>2, <2>3, <2>4, <2>5 DEF NoLostWakeup
<1> QED BY ZenonT(60), <1>3, <1>4, <1>5, <1>6, <1>7, <1>8, <1>9 DEF Control

\* flush() leaves an empty buffer, an error or a closed connection behind.
LEMMA FlushControl ==
  ASSUME Control, NEW p \in Procs, FlushEffect(p)
  PROVE  Control'
<1>1. /\ UNCHANGED <<mu, staleMu, streamsMu, closed, shut, wg, deadline, flushCh, incoming, stale, op, res>>
      /\ \A q \in Procs : q # p => pc'[q] = pc[q]
  BY ZenonT(60) DEF FlushEffect, Moves, lockVars, stateVars, connVars, dataSide, queueVars, callVars
<1>2. pc[p] = "FLock" /\ pc'[p] \in {"Done", "Recv", "ELock", "KDelete", "Idle"}
  BY ZenonT(60) DEF FlushEffect, Procs
<1>3. LockInv' /\ WinnerInv' /\ LabelInv' /\ (Quiet' <=> Quiet)
  <2>1. pc[p] \notin Critical /\ pc'[p] \notin Critical
    BY ZenonT(60), <1>2 DEF Critical, WriterPCs, StaleHeld, StreamsHeld, PostSwap
  <2>2. (p \in Loops => pc'[p] \notin UserPCs) /\ (p \in Users => pc'[p] \notin LoopPCs)
    BY ZenonT(60) DEF FlushEffect, LoopPCs, UserPCs, ReadPCs
  <2> QED BY ZenonT(60), <1>1, <2>1, <2>2, Bystander DEF FlushEffect
<1>4. LoopInv' BY ZenonT(60), <1>1, <1>2, <1>3 DEF Control, LoopInv, Procs, InClose, PostSwap
<1>5. OpInv' BY ZenonT(60), <1>1, <1>2 DEF Control, OpInv, Procs, WriterPCs
<1>6. ResInv' BY ZenonT(60), <1>1, <1>3 DEF Control, ResInv
<1>7. NoLostWakeup' BY SMTT(60), <1>1 DEF FlushEffect, Control, NoLostWakeup, Procs, Loops
<1> QED BY ZenonT(60), <1>3, <1>4, <1>5, <1>6, <1>7 DEF Control

\* A loop leaves the WaitGroup only on its way out.
LEMMA LoopControl ==
  ASSUME Control, NEW p \in Procs, LoopEffect(p)
  PROVE  Control'
<1>1. /\ UNCHANGED <<mu, staleMu, streamsMu, closed, shut, deadline, wbuf, werr, incoming, stale, op, res>>
      /\ \A q \in Procs : q # p => pc'[q] = pc[q]
  BY ZenonT(60) DEF LoopEffect, Moves, lockVars, connVars, queueVars
<1>2. /\ pc[p] \in {"Recv", "Select", "Done"} /\ pc'[p] \in {"FLock", "WLock", "ELock", "Exit"}
      /\ p \in Loops /\ p \notin Users
  BY ZenonT(60), Identity DEF LoopEffect
<1>3. LockInv' /\ WinnerInv' /\ LabelInv' /\ (Quiet' <=> Quiet)
  <2>1. pc[p] \notin Critical /\ pc'[p] \notin Critical /\ pc'[p] \notin UserPCs
    BY ZenonT(60), <1>2 DEF Critical, WriterPCs, StaleHeld, StreamsHeld, PostSwap, UserPCs
  <2> QED BY ZenonT(60), <1>1, <1>2, <2>1, Bystander DEF LoopEffect
<1>4. LoopInv' BY ZenonT(60), <1>1, <1>2, <1>3 DEF LoopEffect, Control, LoopInv, Procs, InClose, PostSwap
<1>5. OpInv' BY ZenonT(60), <1>1, <1>2 DEF Control, OpInv, Procs
<1>6. ResInv' BY ZenonT(60), <1>1, <1>3 DEF Control, ResInv
<1>7. NoLostWakeup' BY SMTT(60), <1>1, <1>2 DEF LoopEffect, Control, NoLostWakeup, Procs, Loops
<1> QED BY ZenonT(60), <1>3, <1>4, <1>5, <1>6, <1>7 DEF Control

\* readLoop runs only until close() has waited for it.
LEMMA ReadControl ==
  ASSUME Control, ReadFrame, ReadEffect
  PROVE  Control'
<1>1. /\ UNCHANGED <<mu, staleMu, streamsMu, closed, shut, wg, flushCh, wbuf, werr, stale, op, res>>
      /\ \A q \in Procs : q # "readLoop" => pc'[q] = pc[q]
  BY ZenonT(60) DEF ReadFrame, ReadEffect, Moves, lockVars, stateVars, writeVars
<1>2. pc["readLoop"] \in ReadPCs /\ pc'["readLoop"] \in ReadPCs \cup {"WLock", "Done"}
  BY ZenonT(60) DEF ReadEffect
<1>p. "readLoop" \in Procs /\ "readLoop" \in Loops /\ "readLoop" \notin Users
  BY ZenonT(60), UsersAssumption DEF Procs, Loops
<1>3. LockInv' /\ WinnerInv' /\ LabelInv' /\ (Quiet' <=> Quiet)
  <2>1. pc["readLoop"] \notin Critical /\ pc'["readLoop"] \notin Critical /\ pc'["readLoop"] \notin UserPCs
    BY ZenonT(60), <1>2 DEF Critical, WriterPCs, StaleHeld, StreamsHeld, PostSwap, UserPCs, ReadPCs
  <2> QED BY ZenonT(60), <1>1, <1>p, <2>1, Bystander DEF ReadEffect
<1>q. ~Quiet /\ ~Quiet'
  <2>1. "readLoop" \in wg BY ZenonT(60), <1>2, <1>p DEF Control, LoopInv, InClose, PostSwap, ReadPCs
  <2> QED BY ZenonT(60), <1>3, <2>1 DEF Control, LoopInv
<1>4. LoopInv' BY ZenonT(60), <1>1, <1>2, <1>q DEF Control, LoopInv, Procs, InClose, PostSwap, ReadPCs
<1>5. OpInv' BY ZenonT(60), <1>1, <1>p DEF Control, OpInv, Procs
<1>6. ResInv' BY ZenonT(60), <1>1, <1>q DEF Control, ResInv
<1>7. NoLostWakeup' BY ZenonT(60), <1>1 DEF Control, NoLostWakeup, Procs, Loops
<1> QED BY ZenonT(60), <1>3, <1>4, <1>5, <1>6, <1>7 DEF Control

\* A caller that returns leaves an outcome that is true of the connection.
LEMMA UserControl ==
  ASSUME Control, NEW p \in Users, UserFrame(p), UserEffect(p)
  PROVE  Control'
<1>1. /\ UNCHANGED <<mu, staleMu, streamsMu, closed, shut, wg, deadline, flushCh, wbuf, werr, op>>
      /\ \A q \in Procs : q # p => pc'[q] = pc[q]
  BY ZenonT(60)
     DEF UserFrame, UserEffect, Moves, connSide, lockVars, stateVars, writeVars, connVars, callVars
<1>2. /\ pc[p] \in {"RPop", "RStale", "SPop", "SStale", "KDelete"}
      /\ pc'[p] \in {"Idle", "RStale", "SStale"}
      /\ p \in Procs /\ p \notin Loops
  BY ZenonT(60), UsersAssumption DEF UserEffect, Procs
<1>3. LockInv' /\ WinnerInv' /\ LabelInv' /\ (Quiet' <=> Quiet)
  <2>1. pc[p] \notin Critical /\ pc'[p] \notin Critical /\ pc'[p] \notin LoopPCs
    BY ZenonT(60), <1>2 DEF Critical, WriterPCs, StaleHeld, StreamsHeld, PostSwap, LoopPCs, ReadPCs
  <2> QED BY ZenonT(60), <1>1, <1>2, <2>1, Bystander DEF UserEffect
<1>s. closed /\ staleMu = None => Quiet
  BY ZenonT(60), Identity DEF Control, LockInv, StaleHeld, Quiet
<1>4. LoopInv'
  <2>1. \A q \in Loops : pc'[q] = pc[q] BY ZenonT(60), <1>1, <1>2 DEF Procs
  <2>2. (Quiet => incoming' = incoming) /\ (~Quiet => stale' = stale)
    BY ZenonT(60), <1>s DEF UserEffect, Control, LoopInv
  <2> QED BY ZenonT(60), <1>1, <1>3, <2>1, <2>2 DEF Control, LoopInv
<1>5. OpInv'
  <2>1. /\ pc'[p] = "RStale" => op[p] = "ReadPacket" /\ closed
        /\ pc'[p] = "SStale" => op[p] = "StreamRead"
    BY ZenonT(60) DEF UserEffect, Control, OpInv
  <2> QED BY ZenonT(60), <1>1, <1>2, <2>1 DEF Control, OpInv, Procs, WriterPCs
<1>6. ResInv'
  <2>1. stale = <<>> => stale' = <<>> BY ZenonT(60) DEF UserEffect
  <2>2. \A u \in Users : \/ res'[u] = res[u] \/ res'[u] \notin {"closed", "ConnectionClosed", "QueueClosed"}
                         \/ res'[u] = "ConnectionClosed" /\ Quiet /\ stale' = <<>>
    BY ZenonT(60), <1>s DEF UserEffect
  <2> QED BY ZenonT(60), <1>3, <2>1, <2>2 DEF Control, ResInv
<1>7. NoLostWakeup' BY ZenonT(60), <1>1, <1>2 DEF Control, NoLostWakeup, Procs, Loops
<1> QED BY ZenonT(60), <1>3, <1>4, <1>5, <1>6, <1>7 DEF Control

\* A call starts at the first label of its method.
LEMMA CallControl ==
  ASSUME Control, NEW p \in Users, CallFrame(p), CallEffect(p)
  PROVE  Control'
<1>1. /\ UNCHANGED <<mu, staleMu, streamsMu, closed, shut, wg, deadline, flushCh, wbuf, werr, incoming,
                     stale, res>>
      /\ \A q \in Procs : q # p => pc'[q] = pc[q]
  BY ZenonT(60)
     DEF CallFrame, CallEffect, Moves, connSide, lockVars, stateVars, writeVars, connVars, queueVars
<1>2. /\ pc[p] = "Idle"
      /\ pc'[p] \in {"Idle", "WLock", "FLock", "CStale", "RPop", "RStale", "SPop", "SStale"}
      /\ p \in Procs /\ p \notin Loops
  BY ZenonT(60), UsersAssumption DEF CallEffect, Procs
<1>3. LockInv' /\ WinnerInv' /\ LabelInv' /\ (Quiet' <=> Quiet)
  <2>1. pc[p] \notin Critical /\ pc'[p] \notin Critical /\ pc'[p] \notin LoopPCs
    BY ZenonT(60), <1>2 DEF Critical, WriterPCs, StaleHeld, StreamsHeld, PostSwap, LoopPCs, ReadPCs
  <2> QED BY ZenonT(60), <1>1, <1>2, <2>1, Bystander DEF CallEffect
<1>4. LoopInv'
  <2>1. \A q \in Loops : pc'[q] = pc[q] BY ZenonT(60), <1>1, <1>2 DEF Procs
  <2> QED BY ZenonT(60), <1>1, <1>3, <2>1 DEF Control, LoopInv
<1>5. OpInv' BY ZenonT(60), <1>1, <1>2 DEF CallEffect, Control, OpInv, Procs, WriterPCs
<1>6. ResInv' BY ZenonT(60), <1>1, <1>3 DEF Control, ResInv
<1>7. NoLostWakeup' BY ZenonT(60), <1>1, <1>2 DEF Control, NoLostWakeup, Procs, Loops
<1> QED BY ZenonT(60), <1>3, <1>4, <1>5, <1>6, <1>7 DEF Control

\* close() lets one caller past the swap, which ends with nothing of the loops left.
LEMMA CloseControl ==
  ASSUME Typed, Control, NEW p \in Procs, CloseStep(p), CloseFrame(p), CloseEffect(p)
  PROVE  Control'
<1>1. /\ UNCHANGED <<mu, op, flushCh>> /\ (closed => closed')
      /\ \A q \in Procs : q # p => pc'[q] = pc[q]
  BY ZenonT(60) DEF CloseFrame, CloseEffect, Moves, callVars
<1>2. /\ pc[p] \in {"ELock"} \cup InClose
      /\ pc'[p] \in InClose \cup {"Exit", "Idle", "KDelete"}
  BY ZenonT(60) DEF CloseEffect, Procs
<1>3. LabelInv' BY ZenonT(60), <1>1 DEF CloseEffect, Control, LabelInv, Procs, InClose, PostSwap
<1>4. OpInv' BY ZenonT(60), <1>1, <1>2 DEF Control, OpInv, Procs, WriterPCs, InClose, PostSwap
<1>5. NoLostWakeup'
  <2>1. pc'["flushLoop"] = pc["flushLoop"] \/ pc'["flushLoop"] # "Recv"
    BY ZenonT(60), <1>1, <1>2 DEF Procs, Loops, InClose, PostSwap
  <2>2. shut => shut' BY ZenonT(60) DEF CloseFrame, CloseShut
  <2>3. UNCHANGED <<wbuf, werr>> \/ shut
    BY ZenonT(60) DEF CloseFrame, CloseFlush, Control, WinnerInv, PostSwap
  <2> QED BY ZenonT(60), <1>1, <2>1, <2>2, <2>3 DEF Control, NoLostWakeup
<1>go. ASSUME NEW l \in Labels, Goto(p, l) PROVE pc'[p] = l
  BY ZenonT(60), <1>go DEF Goto, Typed
<1>ret. ASSUME CloseReturns(p) PROVE pc'[p] \in {"Exit", "Idle", "KDelete"}
  BY ZenonT(60), <1>ret DEF CloseReturns, ReturnToUser, Goto, Typed
<1>loops. \A q \in Loops : pc'[q] = pc[q] \/ pc'[q] \in InClose \cup {"Exit"}
  BY ZenonT(60), <1>1 DEF CloseEffect, Procs
<1>res. \A u \in Users : res'[u] = res[u] \/ res'[u] = "closed"
  BY ZenonT(60) DEF CloseEffect, Typed, ProcType
<1>mu. /\ pc[p] \in WriterPCs => FALSE
       /\ pc'[p] \in WriterPCs => FALSE
  BY ZenonT(60), <1>2 DEF WriterPCs, InClose, PostSwap
<1>6. LockInv' /\ WinnerInv' /\ LoopInv' /\ ResInv'
  <2>1. CASE CloseWithError(p)
    <3>1. /\ UNCHANGED <<staleMu, streamsMu, closed, shut, wg, deadline, incoming, stale, res>>
          /\ pc[p] = "ELock" /\ pc'[p] = "CStale"
      BY ZenonT(60), <1>go, <2>1 DEF CloseWithError, Labels, dataSide, queueVars, connVars
    <3>2. LockInv' /\ WinnerInv' /\ (Quiet' <=> Quiet)
      <4>1. pc[p] \notin Critical /\ pc'[p] \notin Critical /\ pc'[p] \notin UserPCs \cup LoopPCs
        BY ZenonT(60), <3>1
           DEF Critical, WriterPCs, StaleHeld, StreamsHeld, PostSwap, UserPCs, LoopPCs, ReadPCs
      <4> QED BY ZenonT(60), <1>1, <3>1, <4>1, Bystander DEF CloseEffect
    <3> QED BY ZenonT(60), <1>loops, <3>1, <3>2 DEF Control, LoopInv, ResInv
  <2>2. CASE CloseStale(p)
    <3>1. /\ UNCHANGED <<streamsMu, closed, shut, wg, deadline, incoming, stale, res>>
          /\ staleMu = None /\ staleMu' = p /\ pc[p] = "CStale" /\ pc'[p] = "CSwap"
      BY ZenonT(60), <1>go, <2>2 DEF CloseStale, Labels, stateVars, dataSide, queueVars, connVars
    <3>2. LockInv' /\ WinnerInv'
      BY ZenonT(60), <1>1, <3>1, Identity
         DEF Control, LockInv, WinnerInv, StaleHeld, StreamsHeld, PostSwap, WriterPCs
    <3>3. Quiet' <=> Quiet BY ZenonT(60), <1>1, <3>1 DEF Quiet
    <3> QED BY ZenonT(60), <1>loops, <3>1, <3>2, <3>3 DEF Control, LoopInv, ResInv
  <2>3. CASE CloseSwap(p) /\ ~closed
    <3>1. /\ UNCHANGED <<staleMu, shut, wg, deadline, incoming, stale, res>> /\ ~closed /\ closed'
          /\ streamsMu = None /\ streamsMu' = p /\ pc[p] = "CSwap" /\ pc'[p] = "CShut"
      BY ZenonT(60), <1>go, <2>3 DEF CloseSwap, Labels, dataSide, queueVars, connVars
    <3>2. LockInv'
      BY ZenonT(60), <1>1, <3>1, Identity DEF Control, LockInv, StaleHeld, StreamsHeld, WriterPCs
    <3>3. WinnerInv' BY ZenonT(60), <1>1, <3>1 DEF Control, WinnerInv, PostSwap, WriterPCs
    <3>4. ~Quiet' /\ ~Quiet BY ZenonT(60), <3>1 DEF Quiet
    <3> QED BY ZenonT(60), <1>loops, <3>1, <3>2, <3>3, <3>4 DEF Control, LoopInv, ResInv
  <2>4. CASE CloseSwap(p) /\ closed
    <3>1. /\ UNCHANGED <<streamsMu, closed, shut, wg, deadline, incoming, stale>> /\ closed
          /\ staleMu' = None /\ pc[p] = "CSwap" /\ pc'[p] \in {"Exit", "Idle", "KDelete"}
      BY ZenonT(60), <1>ret, <2>4 DEF CloseSwap, dataSide, queueVars, connVars
    <3>2. LockInv'
      BY ZenonT(60), <1>1, <3>1, Identity DEF Control, LockInv, StaleHeld, StreamsHeld, WriterPCs
    <3>3. WinnerInv' BY ZenonT(60), <1>1, <3>1 DEF Control, WinnerInv, PostSwap, WriterPCs
    <3>4. Quiet /\ Quiet' BY ZenonT(60), <1>1, <3>1 DEF Control, LockInv, StaleHeld, Quiet
    <3> QED BY ZenonT(60), <1>loops, <1>res, <3>1, <3>2, <3>3, <3>4 DEF Control, LoopInv, ResInv
  <2>5. CASE CloseShut(p)
    <3>1. /\ UNCHANGED <<staleMu, streamsMu, closed, wg, deadline, incoming, stale, res>>
          /\ mu = None /\ shut' /\ pc[p] = "CShut" /\ pc'[p] = "CPast"
      BY ZenonT(60), <1>go, <2>5 DEF CloseShut, Labels, lockVars, dataSide, queueVars, connVars
    <3>2. LockInv' BY ZenonT(60), <1>1, <3>1 DEF Control, LockInv, StaleHeld, StreamsHeld, WriterPCs
    <3>3. WinnerInv'
      <4>1. \A q \in Procs : pc[q] \notin WriterPCs BY ZenonT(60), <3>1, Identity DEF Control, LockInv
      <4> QED BY ZenonT(60), <1>1, <1>mu, <3>1, <4>1 DEF Control, WinnerInv, PostSwap
    <3>4. ~Quiet' /\ ~Quiet BY ZenonT(60), <3>1 DEF Quiet
    <3> QED BY ZenonT(60), <1>loops, <3>1, <3>2, <3>3, <3>4 DEF Control, LoopInv, ResInv
  <2>6. CASE ClosePast(p)
    <3>1. /\ UNCHANGED <<staleMu, streamsMu, closed, shut, wg, incoming, stale, res>>
          /\ pc[p] = "CPast" /\ pc'[p] = "CWait"
      BY ZenonT(60), <1>go, <2>6 DEF ClosePast, Labels, lockVars, stateVars, dataSide, queueVars
    <3>2. LockInv' BY ZenonT(60), <1>1, <3>1 DEF Control, LockInv, StaleHeld, StreamsHeld, WriterPCs
    <3>3. WinnerInv' BY ZenonT(60), <1>1, <3>1 DEF Control, WinnerInv, PostSwap, WriterPCs
    <3>4. ~Quiet' /\ ~Quiet BY ZenonT(60), <3>1 DEF Quiet
    <3> QED BY ZenonT(60), <1>loops, <3>1, <3>2, <3>3, <3>4 DEF Control, LoopInv, ResInv
  <2>7. CASE CloseWait(p)
    <3>1. /\ UNCHANGED <<streamsMu, closed, shut, wg, res>> /\ wg = {} /\ deadline' = "none"
          /\ incoming' = <<>> /\ staleMu' = None /\ pc[p] = "CWait" /\ pc'[p] = "CStreams"
      BY ZenonT(60), <1>go, <2>7 DEF CloseWait, LoopsGone, Labels, stateVars
    <3>2. LockInv'
      BY ZenonT(60), <1>1, <3>1, Identity DEF Control, LockInv, StaleHeld, StreamsHeld, WriterPCs
    <3>3. WinnerInv' BY ZenonT(60), <1>1, <3>1 DEF Control, WinnerInv, PostSwap, WriterPCs
    <3>4. ~Quiet /\ Quiet' /\ shut BY ZenonT(60), <1>1, <3>1 DEF Control, WinnerInv, PostSwap, Quiet
    <3> QED BY ZenonT(60), <1>loops, <3>1, <3>2, <3>3, <3>4 DEF Control, LoopInv, ResInv
  <2>8. CASE CloseStreams(p)
    <3>1. UNCHANGED <<staleMu, closed, shut, wg, deadline, incoming, stale, res>> /\ pc[p] = "CStreams"
      BY ZenonT(60), <2>8 DEF CloseStreams, stateVars, connVars, queueVars
    <3>2. CASE UNCHANGED <<pc, streamsMu>>
      BY ZenonT(60), <1>1, <3>1, <3>2 DEF Control, LockInv, WinnerInv, LoopInv, ResInv, Quiet
    <3>3. CASE streamsMu' = None /\ pc'[p] = "CFlush"
      <4>1. LockInv'
        BY ZenonT(60), <1>1, <3>1, <3>3, Identity DEF Control, LockInv, StaleHeld, StreamsHeld, WriterPCs
      <4>2. WinnerInv' BY ZenonT(60), <1>1, <3>1, <3>3 DEF Control, WinnerInv, PostSwap, WriterPCs
      <4>3. Quiet' <=> Quiet BY ZenonT(60), <1>1, <3>1, <3>3 DEF Quiet
      <4> QED BY ZenonT(60), <1>loops, <3>1, <4>1, <4>2, <4>3 DEF Control, LoopInv, ResInv
    <3> QED BY ZenonT(60), <1>go, <2>8, <3>2, <3>3 DEF CloseStreams, Labels
  <2>9. CASE CloseFlush(p) \/ CloseFin(p)
    <3>1. /\ UNCHANGED <<staleMu, streamsMu, closed, shut, wg, deadline, incoming, stale>>
          /\ pc[p] \in {"CFlush", "CFin"} /\ pc'[p] \in {"CFin", "Exit", "Idle", "KDelete"}
      BY ZenonT(60), <1>go, <1>ret, <2>9 DEF CloseFlush, CloseFin, Labels, lockVars, stateVars, dataSide,
         queueVars, connVars
    <3>2. LockInv' BY ZenonT(60), <1>1, <3>1 DEF Control, LockInv, StaleHeld, StreamsHeld, WriterPCs
    <3>3. WinnerInv' BY ZenonT(60), <1>1, <3>1 DEF Control, WinnerInv, PostSwap, WriterPCs
    <3>4. Quiet /\ Quiet' BY ZenonT(60), <1>1, <3>1 DEF Control, WinnerInv, PostSwap, Quiet
    <3> QED BY ZenonT(60), <1>loops, <1>res, <3>1, <3>2, <3>3, <3>4 DEF Control, LoopInv, ResInv
  <2> QED BY ZenonT(60), <2>1, <2>2, <2>3, <2>4, <2>5, <2>6, <2>7, <2>8, <2>9 DEF CloseStep
<1> QED BY ZenonT(60), <1>3, <1>4, <1>5, <1>6 DEF Control

\* Every step keeps the control part of the invariant.
LEMMA ControlStep ==
  ASSUME Typed, Control, Effects
  PROVE  Control'
  BY ZenonT(60), WriteControl, FlushControl, LoopControl, CloseControl, ReadControl, UserControl,
     CallControl DEF Effects

-----------------------------------------------------------------------------
(* The error of the connection, and the final flush.                      *)

\* The other goroutines keep their errors and their calls.
OthersKept(p) == \A q \in Procs : q # p => cause'[q] = cause[q] /\ op'[q] = op[q]

\* A step writes the error of its own goroutine only.
LEMMA CauseOwn ==
  ASSUME Typed, NEW p \in Procs, WriteStep(p) \/ Flush(p) \/ (p = "readLoop" /\ ReadLoopStep)
  PROVE  \A q \in Procs : q # p => cause'[q] = cause[q]
<1>1. ASSUME NEW e, cause' = [cause EXCEPT ![p] = e] PROVE \A q \in Procs : q # p => cause'[q] = cause[q]
  BY ZenonT(60), <1>1 DEF Typed, ProcType
<1>2. CASE WriteStep(p)
  <2>1. cause' = cause \/ \E e : cause' = [cause EXCEPT ![p] = e]
    BY ZenonT(60), <1>2 DEF WriteStep, WriteLock, WriteMeta, WriteBody, WriteChunk, WriteSend, WriteError,
      WriteReturns, FailLoop
  <2> QED BY ZenonT(60), <1>1, <2>1
<1>3. CASE Flush(p)
  <2>1. cause' = cause \/ \E e : cause' = [cause EXCEPT ![p] = e]
    BY ZenonT(60), <1>3 DEF Flush, FlushReturns, FlushSucceeds, FailLoop
  <2> QED BY ZenonT(60), <1>1, <2>1
<1>4. CASE p = "readLoop" /\ ReadLoopStep
  <2>1. cause' = cause \/ \E e : cause' = [cause EXCEPT ![p] = e]
    BY ZenonT(60), <1>4
       DEF ReadLoopStep, ReadArm, ReadConn, ReadNext, StreamLookup, StreamEnd, StreamDrop,
      StreamAdd, StreamPush, FailLoop
  <2> QED BY ZenonT(60), <1>1, <2>1
<1> QED BY ZenonT(60), <1>2, <1>3, <1>4

\* A step outside of closeWithError and close() keeps c.error known.
LEMMA ErrorKept ==
  ASSUME Typed, ErrorInv, NEW p \in Procs, Moves(p), OthersKept(p),
         UNCHANGED <<closed, error, reason, errorMu>>, pc[p] \notin InClose,
         pc'[p] \in InClose => Closing(p)' # "Error"
  PROVE  ErrorInv'
<1>1. ASSUME NEW q \in Procs, q # p
      PROVE  pc'[q] = pc[q] /\ cause'[q] = cause[q] /\ Closing(q)' = Closing(q)
  BY ZenonT(60), <1>1 DEF Moves, OthersKept, Closing
<1>2. errorMu # p BY ZenonT(60) DEF ErrorInv
<1>3. \A q \in Procs : errorMu' = q <=> pc'[q] \in InClose /\ Closing(q)' = "Error"
  BY ZenonT(60), <1>1, <1>2 DEF ErrorInv
<1>4. \A q \in Procs : errorMu' = q => error' = {cause'[q]} /\ (pc'[q] \in PostSwap => reason' = cause'[q])
  BY ZenonT(60), <1>1, <1>2 DEF ErrorInv
<1> QED BY ZenonT(60), <1>3, <1>4 DEF ErrorInv

\* So does a step inside close() that touches neither c.closed nor c.error.
LEMMA ErrorHeld ==
  ASSUME Typed, ErrorInv, NEW p \in Procs, Moves(p), UNCHANGED <<closed, error, reason, errorMu, cause, op>>,
         pc[p] \in InClose, pc'[p] \in InClose, pc'[p] \in PostSwap => pc[p] \in PostSwap
  PROVE  ErrorInv'
<1>1. \A q \in Procs : Closing(q)' = Closing(q) BY ZenonT(60) DEF Closing
<1>2. \A q \in Procs : q # p => pc'[q] = pc[q] BY ZenonT(60) DEF Moves
<1>3. \A q \in Procs : errorMu' = q <=> pc'[q] \in InClose /\ Closing(q)' = "Error"
  BY ZenonT(60), <1>1, <1>2 DEF ErrorInv
<1>4. \A q \in Procs : errorMu' = q => error' = {cause'[q]} /\ (pc'[q] \in PostSwap => reason' = cause'[q])
  BY ZenonT(60), <1>2 DEF ErrorInv
<1> QED BY ZenonT(60), <1>3, <1>4 DEF ErrorInv

\* The steps of closeWithError and close().
LEMMA ErrorClose ==
  ASSUME Typed, Control, ErrorInv, NEW p \in Procs, CloseStep(p), CloseFrame(p), CloseEffect(p)
  PROVE  ErrorInv'
<1>0. /\ Moves(p) /\ UNCHANGED <<op, cause>> /\ \A q \in Procs : q # p => pc'[q] = pc[q]
      /\ pc \in [Procs -> Labels] /\ None \notin Procs
  BY ZenonT(60), Identity DEF CloseEffect, CloseFrame, callVars, Moves, Typed
<1>c. \A q \in Procs : Closing(q)' = Closing(q) BY ZenonT(60), <1>0 DEF Closing
<1>l. /\ "CStale" \in InClose /\ "CSwap" \in InClose /\ PostSwap \subseteq InClose
      /\ "CStale" \notin PostSwap /\ "CSwap" \notin PostSwap /\ "Idle" \notin InClose
      /\ "KDelete" \notin InClose /\ "Exit" \notin InClose /\ "ELock" \notin InClose
      /\ \A l \in {"CShut", "CPast", "CWait", "CStreams", "CFlush", "CFin"} : l \in PostSwap
  BY ZenonT(60) DEF InClose, PostSwap
<1>g. ASSUME NEW l, Goto(p, l) PROVE pc'[p] = l BY ZenonT(60), <1>0, <1>g DEF Goto
<1>r. ASSUME CloseReturns(p) PROVE pc'[p] \notin InClose
  BY ZenonT(60), <1>r, <1>g, <1>l DEF CloseReturns, ReturnToUser
<1>1. CASE CloseWithError(p)
  <2>1. /\ pc[p] = "ELock" /\ errorMu = None /\ errorMu' = p /\ error' = {cause[p]} /\ pc'[p] = "CStale"
    BY ZenonT(60), <1>1, <1>g DEF CloseWithError
  <2>2. Closing(p) = "Error" BY ZenonT(60), <2>1 DEF Closing, Control, OpInv
  <2>3. \A q \in Procs : errorMu' = q <=> pc'[q] \in InClose /\ Closing(q)' = "Error"
    BY ZenonT(60), <1>0, <1>c, <1>l, <2>1, <2>2 DEF ErrorInv
  <2>4. \A q \in Procs : errorMu' = q => error' = {cause'[q]} /\ (pc'[q] \in PostSwap => reason' = cause'[q])
    BY ZenonT(60), <1>0, <1>l, <2>1
  <2> QED BY ZenonT(60), <1>0, <2>1, <2>3, <2>4 DEF ErrorInv
<1>2. CASE CloseStale(p)
  <2>1. pc[p] = "CStale" /\ pc'[p] = "CSwap" /\ UNCHANGED <<closed, error, reason, errorMu>>
    BY ZenonT(60), <1>2, <1>g DEF CloseStale, stateVars
  <2> QED BY ZenonT(60), <1>0, <1>l, <2>1, ErrorHeld
<1>3. CASE CloseSwap(p)
  <2>0. pc[p] = "CSwap" BY ZenonT(60), <1>3 DEF CloseSwap
  <2>1. CASE ~closed
    <3>1. /\ closed' = TRUE /\ pc'[p] = "CShut" /\ UNCHANGED <<errorMu, error>>
          /\ reason' = IF Closing(p) = "Error" THEN cause[p] ELSE "nil"
      BY ZenonT(60), <1>3, <1>g, <2>1 DEF CloseSwap
    <3>2. \A q \in Procs : pc[q] \notin PostSwap BY ZenonT(60), <2>1 DEF Control, WinnerInv
    <3>3. \A q \in Procs : errorMu' = q <=> pc'[q] \in InClose /\ Closing(q)' = "Error"
      BY ZenonT(60), <1>0, <1>c, <1>l, <2>0, <3>1 DEF ErrorInv
    <3>4. ASSUME NEW q \in Procs, errorMu' = q
          PROVE  error' = {cause'[q]} /\ (pc'[q] \in PostSwap => reason' = cause'[q])
      <4>1. error = {cause[q]} /\ Closing(q) = "Error" BY ZenonT(60), <3>1, <3>4 DEF ErrorInv
      <4> QED BY ZenonT(60), <1>0, <3>1, <3>2, <4>1
    <3>5. errorMu' = None => reason' = "nil"
      <4>1. Closing(p) = "Error" => errorMu = p BY ZenonT(60), <1>l, <2>0 DEF ErrorInv
      <4> QED BY ZenonT(60), <1>0, <3>1, <4>1
    <3> QED BY ZenonT(60), <3>3, <3>4, <3>5 DEF ErrorInv
  <2>2. CASE closed
    <3>1. /\ pc'[p] \notin InClose /\ UNCHANGED <<closed, reason>>
          /\ IF Closing(p) = "Error"
               THEN error' = {"ConnectionClosed", cause[p]} /\ errorMu' = None
               ELSE UNCHANGED <<error, errorMu>>
      BY ZenonT(60), <1>3, <1>r, <2>2 DEF CloseSwap
    <3>2. CASE Closing(p) = "Error"
      <4>1. errorMu = p /\ errorMu' = None /\ "ConnectionClosed" \in error'
        BY ZenonT(60), <1>l, <2>0, <3>1, <3>2 DEF ErrorInv
      <4>2. \A q \in Procs : errorMu' = q <=> pc'[q] \in InClose /\ Closing(q)' = "Error"
        BY ZenonT(60), <1>0, <1>c, <3>1, <4>1 DEF ErrorInv
      <4> QED BY ZenonT(60), <1>0, <4>1, <4>2 DEF ErrorInv
    <3>3. CASE Closing(p) # "Error"
      <4>1. OthersKept(p) /\ UNCHANGED <<errorMu, error>> BY ZenonT(60), <1>0, <3>1, <3>3 DEF OthersKept
      <4>2. errorMu # p BY ZenonT(60), <3>3 DEF ErrorInv
      <4>3. \A q \in Procs : errorMu' = q <=> pc'[q] \in InClose /\ Closing(q)' = "Error"
        BY ZenonT(60), <1>0, <1>c, <3>1, <4>1, <4>2 DEF ErrorInv
      <4>4. \A q \in Procs : errorMu' = q => error' = {cause'[q]} /\ (pc'[q] \in PostSwap => reason' = cause'[q])
        BY ZenonT(60), <1>0, <3>1, <4>1, <4>2 DEF ErrorInv
      <4> QED BY ZenonT(60), <3>1, <4>1, <4>3, <4>4 DEF ErrorInv
    <3> QED BY ZenonT(60), <3>2, <3>3
  <2> QED BY ZenonT(60), <2>1, <2>2
<1>4. CASE CloseShut(p) \/ ClosePast(p) \/ CloseWait(p) \/ CloseStreams(p) \/ CloseFlush(p)
  <2>1. pc[p] \in PostSwap /\ UNCHANGED <<closed, error, reason, errorMu>>
    BY ZenonT(60), <1>4, <1>l
       DEF CloseShut, ClosePast, CloseWait, CloseStreams, CloseFlush, lockVars, stateVars
  <2>2. pc'[p] \in PostSwap
    BY ZenonT(60), <1>4, <1>l, <1>g DEF CloseShut, ClosePast, CloseWait, CloseStreams, CloseFlush
  <2> QED BY ZenonT(60), <1>0, <1>l, <2>1, <2>2, ErrorHeld
<1>5. CASE CloseFin(p)
  <2>1. /\ pc[p] \in PostSwap /\ pc[p] \in InClose /\ pc'[p] \notin InClose
        /\ UNCHANGED <<closed, error, reason>>
        /\ errorMu' = IF Closing(p) = "Error" THEN None ELSE errorMu
    BY ZenonT(60), <1>5, <1>l, <1>r DEF CloseFin, stateVars
  <2>2. CASE Closing(p) = "Error"
    <3>1. errorMu = p /\ errorMu' = None BY ZenonT(60), <2>1, <2>2 DEF ErrorInv
    <3>2. error' \cap {reason', "ConnectionClosed"} # {} BY ZenonT(60), <2>1, <3>1 DEF ErrorInv
    <3>3. \A q \in Procs : errorMu' = q <=> pc'[q] \in InClose /\ Closing(q)' = "Error"
      BY ZenonT(60), <1>0, <1>c, <2>1, <3>1 DEF ErrorInv
    <3> QED BY ZenonT(60), <1>0, <3>1, <3>2, <3>3 DEF ErrorInv
  <2>3. CASE Closing(p) # "Error"
    <3>1. errorMu # p /\ errorMu' = errorMu BY ZenonT(60), <2>1, <2>3 DEF ErrorInv
    <3>2. \A q \in Procs : errorMu' = q <=> pc'[q] \in InClose /\ Closing(q)' = "Error"
      BY ZenonT(60), <1>0, <1>c, <2>1, <3>1 DEF ErrorInv
    <3>3. \A q \in Procs : errorMu' = q => error' = {cause'[q]} /\ (pc'[q] \in PostSwap => reason' = cause'[q])
      BY ZenonT(60), <1>0, <2>1, <3>1 DEF ErrorInv
    <3> QED BY ZenonT(60), <2>1, <3>1, <3>2, <3>3 DEF ErrorInv
  <2> QED BY ZenonT(60), <2>2, <2>3
<1> QED BY ZenonT(60), <1>1, <1>2, <1>3, <1>4, <1>5 DEF CloseStep

\* Every step keeps c.error known.
LEMMA ErrorStep ==
  ASSUME Typed, Control, ErrorInv, Effects
  PROVE  ErrorInv'
<1>l. /\ \A l \in {"WLock", "WErr", "FLock", "Recv", "Select", "Done", "ELock", "Exit", "Next", "KDelete",
                   "Idle", "RPop", "RStale", "SPop", "SStale"} \cup WriterPCs \cup ReadPCs : l \notin InClose
      /\ "readLoop" \in Procs
  BY ZenonT(60) DEF InClose, PostSwap, WriterPCs, ReadPCs, Procs, Loops
<1>p. \A p \in Procs : p \in Users \/ p \in Loops BY ZenonT(60) DEF Procs
<1>1. ASSUME NEW p \in Procs, WriteStep(p), WriteEffect(p) PROVE ErrorInv'
  <2>1. Moves(p) /\ UNCHANGED <<closed, error, reason, errorMu, op>>
    BY ZenonT(60), <1>1 DEF WriteEffect, stateVars, dataSide, callVars
  <2>2. pc[p] \notin InClose /\ pc'[p] \notin InClose BY ZenonT(60), <1>1, <1>l, <1>p DEF WriteEffect
  <2>3. OthersKept(p) BY ZenonT(60), <1>1, <2>1, CauseOwn DEF OthersKept
  <2> QED BY ZenonT(60), <2>1, <2>2, <2>3, ErrorKept
<1>2. ASSUME NEW p \in Procs, Flush(p), FlushEffect(p) PROVE ErrorInv'
  <2>1. Moves(p) /\ UNCHANGED <<closed, error, reason, errorMu, op>>
    BY ZenonT(60), <1>2 DEF FlushEffect, lockVars, stateVars, dataSide, callVars
  <2>2. pc[p] \notin InClose /\ pc'[p] \notin InClose BY ZenonT(60), <1>2, <1>l, <1>p DEF FlushEffect
  <2>3. OthersKept(p) BY ZenonT(60), <1>2, <2>1, CauseOwn DEF OthersKept
  <2> QED BY ZenonT(60), <2>1, <2>2, <2>3, ErrorKept
<1>3. ASSUME NEW p \in Procs, LoopEffect(p) PROVE ErrorInv'
  <2>1. Moves(p) /\ UNCHANGED <<closed, error, reason, errorMu, op, cause>>
    BY ZenonT(60), <1>3 DEF LoopEffect, lockVars
  <2>2. pc[p] \notin InClose /\ pc'[p] \notin InClose BY ZenonT(60), <1>3, <1>l DEF LoopEffect
  <2>3. OthersKept(p) BY ZenonT(60), <2>1 DEF OthersKept
  <2> QED BY ZenonT(60), <2>1, <2>2, <2>3, ErrorKept
<1>4. ASSUME NEW p \in Procs, CloseStep(p), CloseFrame(p), CloseEffect(p) PROVE ErrorInv'
  BY ZenonT(60), <1>4, ErrorClose
<1>5. CASE ReadLoopStep /\ ReadFrame /\ ReadEffect
  <2>1. Moves("readLoop") /\ UNCHANGED <<closed, error, reason, errorMu, op>>
    BY ZenonT(60), <1>5 DEF ReadEffect, ReadFrame, lockVars, stateVars
  <2>2. pc["readLoop"] \notin InClose /\ pc'["readLoop"] \notin InClose
    BY ZenonT(60), <1>5, <1>l DEF ReadEffect
  <2>3. OthersKept("readLoop") BY ZenonT(60), <1>5, <1>l, <2>1, CauseOwn DEF OthersKept
  <2> QED BY ZenonT(60), <1>l, <2>1, <2>2, <2>3, ErrorKept
<1>6. ASSUME NEW p \in Users, UserFrame(p), UserEffect(p) PROVE ErrorInv'
  <2>1. p \in Procs /\ Moves(p) /\ UNCHANGED <<closed, error, reason, errorMu, op, cause>>
    BY ZenonT(60), <1>6 DEF UserEffect, UserFrame, connSide, lockVars, stateVars, callVars, Procs
  <2>2. pc[p] \notin InClose /\ pc'[p] \notin InClose BY ZenonT(60), <1>6, <1>l DEF UserEffect
  <2>3. OthersKept(p) BY ZenonT(60), <2>1 DEF OthersKept
  <2> QED BY ZenonT(60), <2>1, <2>2, <2>3, ErrorKept
<1>7. ASSUME NEW p \in Users, CallFrame(p), CallEffect(p) PROVE ErrorInv'
  <2>1. p \in Procs /\ Moves(p) /\ UNCHANGED <<closed, error, reason, errorMu, cause>>
    BY ZenonT(60), <1>7 DEF CallEffect, CallFrame, connSide, lockVars, stateVars, Procs
  <2>2. pc[p] \notin InClose BY ZenonT(60), <1>7, <1>l DEF CallEffect
  <2>3. pc'[p] \in InClose => Closing(p)' # "Error"
    <3>1. pc'[p] \in InClose => pc'[p] = "CStale" BY ZenonT(60), <1>7, <1>l DEF CallEffect
    <3> QED BY ZenonT(60), <1>7, <3>1 DEF CallEffect, Closing
  <2>4. OthersKept(p) BY ZenonT(60), <1>7, <2>1 DEF OthersKept, CallEffect
  <2> QED BY ZenonT(60), <2>1, <2>2, <2>3, <2>4, ErrorKept
<1> QED BY ZenonT(60), <1>1, <1>2, <1>3, <1>4, <1>5, <1>6, <1>7 DEF Effects

\* The final flush of close() empties the buffer, or a write failed; nobody writes after it.
LEMMA FlushedStep ==
  ASSUME Typed, Control, FlushedInv, Effects
  PROVE  FlushedInv'
<1>w. ASSUME TornDown PROVE shut /\ \A p \in Procs : pc[p] \notin WriterPCs
  <2>1. Quiet BY ZenonT(60), <1>w DEF TornDown, Tearing, Quiet
  <2>2. shut BY ZenonT(60), <2>1 DEF Control, LoopInv
  <2> QED BY ZenonT(60), <2>2 DEF Control, WinnerInv
<1>k. ASSUME TornDown' => TornDown, TornDown => UNCHANGED <<wbuf, werr>> PROVE FlushedInv'
  <2>1. ASSUME TornDown', ~werr' PROVE wbuf' = <<>>
    <3>1. TornDown /\ werr' = werr /\ wbuf' = wbuf BY ZenonT(60), <1>k, <2>1
    <3>2. ~werr BY SMTT(60), <2>1, <3>1
    <3> QED BY ZenonT(60), <3>1, <3>2 DEF FlushedInv
  <2> QED BY ZenonT(60), <2>1 DEF FlushedInv
<1>t. ASSUME NEW p \in Procs, Moves(p), closed' = closed, pc[p] \notin Tearing PROVE TornDown' => TornDown
  BY ZenonT(60), <1>t DEF TornDown, Moves
<1>l. \A l \in {"WLock", "WErr", "FLock", "Recv", "Select", "Done", "Idle", "RPop", "RStale", "SPop",
                "SStale", "KDelete"} \cup WriterPCs \cup ReadPCs : l \notin Tearing
  BY ZenonT(60) DEF Tearing, WriterPCs, ReadPCs
<1>1. ASSUME NEW p \in Procs, WriteStep(p), WriteEffect(p) PROVE FlushedInv'
  <2>1. Moves(p) /\ closed' = closed /\ pc[p] \notin Tearing
    BY ZenonT(60), <1>1, <1>l DEF WriteEffect, stateVars
  <2>2. ASSUME TornDown PROVE UNCHANGED <<wbuf, werr>>
    <3>1. pc[p] \notin WriterPCs BY ZenonT(60), <1>w, <2>2
    <3>2. WriteLock(p) \/ WriteError(p)
      BY ZenonT(60), <1>1, <3>1 DEF WriteStep, WriteMeta, WriteBody, WriteChunk, WriteSend, WriterPCs
    <3> QED BY ZenonT(60), <3>2 DEF WriteLock, WriteError, connSide, writeVars
  <2> QED BY ZenonT(60), <1>k, <1>t, <2>1, <2>2
<1>2. ASSUME NEW p \in Procs, Flush(p), FlushEffect(p) PROVE FlushedInv'
  <2>1. Moves(p) /\ closed' = closed /\ pc[p] \notin Tearing
    BY ZenonT(60), <1>2, <1>l DEF FlushEffect, stateVars
  <2>2. closed => UNCHANGED <<wbuf, werr>> BY ZenonT(60), <1>2 DEF Flush
  <2>3. TornDown => closed BY ZenonT(60) DEF TornDown
  <2> QED BY ZenonT(60), <1>k, <1>t, <2>1, <2>2, <2>3
<1>3. ASSUME NEW p \in Procs, LoopEffect(p) PROVE FlushedInv'
  <2>1. Moves(p) /\ UNCHANGED <<closed, wbuf, werr>> /\ pc[p] \notin Tearing
    BY ZenonT(60), <1>3, <1>l DEF LoopEffect
  <2> QED BY ZenonT(60), <1>k, <1>t, <2>1
<1>4. ASSUME NEW p \in Procs, CloseStep(p), CloseFrame(p), CloseEffect(p) PROVE FlushedInv'
  <2>0. Moves(p) /\ pc \in [Procs -> Labels] BY ZenonT(60), <1>4 DEF CloseEffect, Typed
  <2>g. ASSUME NEW l, Goto(p, l) PROVE pc'[p] = l BY ZenonT(60), <2>0, <2>g DEF Goto
  <2>n. ASSUME pc'[p] \in Tearing PROVE FlushedInv' BY ZenonT(60), <2>n DEF FlushedInv, TornDown
  <2>1. CASE CloseFlush(p)
    <3>1. wbuf' = <<>> \/ WriteOutFails BY ZenonT(60), <2>1 DEF CloseFlush
    <3>2. WriteOutFails => werr' BY SMTT(60) DEF WriteOutFails
    <3> QED BY ZenonT(60), <3>1, <3>2 DEF FlushedInv
  <2>2. CASE CloseShut(p) \/ ClosePast(p) \/ CloseWait(p)
    <3>1. pc'[p] \in Tearing BY ZenonT(60), <2>2, <2>g DEF CloseShut, ClosePast, CloseWait, Tearing
    <3> QED BY ZenonT(60), <2>n, <3>1
  <2>3. CASE CloseStreams(p)
    <3>1. pc'[p] \in {"CStreams", "CFlush"} BY ZenonT(60), <2>3, <2>g DEF CloseStreams
    <3> QED BY ZenonT(60), <2>n, <3>1 DEF Tearing
  <2>4. CASE CloseSwap(p) /\ ~closed
    <3>1. pc'[p] = "CShut" BY ZenonT(60), <2>4, <2>g DEF CloseSwap
    <3> QED BY ZenonT(60), <2>n, <3>1 DEF Tearing
  <2>5. CASE CloseWithError(p) \/ CloseStale(p) \/ (CloseSwap(p) /\ closed) \/ CloseFin(p)
    <3>1. closed' = closed /\ UNCHANGED <<wbuf, werr>> /\ pc[p] \in {"ELock", "CStale", "CSwap", "CFin"}
      BY ZenonT(60), <2>5 DEF CloseWithError, CloseStale, CloseSwap, CloseFin, stateVars, writeVars
    <3>2. pc[p] \notin Tearing BY ZenonT(60), <3>1 DEF Tearing
    <3> QED BY ZenonT(60), <1>k, <1>t, <2>0, <3>1, <3>2
  <2> QED BY ZenonT(60), <1>4, <2>1, <2>2, <2>3, <2>4, <2>5 DEF CloseStep
<1>5. CASE ReadFrame /\ ReadEffect
  <2>1. Moves("readLoop") /\ UNCHANGED <<closed, wbuf, werr>> /\ "readLoop" \in Procs
    BY ZenonT(60), <1>5 DEF ReadEffect, ReadFrame, stateVars, writeVars, Procs, Loops
  <2>2. pc["readLoop"] \notin Tearing BY ZenonT(60), <1>5, <1>l DEF ReadEffect
  <2> QED BY ZenonT(60), <1>k, <1>t, <2>1, <2>2
<1>6. ASSUME NEW p \in Users, UserFrame(p), UserEffect(p) PROVE FlushedInv'
  <2>1. p \in Procs /\ Moves(p) /\ UNCHANGED <<closed, wbuf, werr>> /\ pc[p] \notin Tearing
    BY ZenonT(60), <1>6, <1>l DEF UserEffect, UserFrame, connSide, stateVars, writeVars, Procs
  <2> QED BY ZenonT(60), <1>k, <1>t, <2>1
<1>7. ASSUME NEW p \in Users, CallFrame(p), CallEffect(p) PROVE FlushedInv'
  <2>1. p \in Procs /\ Moves(p) /\ UNCHANGED <<closed, wbuf, werr>> /\ pc[p] \notin Tearing
    BY ZenonT(60), <1>7, <1>l DEF CallEffect, CallFrame, connSide, stateVars, writeVars, Procs
  <2> QED BY ZenonT(60), <1>k, <1>t, <2>1
<1> QED BY ZenonT(60), <1>1, <1>2, <1>3, <1>4, <1>5, <1>6, <1>7 DEF Effects

-----------------------------------------------------------------------------
\* Who has been told of the end of a stream: a read that finds it drained adds its reader,
\* and only a new call of that reader takes it away.
ToldMove ==
  \/ \A s \in Objects : Told(s)' = Told(s)
  \/ \E p \in Users : CallFrame(p) /\ \A s \in Objects : Told(s)' = Told(s) \ {p}
  \/ \E p \in Users :
       /\ pc[p] = "SStale" /\ strm[cur[p]].stale = <<>> /\ UNCHANGED <<nstr, strm>>
       /\ \A s \in Objects : Told(s)' = IF s = cur[p] THEN Told(s) \cup {p} ELSE Told(s)

\* Each kind of step does that to the readers.
LEMMA ToldMoves ==
  ASSUME OpInv, ReadsOnly, cur \in [Procs -> 0 .. MaxStreams], res \in [Users -> Outcomes], Effects
  PROVE  ToldMove /\ ReadsOnly'
<1>u. \A u \in Users : u \in Procs /\ u \notin Loops BY ZenonT(60), Identity DEF Procs
<1>same. ASSUME NEW p \in Procs, Moves(p), pc[p] # "Idle",
                \A u \in Users : op'[u] = op[u] /\ cur'[u] = cur[u],
                \A u \in Users : u # p => res'[u] = res[u],
                p \in Users /\ op[p] = "StreamRead" =>
                   /\ pc'[p] \in {"Idle", "SStale"} /\ (pc'[p] = "Idle" => res'[p] # "StreamClosed")
         PROVE  ToldMove /\ ReadsOnly'
  <2>1. ASSUME NEW s \in Objects, NEW u \in Users PROVE u \in Told(s)' <=> u \in Told(s)
    <3>1. CASE u = p BY ZenonT(60), <1>same, <3>1 DEF Told
    <3>2. CASE u # p BY ZenonT(60), <1>u, <1>same, <3>2 DEF Told, Moves
    <3> QED BY ZenonT(60), <3>1, <3>2
  <2>2. \A s \in Objects : Told(s)' \subseteq Users /\ Told(s) \subseteq Users BY ZenonT(60) DEF Told
  <2>3. ASSUME NEW s \in Objects PROVE Told(s)' = Told(s) BY ZenonT(60), <2>1, <2>2
  <2>4. ReadsOnly' BY ZenonT(60), <1>u, <1>same DEF ReadsOnly, Moves
  <2> QED BY ZenonT(60), <2>3, <2>4 DEF ToldMove
<1>1. ASSUME NEW p \in Procs, WriteEffect(p) \/ FlushEffect(p) PROVE ToldMove /\ ReadsOnly'
  <2>1. Moves(p) /\ pc[p] \notin {"Idle", "SPop", "SStale"} /\ UNCHANGED <<op, cur, res>>
    BY ZenonT(60), <1>1 DEF WriteEffect, FlushEffect, dataSide, callVars, WriterPCs
  <2> QED BY ZenonT(60), <1>same, <2>1 DEF ReadsOnly
<1>2. ASSUME NEW p \in Procs, LoopEffect(p) PROVE ToldMove /\ ReadsOnly'
  BY ZenonT(60), <1>u, <1>2, <1>same DEF LoopEffect
<1>3. ASSUME NEW p \in Procs, CloseFrame(p), CloseEffect(p) PROVE ToldMove /\ ReadsOnly'
  <2>1. Moves(p) /\ pc[p] \notin {"Idle", "SPop", "SStale"} /\ UNCHANGED <<op, cur>>
    BY ZenonT(60), <1>3 DEF CloseFrame, CloseEffect, callVars, InClose, PostSwap
  <2>2. \A u \in Users : u # p => res'[u] = res[u] BY ZenonT(60), <1>3 DEF CloseEffect
  <2> QED BY ZenonT(60), <1>same, <2>1, <2>2 DEF ReadsOnly
<1>4. ASSUME ReadFrame, ReadEffect PROVE ToldMove /\ ReadsOnly'
  <2>1. "readLoop" \in Procs /\ "readLoop" \notin Users BY ZenonT(60), <1>u DEF Procs, Loops
  <2>2. Moves("readLoop") /\ pc["readLoop"] # "Idle" /\ UNCHANGED <<op, res>>
    BY ZenonT(60), <1>4 DEF ReadFrame, ReadEffect, ReadPCs
  <2>3. \A u \in Users : cur'[u] = cur[u]
    BY ZenonT(60), <1>4, <1>u, <2>1 DEF ReadFrame, StreamLookup, StreamAdd
  <2> QED BY ZenonT(60), <1>same, <2>1, <2>2, <2>3
<1>5. ASSUME NEW p \in Users, UserStep(p), UserFrame(p), UserEffect(p) PROVE ToldMove /\ ReadsOnly'
  <2>1. /\ p \in Procs /\ Moves(p) /\ pc[p] # "Idle" /\ UNCHANGED <<op, cur>>
        /\ \A u \in Users : u # p => res'[u] = res[u]
    BY ZenonT(60), <1>u, <1>5 DEF UserFrame, UserEffect, callVars
  <2>2. CASE ReadPop(p) \/ ReadStale(p) \/ StreamDelete(p)
    <3>1. op[p] # "StreamRead"
      BY ZenonT(60), <2>2 DEF ReadPop, ReadStale, StreamDelete, OpInv, ReadsOnly
    <3> QED BY ZenonT(60), <1>same, <2>1, <3>1
  <2>3. CASE StreamPop(p) \/ (StreamStale(p) /\ strm[cur[p]].stale # <<>>)
    <3>1. pc'[p] \in {"Idle", "SStale"} /\ (pc'[p] = "Idle" => res'[p] # "StreamClosed")
      <4>1. pc'[p] = "SStale" \/ Finish(p, "packet")
        BY ZenonT(60), <1>5, <2>1, <2>3 DEF StreamPop, StreamStale, Goto, UserEffect, Moves
      <4>2. Finish(p, "packet") => res'[p] = "packet" BY ZenonT(60) DEF Finish
      <4>3. pc'[p] \in {"Idle", "SStale"} BY ZenonT(60), <1>5, <2>3 DEF StreamPop, StreamStale, UserEffect
      <4> QED BY ZenonT(60), <4>1, <4>2, <4>3
    <3> QED BY ZenonT(60), <1>same, <2>1, <3>1
  <2>4. CASE StreamStale(p) /\ strm[cur[p]].stale = <<>>
    <3>1. pc[p] = "SStale" /\ Finish(p, "StreamClosed") /\ UNCHANGED <<nstr, strm>>
      BY ZenonT(60), <2>4 DEF StreamStale
    <3>2. op[p] = "StreamRead" /\ pc'[p] = "Idle" /\ res'[p] = "StreamClosed"
      BY ZenonT(60), <2>1, <3>1 DEF Finish, Goto, OpInv, Moves
    <3>3. ASSUME NEW s \in Objects
          PROVE  Told(s)' = IF s = cur[p] THEN Told(s) \cup {p} ELSE Told(s)
      <4>1. \A u \in Users : u # p => (u \in Told(s)' <=> u \in Told(s))
        BY ZenonT(60), <1>u, <2>1 DEF Told, Moves
      <4>2. p \notin Told(s) /\ (p \in Told(s)' <=> s = cur[p]) BY ZenonT(60), <2>1, <3>2 DEF Told
      <4>3. Told(s)' \subseteq Users /\ Told(s) \subseteq Users BY ZenonT(60) DEF Told
      <4>4. CASE s = cur[p]
        <5>1. Told(s)' = Told(s) \cup {p} BY ZenonT(60), <4>1, <4>2, <4>3, <4>4
        <5> QED BY ZenonT(60), <4>4, <5>1
      <4>5. CASE s # cur[p]
        <5>0. ASSUME NEW u \in Users PROVE u \in Told(s)' <=> u \in Told(s)
          BY ZenonT(60), <4>1, <4>2, <4>5
        <5>1. Told(s)' = Told(s) BY ZenonT(60), <4>3, <5>0
        <5> QED BY ZenonT(60), <4>5, <5>1
      <4> QED BY ZenonT(60), <4>4, <4>5
    <3>4. ReadsOnly' BY ZenonT(60), <1>u, <2>1, <3>2 DEF ReadsOnly, Moves
    <3> QED BY ZenonT(60), <2>4, <3>1, <3>3, <3>4 DEF ToldMove
  <2> QED BY ZenonT(60), <1>5, <2>2, <2>3, <2>4 DEF UserStep
<1>6. ASSUME NEW p \in Users, CallFrame(p), CallEffect(p) PROVE ToldMove /\ ReadsOnly'
  <2>1. /\ Moves(p) /\ UNCHANGED res
        /\ \A u \in Users : u # p => op'[u] = op[u] /\ cur'[u] = cur[u]
        /\ op'[p] = "StreamRead" => pc'[p] # "Idle"
    BY ZenonT(60), <1>u, <1>6 DEF CallFrame, CallEffect
  <2>2. ASSUME NEW s \in Objects PROVE Told(s)' = Told(s) \ {p}
    <3>1. \A u \in Users : u # p => (u \in Told(s)' <=> u \in Told(s))
      BY ZenonT(60), <1>u, <2>1 DEF Told, Moves
    <3>2. p \notin Told(s)' BY ZenonT(60), <2>1 DEF Told
    <3>3. Told(s)' \subseteq Users /\ Told(s) \subseteq Users BY ZenonT(60) DEF Told
    <3> QED BY ZenonT(60), <3>1, <3>2, <3>3
  <2>3. op'[p] = "StreamRead" => pc'[p] \in {"SPop", "SStale"} BY ZenonT(60), <1>6 DEF CallEffect
  <2>4. ReadsOnly' BY ZenonT(60), <1>u, <2>1, <2>3 DEF ReadsOnly, Moves
  <2> QED BY ZenonT(60), <1>6, <2>2, <2>4 DEF ToldMove
<1> QED BY ZenonT(60), <1>1, <1>2, <1>3, <1>4, <1>5, <1>6 DEF Effects

=============================================================================
