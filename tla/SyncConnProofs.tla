---------------------------- MODULE SyncConnProofs ----------------------------
(***************************************************************************)
(* The safety invariants of a Sync connection, for any number of           *)
(* goroutines and calls, and the codec of the metadata it sends.           *)
(***************************************************************************)
EXTENDS SyncConnProps, Metadata, SequenceTheorems, TLAPS

\* A goroutine that has won the swap of close(), until it has closed the net.Conn.
Winning == {"Store", "Shut", "Close"}
Labels  == {"Idle", "WLock", "WMeta", "WBody", "RMeta", "RBody", "Check", "Swap"} \cup Winning
Results == Causes \cup {"none", "Invalid", "ConnectionClosed", "ok", "packet", "nil", "net.Conn"}
Packets == [src : Users, n : Nat, len : {0, 1}]
Parts   == [pkt : Packets, part : {"meta", "body"}]

SyncTypes ==
  /\ closed \in BOOLEAN /\ conn \in BOOLEAN /\ broken \in BOOLEAN /\ raw \in BOOLEAN
  /\ error \in Causes \cup {"nil"} /\ stores \in Nat /\ mu \in Users \cup {None}
  /\ wire \in Seq(Parts) /\ pc \in [Users -> Labels] /\ pkt \in [Users -> Packets]
  /\ cause \in [Users -> Causes \cup {"nil"}] /\ res \in [Users -> Results]
  /\ calls \in [Users -> Nat]

\* The mutex: only its holder writes to the net.Conn.
Locked == \A u \in Users : pc[u] \in {"WMeta", "WBody"} => mu = u

\* Metadata that announces content is the last chunk only while its writer is about to
\* write the content, or after a Write has failed, and then nothing is written any more.
Ending ==
  /\ \A u \in Users : pc[u] = "WBody" =>
       Len(wire) > 0 /\ wire[Len(wire)] = [pkt |-> pkt[u], part |-> "meta"]
  /\ (Len(wire) > 0 /\ ~broken /\ wire[Len(wire)].part = "meta" /\ wire[Len(wire)].pkt.len > 0)
       => \E u \in Users : pc[u] = "WBody"

WireInv == Locked /\ Ending /\ SyncPacketsWhole

\* The swap has one winner: it finds c.error empty and the net.Conn open, and Raw, when it
\* is the winner, leaves them so.
OneWinner ==
  /\ \A u, v \in Users : pc[u] \in Winning /\ pc[v] \in Winning => u = v
  /\ \A u \in Users : pc[u] \in Winning => closed /\ ~raw
  /\ ~closed => stores = 0 /\ conn /\ ~raw
  /\ raw => conn

\* c.error is stored by the winner that met an error, before it closes the net.Conn.
Stored ==
  /\ stores <= 1 /\ (stores = 0 => error = "nil")
  /\ \A u \in Users : pc[u] = "Store" => stores = 0
  /\ \A u \in Users : pc[u] = "Shut" => error = cause[u]

CloseInv == OneWinner /\ Stored /\ OneCause /\ RawKeepsConn

SyncInv == SyncTypes /\ WireInv /\ CloseInv

-----------------------------------------------------------------------------
\* What WritePacket does leaves the closing of the connection alone.
Writing(u) == CallWritePacket(u) \/ WriteLock(u) \/ WriteMeta(u) \/ WriteBody(u)
\* What ReadPacket does leaves the write side and the closing alone.
Reading(u) == CallReadPacket(u) \/ ReadMeta(u) \/ ReadBody(u) \/ Check(u)
Closing(u) == \/ CloseWithError(u) \/ Store(u) \/ Shut(u) \/ CallClose(u) \/ Close(u)
              \/ CallRaw(u)

\* A step of a goroutine writes, reads or closes.
LEMMA NextSplit ==
  ASSUME NEW u \in Users, \/ Step(u) \/ CallWritePacket(u) \/ CallReadPacket(u)
                          \/ CallClose(u) \/ CallRaw(u)
  PROVE  Writing(u) \/ Reading(u) \/ Closing(u)
BY ZenonT(60) DEF Step, Writing, Reading, Closing

\* Goroutine u moves to a label outside S and returns nothing of T, or returns nothing.
Moves(u, S, T) ==
  /\ pc[u] \notin S /\ \E l \in Labels \ S : pc' = [pc EXCEPT ![u] = l]
  /\ res' = res \/ \E v \in Results \ T : res' = [res EXCEPT ![u] = v]
  /\ cause' = cause \/ \E e \in Causes : cause' = [cause EXCEPT ![u] = e]

WLabels == {"WMeta", "WBody"}

\* A step that only goes to a label.
LEMMA Moved ==
  ASSUME SyncTypes, NEW u \in Users, NEW l \in Labels, NEW S, pc[u] \notin S, l \notin S,
         pc' = [pc EXCEPT ![u] = l], UNCHANGED <<res, cause>>, NEW T
  PROVE  Moves(u, S, T)
BY ZenonT(60) DEF Moves

\* A step that returns.
LEMMA MovedReturning ==
  ASSUME SyncTypes, NEW u \in Users, NEW S, pc[u] \notin S, "Idle" \notin S, NEW T,
         NEW v \in Results \ T, Return(u, v), cause' = cause
  PROVE  Moves(u, S, T)
<1>1. "Idle" \in Labels \ S BY ZenonT(60) DEF Labels
<1> QED BY ZenonT(60), <1>1 DEF Moves, Return, Goto

\* A step that meets an error on its way to Check.
LEMMA MovedMeeting ==
  ASSUME SyncTypes, NEW u \in Users, NEW S, pc[u] \notin S, NEW l \in Labels \ S, NEW T,
         NEW e \in Causes, Meets(u, e, l)
  PROVE  Moves(u, S, T)
BY ZenonT(60) DEF Moves, Meets, Goto

\* The effect of each group of actions on what it shares with the other groups.
LEMMA ReadingMoves ==
  ASSUME SyncTypes, NEW u \in Users, Reading(u)
  PROVE  /\ Moves(u, WLabels \cup Winning, Causes)
         /\ UNCHANGED <<closed, error, stores, mu, conn, broken, wire, pkt, raw>>
<1> DEFINE S == WLabels \cup Winning
<1>l. /\ "Idle" \notin S /\ "RMeta" \in Labels \ S /\ "RBody" \in Labels \ S
      /\ "Check" \in Labels \ S /\ "Swap" \in Labels \ S
  BY ZenonT(60) DEF WLabels, Winning, Labels
<1>v. /\ "ConnectionClosed" \in Results \ Causes /\ "packet" \in Results \ Causes
      /\ "ReadError" \in Causes /\ "BadPacket" \in Causes
  BY ZenonT(60) DEF Results, Causes
<1>u. UNCHANGED <<closed, error, stores, mu, conn, broken, wire, pkt, raw>>
  BY ZenonT(60) DEF Reading, CallReadPacket, ReadMeta, ReadBody, Check, netVars
<1>1. CASE CallReadPacket(u)
  <2>1. pc[u] \notin S /\ cause' = cause
    BY ZenonT(60), <1>1 DEF CallReadPacket, Call, WLabels, Winning
  <2>2. CASE Return(u, "ConnectionClosed") BY ZenonT(60), <1>l, <1>v, <2>1, <2>2, MovedReturning, <1>u
  <2>3. CASE Goto(u, "RMeta") /\ UNCHANGED res
    BY ZenonT(60), <1>l, <2>1, <2>3, Moved, <1>u DEF Goto
  <2> QED BY ZenonT(60), <1>1, <2>2, <2>3 DEF CallReadPacket
<1>2. CASE ReadMeta(u)
  <2>1. pc[u] \notin S BY ZenonT(60), <1>2 DEF ReadMeta, WLabels, Winning
  <2>2. CASE Goto(u, "RBody") /\ UNCHANGED <<cause, res>>
    BY ZenonT(60), <1>l, <2>1, <2>2, Moved, <1>u DEF Goto
  <2>3. CASE Return(u, "packet") /\ UNCHANGED cause
    BY ZenonT(60), <1>l, <1>v, <2>1, <2>3, MovedReturning, <1>u
  <2>4. CASE Meets(u, "BadPacket", "Swap") BY ZenonT(60), <1>l, <1>v, <2>1, <2>4, MovedMeeting, <1>u
  <2>5. CASE Meets(u, "ReadError", "Check") BY ZenonT(60), <1>l, <1>v, <2>1, <2>5, MovedMeeting, <1>u
  <2> QED BY ZenonT(60), <1>2, <2>2, <2>3, <2>4, <2>5 DEF ReadMeta
<1>3. CASE ReadBody(u)
  <2>1. pc[u] \notin S BY ZenonT(60), <1>3 DEF ReadBody, WLabels, Winning
  <2>2. CASE Return(u, "packet") /\ UNCHANGED cause
    BY ZenonT(60), <1>l, <1>v, <2>1, <2>2, MovedReturning, <1>u
  <2>3. CASE Meets(u, "ReadError", "Check") BY ZenonT(60), <1>l, <1>v, <2>1, <2>3, MovedMeeting, <1>u
  <2> QED BY ZenonT(60), <1>3, <2>2, <2>3 DEF ReadBody
<1>4. CASE Check(u)
  <2>1. pc[u] \notin S /\ cause' = cause BY ZenonT(60), <1>4 DEF Check, WLabels, Winning
  <2>2. CASE Return(u, "ConnectionClosed") BY ZenonT(60), <1>l, <1>v, <2>1, <2>2, MovedReturning, <1>u
  <2>3. CASE Goto(u, "Swap") /\ UNCHANGED res
    BY ZenonT(60), <1>l, <2>1, <2>3, Moved, <1>u DEF Goto
  <2> QED BY ZenonT(60), <1>4, <2>2, <2>3 DEF Check
<1> QED BY ZenonT(60), <1>1, <1>2, <1>3, <1>4 DEF Reading

\* WritePacket wins no swap, returns no cause and closes nothing.
LEMMA WritingMoves ==
  ASSUME SyncTypes, NEW u \in Users, Writing(u)
  PROVE  Moves(u, Winning, Causes) /\ UNCHANGED <<closed, error, stores, conn, raw>>
<1>l. /\ "Idle" \notin Winning /\ "WLock" \in Labels \ Winning /\ "WMeta" \in Labels \ Winning
      /\ "WBody" \in Labels \ Winning /\ "Check" \in Labels \ Winning
  BY ZenonT(60) DEF Winning, Labels
<1>v. /\ "ConnectionClosed" \in Results \ Causes /\ "Invalid" \in Results \ Causes
      /\ "ok" \in Results \ Causes /\ "WriteError" \in Causes
  BY ZenonT(60) DEF Results, Causes
<1>u. UNCHANGED <<closed, error, stores, conn, raw>>
  BY ZenonT(60) DEF Writing, CallWritePacket, WriteLock, WriteMeta, WriteBody, WriteChunk, netVars
<1>1. CASE CallWritePacket(u)
  <2>1. pc[u] \notin Winning /\ cause' = cause BY ZenonT(60), <1>1 DEF CallWritePacket, Call, Winning
  <2>2. CASE Return(u, "Invalid") BY ZenonT(60), <1>l, <1>v, <2>1, <2>2, MovedReturning, <1>u
  <2>3. CASE Goto(u, "WLock") /\ UNCHANGED res
    BY ZenonT(60), <1>l, <2>1, <2>3, Moved, <1>u DEF Goto
  <2> QED BY ZenonT(60), <1>1, <2>2, <2>3 DEF CallWritePacket
<1>2. CASE WriteLock(u)
  <2>1. pc[u] \notin Winning /\ cause' = cause BY ZenonT(60), <1>2 DEF WriteLock, Winning
  <2>2. CASE Return(u, "ConnectionClosed") BY ZenonT(60), <1>l, <1>v, <2>1, <2>2, MovedReturning, <1>u
  <2>3. CASE Goto(u, "WMeta") /\ UNCHANGED res
    BY ZenonT(60), <1>l, <2>1, <2>3, Moved, <1>u DEF Goto
  <2> QED BY ZenonT(60), <1>2, <2>2, <2>3 DEF WriteLock
<1>3. ASSUME NEW label \in WLabels, NEW part, NEW more, WriteChunk(u, label, part, more)
      PROVE  Moves(u, Winning, Causes)
  <2>1. pc[u] \notin Winning BY ZenonT(60), <1>3 DEF WriteChunk, WLabels, Winning
  <2>2. CASE Goto(u, "WBody") /\ UNCHANGED <<res, cause>>
    BY ZenonT(60), <1>l, <2>1, <2>2, Moved DEF Goto
  <2>3. CASE Return(u, "ok") /\ UNCHANGED cause BY ZenonT(60), <1>l, <1>v, <2>1, <2>3, MovedReturning
  <2>4. CASE Meets(u, "WriteError", "Check") BY ZenonT(60), <1>l, <1>v, <2>1, <2>4, MovedMeeting
  <2> QED BY ZenonT(60), <1>3, <2>2, <2>3, <2>4 DEF WriteChunk
<1>4. "WMeta" \in WLabels /\ "WBody" \in WLabels BY ZenonT(60) DEF WLabels
<1>5. CASE WriteMeta(u) BY ZenonT(60), <1>3, <1>4, <1>5, <1>u DEF WriteMeta
<1>6. CASE WriteBody(u) BY ZenonT(60), <1>3, <1>4, <1>6, <1>u DEF WriteBody
<1> QED BY ZenonT(60), <1>1, <1>2, <1>5, <1>6 DEF Writing

\* Closing the connection writes nothing.
LEMMA ClosingMoves ==
  ASSUME SyncTypes, NEW u \in Users, Closing(u)
  PROVE  Moves(u, WLabels, {}) /\ UNCHANGED <<mu, broken, wire, pkt>>
<1>l. /\ "Idle" \notin WLabels /\ "Store" \in Labels \ WLabels /\ "Shut" \in Labels \ WLabels
      /\ "Close" \in Labels \ WLabels
  BY ZenonT(60) DEF WLabels, Labels, Winning
<1>v. /\ "ConnectionClosed" \in Results \ {} /\ "nil" \in Results \ {}
      /\ "net.Conn" \in Results \ {} /\ cause[u] \in Results \ {}
  BY ZenonT(60) DEF Results, SyncTypes
<1>u. UNCHANGED <<mu, broken, wire, pkt>> /\ UNCHANGED cause
  BY ZenonT(60) DEF Closing, CloseWithError, Store, Shut, CallClose, Close, CallRaw, netVars
<1>1. pc[u] \notin WLabels
  BY ZenonT(60) DEF Closing, CloseWithError, Store, Shut, CallClose, Close, CallRaw, Call, WLabels
<1>2. ASSUME NEW v \in Results \ {}, Return(u, v) PROVE Moves(u, WLabels, {})
  BY ZenonT(60), <1>l, <1>u, <1>1, <1>2, MovedReturning
<1>3. ASSUME NEW l \in Labels \ WLabels, Goto(u, l), UNCHANGED res PROVE Moves(u, WLabels, {})
  BY ZenonT(60), <1>u, <1>1, <1>3, Moved DEF Goto
<1>4. CASE CloseWithError(u) BY ZenonT(60), <1>4, <1>l, <1>v, <1>u, <1>2, <1>3 DEF CloseWithError
<1>5. CASE Store(u) BY ZenonT(60), <1>5, <1>l, <1>u, <1>3 DEF Store
<1>6. CASE Shut(u) BY ZenonT(60), <1>6, <1>v, <1>u, <1>2 DEF Shut
<1>7. CASE CallClose(u) BY ZenonT(60), <1>7, <1>l, <1>v, <1>u, <1>2, <1>3 DEF CallClose
<1>8. CASE Close(u) BY ZenonT(60), <1>8, <1>v, <1>u, <1>2 DEF Close
<1>9. CASE CallRaw(u) BY ZenonT(60), <1>9, <1>v, <1>u, <1>2 DEF CallRaw
<1> QED BY ZenonT(60), <1>4, <1>5, <1>6, <1>7, <1>8, <1>9 DEF Closing

\* The invariants before and after a step, on the part of the state they mention.
LEMMA TypesKept ==
  ASSUME SyncTypes, NEW u \in Users, Writing(u) \/ Reading(u) \/ Closing(u)
  PROVE  SyncTypes'
<1>1. ASSUME NEW S, NEW T, Moves(u, S, T)
      PROVE  /\ pc' \in [Users -> Labels] /\ res' \in [Users -> Results]
             /\ cause' \in [Users -> Causes \cup {"nil"}]
  <2>1. pc' \in [Users -> Labels] BY ZenonT(60), <1>1 DEF Moves, SyncTypes
  <2>2. res' \in [Users -> Results] BY ZenonT(60), <1>1 DEF Moves, SyncTypes
  <2>3. cause' \in [Users -> Causes \cup {"nil"}] BY ZenonT(60), <1>1 DEF Moves, SyncTypes
  <2> QED BY ZenonT(60), <2>1, <2>2, <2>3
<1>2. Moves(u, Winning, Causes) \/ Moves(u, WLabels \cup Winning, Causes) \/ Moves(u, WLabels, {})
  BY ZenonT(60), WritingMoves, ReadingMoves, ClosingMoves
<1>3. /\ pc' \in [Users -> Labels] /\ res' \in [Users -> Results]
      /\ cause' \in [Users -> Causes \cup {"nil"}]
  BY ZenonT(60), <1>1, <1>2
<1>4. calls' \in [Users -> Nat]
  <2>1. UNCHANGED calls \/ \E m \in Methods : Call(u, m)
    BY ZenonT(60) DEF Writing, Reading, Closing, CallWritePacket, WriteLock, WriteMeta, WriteBody,
      WriteChunk, CallReadPacket, ReadMeta, ReadBody, Check, CloseWithError, Store, Shut, CallClose,
      Close, CallRaw, Methods
  <2> QED BY SMTT(60), <2>1 DEF Call, SyncTypes
<1>5. CASE Writing(u)
  <2>1. UNCHANGED <<closed, error, stores, conn, raw>> BY ZenonT(60), <1>5, WritingMoves
  <2>2. CASE CallWritePacket(u)
    <3>1. UNCHANGED <<mu, broken, wire>> BY ZenonT(60), <2>2 DEF CallWritePacket, netVars
    <3>2. ASSUME NEW len \in {0, 1} PROVE [src |-> u, n |-> calls[u] + 1, len |-> len] \in Packets
      BY SMTT(60) DEF SyncTypes, Packets
    <3>3. pkt' \in [Users -> Packets]
      <4>1. CASE UNCHANGED pkt BY ZenonT(60), <4>1 DEF SyncTypes
      <4>2. ASSUME NEW x \in Packets, pkt' = [pkt EXCEPT ![u] = x] PROVE pkt' \in [Users -> Packets]
        BY ZenonT(60), <4>2 DEF SyncTypes
      <4> QED BY ZenonT(60), <2>2, <3>2, <4>1, <4>2 DEF CallWritePacket
    <3> QED BY ZenonT(60), <1>3, <1>4, <2>1, <3>1, <3>3 DEF SyncTypes
  <2>3. CASE WriteLock(u) BY ZenonT(60), <1>3, <1>4, <2>1, <2>3 DEF WriteLock, SyncTypes, netVars
  <2>4. ASSUME NEW part \in {"meta", "body"}, NEW label, NEW more, WriteChunk(u, label, part, more)
        PROVE  SyncTypes'
    <3>1. [pkt |-> pkt[u], part |-> part] \in Parts BY ZenonT(60) DEF SyncTypes, Parts
    <3>2. wire' \in Seq(Parts) /\ broken' \in BOOLEAN
      <4>1. CASE NetWrite([pkt |-> pkt[u], part |-> part]) BY SMTT(60), <3>1, <4>1 DEF NetWrite, SyncTypes
      <4>2. CASE NetWriteFails BY ZenonT(60), <4>2 DEF NetWriteFails, SyncTypes
      <4> QED BY ZenonT(60), <2>4, <4>1, <4>2 DEF WriteChunk
    <3>3. mu' \in Users \cup {None} /\ pkt' = pkt BY ZenonT(60), <2>4 DEF WriteChunk, SyncTypes
    <3> QED BY ZenonT(60), <1>3, <1>4, <2>1, <3>2, <3>3 DEF SyncTypes
  <2>5. CASE WriteMeta(u) BY ZenonT(60), <2>4, <2>5 DEF WriteMeta
  <2>6. CASE WriteBody(u) BY ZenonT(60), <2>4, <2>6 DEF WriteBody
  <2> QED BY ZenonT(60), <1>5, <2>2, <2>3, <2>5, <2>6 DEF Writing
<1>6. CASE Reading(u)
  <2>1. UNCHANGED <<closed, error, stores, mu, conn, broken, wire, pkt, raw>>
    BY ZenonT(60), <1>6, ReadingMoves
  <2> QED BY ZenonT(60), <1>3, <1>4, <2>1 DEF SyncTypes
<1>7. CASE Closing(u)
  <2>1. UNCHANGED <<mu, broken, wire, pkt>> BY ZenonT(60), <1>7, ClosingMoves
  <2>2. /\ closed' \in BOOLEAN /\ conn' \in BOOLEAN /\ raw' \in BOOLEAN
        /\ error' \in Causes \cup {"nil"} /\ stores' \in Nat
    <3>1. CASE CloseWithError(u) BY ZenonT(60), <3>1 DEF CloseWithError, SyncTypes, netVars
    <3>2. CASE Store(u) BY SMTT(60), <3>2 DEF Store, SyncTypes, netVars
    <3>3. CASE Shut(u) BY ZenonT(60), <3>3 DEF Shut, SyncTypes
    <3>4. CASE CallClose(u) BY ZenonT(60), <3>4 DEF CallClose, SyncTypes, netVars
    <3>5. CASE Close(u) BY ZenonT(60), <3>5 DEF Close, SyncTypes
    <3>6. CASE CallRaw(u) BY ZenonT(60), <3>6 DEF CallRaw, SyncTypes, netVars
    <3> QED BY ZenonT(60), <1>7, <3>1, <3>2, <3>3, <3>4, <3>5, <3>6 DEF Closing
  <2> QED BY ZenonT(60), <1>3, <1>4, <2>1, <2>2 DEF SyncTypes
<1> QED BY ZenonT(60), <1>5, <1>6, <1>7

\* Who is not writing may move as long as nothing is written.
LEMMA WireKept ==
  ASSUME SyncTypes, WireInv, NEW u \in Users, NEW l \in Labels, l # "WBody", l = "WMeta" => mu' = u,
         pc[u] # "WBody", pc' = [pc EXCEPT ![u] = l], UNCHANGED <<wire, broken>>,
         \A v \in Users : v # u /\ mu = v => mu' = v, \A v \in Users \ {u} : pkt'[v] = pkt[v]
  PROVE  WireInv'
<1>1. \A v \in Users : pc'[v] = IF v = u THEN l ELSE pc[v] BY ZenonT(60) DEF SyncTypes
<1>2. Locked' BY ZenonT(60), <1>1 DEF Locked, WireInv
<1>3. Ending' BY SMTT(60), <1>1 DEF Ending, WireInv
<1>4. SyncPacketsWhole' BY ZenonT(60) DEF SyncPacketsWhole, WireInv
<1> QED BY ZenonT(60), <1>2, <1>3, <1>4 DEF WireInv

\* A failing Write leaves the net.Conn broken.
LEMMA WireBroken ==
  ASSUME SyncTypes, WireInv, NEW u \in Users, pc[u] \in WLabels, NetWriteFails, mu' = None,
         Meets(u, "WriteError", "Check"), UNCHANGED pkt
  PROVE  WireInv'
<1>1. \A v \in Users : pc'[v] = IF v = u THEN "Check" ELSE pc[v] BY ZenonT(60) DEF SyncTypes, Meets, Goto
<1>2. mu = u BY ZenonT(60) DEF WireInv, Locked, WLabels
<1>3. Locked' BY ZenonT(60), <1>1, <1>2 DEF Locked, WireInv
<1>4. Ending' BY ZenonT(60), <1>1 DEF Ending, WireInv, NetWriteFails
<1>5. SyncPacketsWhole' BY ZenonT(60) DEF SyncPacketsWhole, WireInv, NetWriteFails
<1> QED BY ZenonT(60), <1>3, <1>4, <1>5 DEF WireInv

\* A chunk that is appended follows the end it needs.
LEMMA WholeAppend ==
  ASSUME SyncTypes, SyncPacketsWhole, NEW c \in Parts, wire' = Append(wire, c),
         c.part = "body" => Len(wire) > 0 /\ wire[Len(wire)] = [pkt |-> c.pkt, part |-> "meta"],
         (Len(wire) > 0 /\ wire[Len(wire)].part = "meta" /\ wire[Len(wire)].pkt.len > 0)
           => c = [pkt |-> wire[Len(wire)].pkt, part |-> "body"]
  PROVE  SyncPacketsWhole'
<1>1. /\ Len(wire) \in Nat /\ Len(wire') = Len(wire) + 1 /\ wire'[Len(wire) + 1] = c
      /\ \A i \in 1 .. Len(wire) : wire'[i] = wire[i]
  BY SMTT(60) DEF SyncTypes
<1> SUFFICES ASSUME NEW i \in 1 .. Len(wire')
             PROVE  /\ wire'[i].part = "body" => i > 1 /\ wire'[i - 1] = [pkt |-> wire'[i].pkt, part |-> "meta"]
                    /\ (wire'[i].part = "meta" /\ wire'[i].pkt.len > 0 /\ i < Len(wire'))
                         => wire'[i + 1] = [pkt |-> wire'[i].pkt, part |-> "body"]
  BY ZenonT(60) DEF SyncPacketsWhole
<1>2. CASE i = Len(wire) + 1 BY SMTT(60), <1>1, <1>2
<1>3. CASE i \in 1 .. Len(wire)
  <2>1. /\ wire[i].part = "body" => i > 1 /\ wire[i - 1] = [pkt |-> wire[i].pkt, part |-> "meta"]
        /\ (wire[i].part = "meta" /\ wire[i].pkt.len > 0 /\ i < Len(wire))
             => wire[i + 1] = [pkt |-> wire[i].pkt, part |-> "body"]
    BY ZenonT(60), <1>3 DEF SyncPacketsWhole
  <2> QED BY SMTT(60), <1>1, <1>3, <2>1
<1> QED BY SMTT(60), <1>1, <1>2, <1>3

\* Every step keeps what is on the wire in whole packets.
LEMMA WireStep ==
  ASSUME SyncTypes, WireInv, NEW u \in Users, Writing(u) \/ Reading(u) \/ Closing(u)
  PROVE  WireInv'
<1>1. CASE Reading(u) \/ Closing(u)
  <2>1. Moves(u, WLabels \cup Winning, Causes) \/ Moves(u, WLabels, {})
    BY ZenonT(60), <1>1, ReadingMoves, ClosingMoves
  <2>2. UNCHANGED <<mu, broken, wire, pkt>> BY ZenonT(60), <1>1, ReadingMoves, ClosingMoves
  <2>3. PICK l \in Labels : l \notin WLabels /\ pc[u] \notin WLabels /\ pc' = [pc EXCEPT ![u] = l]
    BY ZenonT(60), <2>1 DEF Moves
  <2> QED BY ZenonT(60), <2>2, <2>3, WireKept DEF WLabels
<1>2. CASE CallWritePacket(u)
  <2>1. pc[u] = "Idle" /\ UNCHANGED <<mu, wire, broken>>
    BY ZenonT(60), <1>2 DEF CallWritePacket, Call, netVars
  <2>2. \A v \in Users \ {u} : pkt'[v] = pkt[v] BY ZenonT(60), <1>2 DEF CallWritePacket, SyncTypes
  <2>3. PICK l \in {"WLock", "Idle"} : pc' = [pc EXCEPT ![u] = l]
    BY ZenonT(60), <1>2 DEF CallWritePacket, Goto, Return
  <2>4. l \in Labels BY ZenonT(60) DEF Labels
  <2> QED BY ZenonT(60), <2>1, <2>2, <2>3, <2>4, WireKept
<1>3. CASE WriteLock(u)
  <2>1. pc[u] = "WLock" /\ UNCHANGED <<wire, broken, pkt>> /\ mu = None
    BY ZenonT(60), <1>3 DEF WriteLock, netVars
  <2>2. PICK l \in {"WMeta", "Idle"} : pc' = [pc EXCEPT ![u] = l] /\ (l = "WMeta" => mu' = u)
    BY ZenonT(60), <1>3 DEF WriteLock, Goto, Return
  <2>3. l \in Labels /\ \A v \in Users : mu # v BY ZenonT(60), <2>1, SyncUsersAssumption DEF Labels
  <2> QED BY ZenonT(60), <2>1, <2>2, <2>3, WireKept
<1>4. ASSUME NEW label \in WLabels, NEW part \in {"meta", "body"}, NEW more \in BOOLEAN,
             WriteChunk(u, label, part, more),
             part = "body" <=> label = "WBody", more <=> (part = "meta" /\ pkt[u].len > 0)
      PROVE  WireInv'
  <2> DEFINE c == [pkt |-> pkt[u], part |-> part]
  <2>1. c \in Parts /\ c.pkt = pkt[u] /\ c.part = part BY ZenonT(60) DEF SyncTypes, Parts
  <2>2. /\ pc[u] = label /\ pkt' = pkt /\ mu = u /\ \A v \in Users : pc[v] \in WLabels => v = u
    BY ZenonT(60), <1>4 DEF WriteChunk, WireInv, Locked, WLabels
  <2>3. CASE NetWriteFails /\ mu' = None /\ Meets(u, "WriteError", "Check")
    BY ZenonT(60), <2>2, <2>3, WireBroken
  <2>4. CASE NetWrite(c)
    <3>1. ~broken /\ ~broken' /\ wire' = Append(wire, c) BY ZenonT(60), <2>4 DEF NetWrite, SyncTypes
    <3> HIDE DEF c
    <3>2. part = "body" => Len(wire) > 0 /\ wire[Len(wire)] = [pkt |-> c.pkt, part |-> "meta"]
      BY ZenonT(60), <1>4, <2>1, <2>2 DEF WireInv, Ending
    <3>3. (Len(wire) > 0 /\ wire[Len(wire)].part = "meta" /\ wire[Len(wire)].pkt.len > 0) => part = "body"
      BY ZenonT(60), <1>4, <2>2, <3>1 DEF WireInv, Ending, WLabels
    <3>4. (Len(wire) > 0 /\ wire[Len(wire)].part = "meta" /\ wire[Len(wire)].pkt.len > 0)
            => c = [pkt |-> wire[Len(wire)].pkt, part |-> "body"]
      <4> SUFFICES ASSUME Len(wire) > 0 /\ wire[Len(wire)].part = "meta" /\ wire[Len(wire)].pkt.len > 0
                   PROVE  c = [pkt |-> wire[Len(wire)].pkt, part |-> "body"]
        BY SMTT(60)
      <4>1. part = "body" /\ wire[Len(wire)].pkt = pkt[u] BY SMTT(60), <2>1, <3>2, <3>3
      <4> QED BY ZenonT(60), <4>1 DEF c
    <3>5. SyncPacketsWhole' BY ZenonT(60), <2>1, <3>1, <3>2, <3>4, WholeAppend DEF WireInv
    <3>6. wire' \in Seq(Parts) /\ Len(wire') > 0 /\ wire'[Len(wire')] = c
      BY SMTT(60), <2>1, <3>1 DEF SyncTypes
    <3>7. CASE more /\ Goto(u, "WBody") /\ UNCHANGED mu
      <4>1. \A v \in Users : pc'[v] = IF v = u THEN "WBody" ELSE pc[v]
        BY ZenonT(60), <3>7 DEF Goto, SyncTypes
      <4>2. Locked' BY ZenonT(60), <2>2, <3>7, <4>1 DEF Locked, WLabels
      <4>3. part = "meta" /\ c = [pkt |-> pkt[u], part |-> "meta"] BY ZenonT(60), <1>4, <3>7 DEF c
      <4>4. Ending'
        <5>1. \A v \in Users : pc'[v] = "WBody" => v = u BY ZenonT(60), <2>2, <4>1 DEF WLabels
        <5>2. pc'[u] = "WBody" BY ZenonT(60), <4>1
        <5> QED BY ZenonT(60), <2>2, <3>6, <4>3, <5>1, <5>2 DEF Ending
      <4> QED BY ZenonT(60), <3>5, <4>2, <4>4 DEF WireInv
    <3>8. CASE ~more /\ mu' = None /\ Return(u, "ok")
      <4>1. \A v \in Users : pc'[v] = IF v = u THEN "Idle" ELSE pc[v]
        BY ZenonT(60), <3>8 DEF Goto, Return, SyncTypes
      <4>2. \A v \in Users : pc'[v] \notin WLabels BY ZenonT(60), <2>2, <4>1 DEF WLabels
      <4>3. Locked' BY ZenonT(60), <4>2 DEF Locked, WLabels
      <4>4. ~(c.part = "meta" /\ c.pkt.len > 0) BY ZenonT(60), <1>4, <2>1, <3>8
      <4>5. Ending' BY ZenonT(60), <3>6, <4>2, <4>4 DEF Ending, WLabels
      <4> QED BY ZenonT(60), <3>5, <4>3, <4>5 DEF WireInv
    <3> QED BY ZenonT(60), <1>4, <2>4, <3>7, <3>8, <2>3 DEF WriteChunk, c
  <2> QED BY ZenonT(60), <1>4, <2>3, <2>4 DEF WriteChunk
<1>5. CASE WriteMeta(u)
  <2>1. (pkt[u].len > 0) \in BOOLEAN /\ "WMeta" \in WLabels BY SMTT(60) DEF WLabels
  <2> QED BY ZenonT(60), <1>4, <1>5, <2>1 DEF WriteMeta
<1>6. CASE WriteBody(u) BY ZenonT(60), <1>4, <1>6 DEF WriteBody, WLabels
<1> QED BY ZenonT(60), <1>1, <1>2, <1>3, <1>5, <1>6 DEF Writing

\* Who has not won the swap may move, and return no cause, as long as nothing is closed.
LEMMA CloseKept ==
  ASSUME SyncTypes, CloseInv, NEW u \in Users, Moves(u, Winning, Causes),
         UNCHANGED <<closed, error, stores, conn, raw>>
  PROVE  CloseInv'
<1>1. PICK l \in Labels \ Winning : pc' = [pc EXCEPT ![u] = l] BY ZenonT(60) DEF Moves
<1>2. \A v \in Users : pc'[v] \in Winning => pc[v] = pc'[v] /\ v # u BY ZenonT(60), <1>1 DEF SyncTypes
<1>3. \A v \in Users \ {u} : cause'[v] = cause[v]
  <2>1. CASE cause' = cause BY ZenonT(60), <2>1
  <2>2. ASSUME NEW e \in Causes, cause' = [cause EXCEPT ![u] = e]
        PROVE  \A v \in Users \ {u} : cause'[v] = cause[v]
    BY ZenonT(60), <2>2 DEF SyncTypes
  <2> QED BY ZenonT(60), <2>1, <2>2 DEF Moves
<1>4. \A v \in Users : res'[v] \in Causes => res[v] = res'[v]
  <2>1. CASE res' = res BY ZenonT(60), <2>1
  <2>2. ASSUME NEW x \in Results \ Causes, res' = [res EXCEPT ![u] = x]
        PROVE  \A v \in Users : res'[v] \in Causes => res[v] = res'[v]
    BY ZenonT(60), <2>2 DEF SyncTypes
  <2> QED BY ZenonT(60), <2>1, <2>2 DEF Moves
<1>5. OneWinner' BY ZenonT(60), <1>2 DEF OneWinner, CloseInv
<1>6. Stored'
  <2>1. "Store" \in Winning /\ "Shut" \in Winning BY ZenonT(60) DEF Winning
  <2> QED BY ZenonT(60), <1>2, <1>3, <2>1 DEF Stored, CloseInv
<1>7. OneCause' BY ZenonT(60), <1>4 DEF OneCause, CloseInv
<1>8. RawKeepsConn' BY ZenonT(60) DEF RawKeepsConn, CloseInv
<1> QED BY ZenonT(60), <1>5, <1>6, <1>7, <1>8 DEF CloseInv

\* Every step of a Close or of a failure keeps one winner and one cause.
LEMMA CloseStep ==
  ASSUME SyncTypes, CloseInv, NEW u \in Users, Closing(u)
  PROVE  CloseInv'
<1> USE DEF CloseInv
<1>u. cause' = cause
  BY ZenonT(60) DEF Closing, CloseWithError, Store, Shut, CallClose, Close, CallRaw
<1>g. ASSUME NEW l, Goto(u, l) PROVE \A v \in Users : pc'[v] = IF v = u THEN l ELSE pc[v]
  BY ZenonT(60), <1>g DEF Goto, SyncTypes
<1>r. ASSUME NEW x, Return(u, x)
      PROVE  \A v \in Users : /\ pc'[v] = (IF v = u THEN "Idle" ELSE pc[v])
                              /\ res'[v] = (IF v = u THEN x ELSE res[v])
  BY ZenonT(60), <1>r DEF Return, Goto, SyncTypes
\* A loser returns, and a Raw.
<1>1. ASSUME NEW x, x \notin Causes, Return(u, x), UNCHANGED <<error, stores, conn>>, closed' = TRUE,
             (closed /\ raw' = raw) \/ (raw' /\ ~closed)
      PROVE  CloseInv'
  <2>1. \A v \in Users : /\ pc'[v] = (IF v = u THEN "Idle" ELSE pc[v])
                         /\ res'[v] = (IF v = u THEN x ELSE res[v])
    BY ZenonT(60), <1>1, <1>r
  <2>2. OneWinner' BY SMTT(60), <1>1, <2>1 DEF OneWinner, Winning
  <2>3. Stored' BY ZenonT(60), <1>1, <1>u, <2>1 DEF Stored
  <2>4. OneCause' BY ZenonT(60), <1>1, <2>1 DEF OneCause
  <2>5. RawKeepsConn' BY ZenonT(60), <1>1 DEF RawKeepsConn, OneWinner
  <2> QED BY ZenonT(60), <2>2, <2>3, <2>4, <2>5
\* The winner of the swap.
<1>2. ASSUME NEW l \in {"Store", "Close"}, Goto(u, l), ~closed, closed' = TRUE,
             UNCHANGED <<error, stores, conn, raw, res>>
      PROVE  CloseInv'
  <2>1. \A v \in Users : pc'[v] = IF v = u THEN l ELSE pc[v] BY ZenonT(60), <1>2, <1>g
  <2>2. OneWinner' BY ZenonT(60), <1>2, <2>1 DEF OneWinner, Winning
  <2>3. Stored' BY ZenonT(60), <1>2, <1>u, <2>1 DEF Stored, OneWinner
  <2>4. OneCause' BY ZenonT(60), <1>2 DEF OneCause
  <2>5. RawKeepsConn' BY ZenonT(60), <1>2 DEF RawKeepsConn
  <2> QED BY ZenonT(60), <2>2, <2>3, <2>4, <2>5
<1>3. CASE CloseWithError(u)
  <2>1. /\ closed' = TRUE /\ UNCHANGED <<error, stores, conn, raw>>
    BY ZenonT(60), <1>3 DEF CloseWithError, netVars
  <2>2. CASE closed /\ Return(u, "ConnectionClosed")
    <3>1. "ConnectionClosed" \notin Causes BY ZenonT(60) DEF Causes
    <3> QED BY ZenonT(60), <1>1, <2>1, <2>2, <3>1
  <2>3. CASE ~closed /\ Goto(u, "Store") /\ UNCHANGED res BY ZenonT(60), <1>2, <2>1, <2>3
  <2> QED BY ZenonT(60), <1>3, <2>2, <2>3 DEF CloseWithError
<1>4. CASE Store(u)
  <2>1. /\ pc[u] = "Store" /\ error' = cause[u] /\ stores' = stores + 1
        /\ UNCHANGED <<closed, conn, raw, res>>
    BY ZenonT(60), <1>4 DEF Store, netVars
  <2>2. \A v \in Users : pc'[v] = IF v = u THEN "Shut" ELSE pc[v] BY ZenonT(60), <1>4, <1>g DEF Store
  <2>3. stores = 0 /\ closed /\ \A v \in Users : pc[v] \in Winning => v = u
    BY ZenonT(60), <2>1 DEF Stored, OneWinner, Winning
  <2>4. OneWinner' BY ZenonT(60), <2>1, <2>2, <2>3 DEF OneWinner, Winning
  <2>5. Stored' BY SMTT(60), <1>u, <2>1, <2>2, <2>3 DEF Stored, Winning
  <2>6. OneCause'
    <3>1. \A v \in Users : res[v] \notin Causes BY ZenonT(60), <2>3 DEF OneCause, Stored, Causes
    <3> QED BY SMTT(60), <2>1, <2>3, <3>1 DEF OneCause
  <2>7. RawKeepsConn' BY ZenonT(60), <2>1 DEF RawKeepsConn
  <2> QED BY ZenonT(60), <2>4, <2>5, <2>6, <2>7
\* The winner closes the net.Conn and returns.
<1>5. ASSUME NEW x, Return(u, x), x \in Causes => error = x, pc[u] \in Winning, conn' = FALSE,
             UNCHANGED <<closed, error, stores, raw>>
      PROVE  CloseInv'
  <2>1. \A v \in Users : /\ pc'[v] = (IF v = u THEN "Idle" ELSE pc[v])
                         /\ res'[v] = (IF v = u THEN x ELSE res[v])
    BY ZenonT(60), <1>5, <1>r
  <2>2. closed /\ ~raw BY ZenonT(60), <1>5 DEF OneWinner
  <2>3. OneWinner' BY ZenonT(60), <1>5, <2>1, <2>2 DEF OneWinner, Winning
  <2>4. Stored' BY ZenonT(60), <1>5, <1>u, <2>1 DEF Stored
  <2>5. OneCause' BY ZenonT(60), <1>5, <2>1 DEF OneCause
  <2>6. RawKeepsConn' BY ZenonT(60), <1>5, <2>2 DEF RawKeepsConn
  <2> QED BY ZenonT(60), <2>3, <2>4, <2>5, <2>6
<1>6. CASE Shut(u)
  <2>1. /\ pc[u] \in Winning /\ conn' = FALSE /\ Return(u, cause[u]) /\ error = cause[u]
        /\ UNCHANGED <<closed, error, stores, raw>>
    BY ZenonT(60), <1>6 DEF Shut, Stored, Winning
  <2> QED BY ZenonT(60), <1>5, <2>1
<1>7. CASE CallClose(u)
  <2>1. /\ closed' = TRUE /\ UNCHANGED <<error, stores, conn, raw>>
    BY ZenonT(60), <1>7 DEF CallClose, netVars
  <2>2. CASE closed /\ Return(u, "nil")
    <3>1. "nil" \notin Causes BY ZenonT(60) DEF Causes
    <3> QED BY ZenonT(60), <1>1, <2>1, <2>2, <3>1
  <2>3. CASE ~closed /\ Goto(u, "Close") /\ UNCHANGED res BY ZenonT(60), <1>2, <2>1, <2>3
  <2> QED BY ZenonT(60), <1>7, <2>2, <2>3 DEF CallClose
<1>8. CASE Close(u)
  <2>1. /\ pc[u] \in Winning /\ conn' = FALSE /\ Return(u, "nil") /\ "nil" \notin Causes
        /\ UNCHANGED <<closed, error, stores, raw>>
    BY ZenonT(60), <1>8 DEF Close, Winning, Causes
  <2> QED BY ZenonT(60), <1>5, <2>1
<1>9. CASE CallRaw(u)
  <2>1. /\ Return(u, "net.Conn") /\ closed' = TRUE /\ UNCHANGED <<error, stores, conn>>
        /\ "net.Conn" \notin Causes /\ raw' = (raw \/ ~closed)
    BY ZenonT(60), <1>9 DEF CallRaw, netVars, Causes
  <2>2. closed \in BOOLEAN /\ raw \in BOOLEAN BY ZenonT(60) DEF SyncTypes
  <2>3. (closed /\ raw' = raw) \/ (raw' /\ ~closed) BY ZenonT(60), <2>1, <2>2
  <2> QED BY ZenonT(60), <1>1, <2>1, <2>3
<1> QED BY ZenonT(60), <1>3, <1>4, <1>6, <1>7, <1>8, <1>9 DEF Closing

-----------------------------------------------------------------------------
\* The inductive invariant holds at first and is kept by every step.
LEMMA SyncInitInv ==
  ASSUME Init
  PROVE  SyncInv
<1>1. SyncTypes
  <2>1. ASSUME NEW u \in Users PROVE [src |-> u, n |-> 0, len |-> 0] \in Packets BY ZenonT(60) DEF Packets
  <2>2. wire \in Seq(Parts) /\ pkt \in [Users -> Packets] BY SMTT(60), <2>1 DEF Init
  <2> QED BY ZenonT(60), <2>2 DEF Init, SyncTypes, Labels, Results
<1>2. WireInv BY SMTT(60) DEF Init, WireInv, Locked, Ending, SyncPacketsWhole
<1>3. CloseInv BY SMTT(60) DEF Init, CloseInv, OneWinner, Stored, OneCause, RawKeepsConn, Winning, Causes
<1> QED BY ZenonT(60), <1>1, <1>2, <1>3 DEF SyncInv

\* Every step keeps the invariant.
LEMMA SyncNextInv ==
  ASSUME SyncInv, [Next]_vars
  PROVE  SyncInv'
<1>1. CASE UNCHANGED vars
  <2>1. SyncTypes' BY ZenonT(60), <1>1 DEF SyncInv, SyncTypes, vars, netVars
  <2>2. WireInv'
    BY ZenonT(60), <1>1 DEF SyncInv, WireInv, Locked, Ending, SyncPacketsWhole, vars, netVars
  <2>3. CloseInv'
    BY ZenonT(60), <1>1 DEF SyncInv, CloseInv, OneWinner, Stored, OneCause, RawKeepsConn, vars, netVars
  <2> QED BY ZenonT(60), <2>1, <2>2, <2>3 DEF SyncInv
<1>2. ASSUME NEW u \in Users, Writing(u) \/ Reading(u) \/ Closing(u) PROVE SyncInv'
  <2>1. SyncTypes' BY ZenonT(60), <1>2, TypesKept DEF SyncInv
  <2>2. WireInv' BY ZenonT(60), <1>2, WireStep DEF SyncInv
  <2>3. CloseInv'
    <3>1. CASE Writing(u) BY ZenonT(60), <3>1, WritingMoves, CloseKept DEF SyncInv
    <3>2. CASE Reading(u)
      <4>1. ASSUME Moves(u, WLabels \cup Winning, Causes) PROVE Moves(u, Winning, Causes)
        BY ZenonT(60), <4>1 DEF Moves
      <4> QED BY ZenonT(60), <3>2, <4>1, ReadingMoves, CloseKept DEF SyncInv
    <3>3. CASE Closing(u) BY ZenonT(60), <3>3, CloseStep DEF SyncInv
    <3> QED BY ZenonT(60), <1>2, <3>1, <3>2, <3>3
  <2> QED BY ZenonT(60), <2>1, <2>2, <2>3 DEF SyncInv
<1> QED BY ZenonT(60), <1>1, <1>2, NextSplit DEF Next

\* The inductive invariant: the wire is whole but for the packet of the writer that holds
\* the lock, and one goroutine closes.
THEOREM SyncInvariant == Spec => []SyncInv
<1>1. Init => SyncInv BY ZenonT(60), SyncInitInv
<1>2. SyncInv /\ [Next]_vars => SyncInv' BY ZenonT(60), SyncNextInv
<1> QED BY PTL, <1>1, <1>2 DEF Spec

\* However many goroutines write, fail and close at once, no packet is cut into by another
\* on the net.Conn (sync.go:110-176): the mutex is held from the metadata to the content,
\* and a writer that fails and unlocks leaves a net.Conn on which no Write succeeds.
THEOREM SyncWritesWhole == Spec => []SyncPacketsWhole
<1>1. SyncInv => SyncPacketsWhole BY ZenonT(60) DEF SyncInv, WireInv
<1> QED BY PTL, SyncInvariant, <1>1

\* However many goroutines meet an error at once, c.error is stored once and is the error
\* that every one of them is given that is not told ConnectionClosed (sync.go:263-296).
THEOREM SyncOneCause == Spec => []OneCause
<1>1. SyncInv => OneCause BY ZenonT(60) DEF SyncInv, CloseInv
<1> QED BY PTL, SyncInvariant, <1>1

\* The net.Conn that Raw handed out is never closed by the connection (sync.go:263-276).
THEOREM SyncRawKeepsConn == Spec => []RawKeepsConn
<1>1. SyncInv => RawKeepsConn BY ZenonT(60) DEF SyncInv, CloseInv
<1> QED BY PTL, SyncInvariant, <1>1

-----------------------------------------------------------------------------
(* The header: Decode inverts Encode for every Metadata, with bytes of 256  *)
(* values.                                                                  *)

\* Two bytes hold a uint16 and four a uint32.
LEMMA Digits16 ==
  ASSUME NEW v \in Nat, v < 65536
  PROVE  ((v \div 256) % 256) * 256 + (v % 256) = v
BY SMTT(60)

\* Four bytes hold a uint32.
LEMMA Digits32 ==
  ASSUME NEW v \in Nat, v < 4294967296
  PROVE  ((v \div 16777216) % 256) * 16777216 + (((v \div 65536) % 256) * 65536)
           + (((v \div 256) % 256) * 256) + (v % 256) = v
BY SMTT(60)

\* The fields of a Metadata are a uint16 or a uint32.
Fits(m) ==
  /\ m \in [Magic : Nat, Id : Nat, Operation : Nat, ContentLength : Nat]
  /\ m.Magic < 65536 /\ m.Id < 65536 /\ m.Operation < 65536 /\ m.ContentLength < 4294967296

\* Where the fields of a header start (metadata.go:28-40).
LEMMA Offsets ==
  /\ IdOffset = 2 /\ OperationOffset = 4 /\ ContentLengthOffset = 6 /\ Size = 10
BY SMTT(60) DEF IdOffset, OperationOffset, ContentLengthOffset, Size

\* The bytes of an encoded header are the digits of its fields.
LEMMA Bytes ==
  ASSUME Radix = 256, R2 = 65536, R3 = 16777216, NEW m, Fits(m), NEW buf \in [0 .. 9 -> Int]
  PROVE  LET enc == Encode(buf, m) IN
         /\ enc[0] = (m.Magic \div 256) % 256 /\ enc[1] = m.Magic % 256
         /\ enc[2] = (m.Id \div 256) % 256 /\ enc[3] = m.Id % 256
         /\ enc[4] = (m.Operation \div 256) % 256 /\ enc[5] = m.Operation % 256
         /\ enc[6] = (m.ContentLength \div 16777216) % 256
         /\ enc[7] = (m.ContentLength \div 65536) % 256
         /\ enc[8] = (m.ContentLength \div 256) % 256
         /\ enc[9] = m.ContentLength % 256
<1> DEFINE a == (m.Magic \div 256) % 256
           b == m.Magic % 256
           c == (m.Id \div 256) % 256
           d == m.Id % 256
           e == (m.Operation \div 256) % 256
           f == m.Operation % 256
           g == (m.ContentLength \div 16777216) % 256
           h == (m.ContentLength \div 65536) % 256
           i == (m.ContentLength \div 256) % 256
           j == m.ContentLength % 256
           enc == Encode(buf, m)
<1>1. /\ a \in Int /\ b \in Int /\ c \in Int /\ d \in Int /\ e \in Int
      /\ f \in Int /\ g \in Int /\ h \in Int /\ i \in Int /\ j \in Int
  BY SMTT(60) DEF Fits
<1>2. enc = [buf EXCEPT ![0] = a, ![1] = b, ![2] = c, ![3] = d, ![4] = e, ![5] = f,
                        ![6] = g, ![7] = h, ![8] = i, ![9] = j]
  BY SMTT(60), Offsets, <1>1 DEF Encode, PutUint16, PutUint32
<1> SUFFICES /\ enc[0] = a /\ enc[1] = b /\ enc[2] = c /\ enc[3] = d /\ enc[4] = e
             /\ enc[5] = f /\ enc[6] = g /\ enc[7] = h /\ enc[8] = i /\ enc[9] = j
  BY SMTT(60)
<1> HIDE DEF a, b, c, d, e, f, g, h, i, j, enc
<1> QED BY SMTT(60), <1>1, <1>2

\* With bytes of 256 values, what is decoded is what was encoded, for every header and
\* whatever bytes the Buffer held (metadata.go:52-82).
THEOREM DecodeInvertsEncode ==
  ASSUME Radix = 256
  PROVE  RoundTrip
<1>r. R2 = 65536 /\ R3 = 16777216 BY SMTT(60) DEF R2, R3
<1>s. R2 * R2 = 4294967296
  <2>1. R2 * R2 = 65536 * 65536 BY SMTT(60), <1>r
  <2> QED BY SMTT(60), <2>1
<1>u. /\ \A v \in Uint16 : v \in Nat /\ v < R2
      /\ \A v \in Uint32 : v \in Nat /\ v < R2 * R2
  <2>1. ASSUME NEW n \in Nat PROVE \A v \in 0 .. n - 1 : v \in Nat /\ v < n BY SMTT(60)
  <2>2. R2 \in Nat /\ R2 * R2 \in Nat BY SMTT(60), <1>r, <1>s
  <2> QED BY ZenonT(60), <2>1, <2>2 DEF Uint16, Uint32
<1> SUFFICES ASSUME NEW m \in Metadatas, NEW buf \in Buffers
             PROVE  Decode(Encode(buf, m)) = m
  BY ZenonT(60) DEF RoundTrip
<1>1. Fits(m)
  BY SMTT(60), <1>r, <1>s, <1>u, FieldsAssumption DEF Metadatas, Fits
<1>2. buf \in [0 .. 9 -> Int]
  BY SMTT(60), Offsets, BuffersAssumption
<1> DEFINE enc == Encode(buf, m)
           got == Decode(enc)
<1>3. /\ enc[0] = (m.Magic \div 256) % 256 /\ enc[1] = m.Magic % 256
      /\ enc[2] = (m.Id \div 256) % 256 /\ enc[3] = m.Id % 256
      /\ enc[4] = (m.Operation \div 256) % 256 /\ enc[5] = m.Operation % 256
      /\ enc[6] = (m.ContentLength \div 16777216) % 256
      /\ enc[7] = (m.ContentLength \div 65536) % 256
      /\ enc[8] = (m.ContentLength \div 256) % 256
      /\ enc[9] = m.ContentLength % 256
  BY SMTT(60), <1>r, <1>1, <1>2, Bytes
<1> HIDE DEF enc
<1>4. got = [Magic |-> enc[0] * 256 + enc[1], Id |-> enc[2] * 256 + enc[3],
             Operation |-> enc[4] * 256 + enc[5],
             ContentLength |-> enc[6] * 16777216 + enc[7] * 65536 + enc[8] * 256 + enc[9]]
  BY SMTT(60), <1>r, Offsets DEF Decode, GetUint16, GetUint32
<1> HIDE DEF got
<1>5. got.Magic = m.Magic
  <2>1. m.Magic \in Nat /\ m.Magic < 65536 BY SMTT(60), <1>1 DEF Fits
  <2>2. ((m.Magic \div 256) % 256) * 256 + (m.Magic % 256) = m.Magic BY SMTT(60), <2>1, Digits16
  <2> QED BY SMTT(60), <1>3, <1>4, <2>2
<1>6. got.Id = m.Id
  <2>1. m.Id \in Nat /\ m.Id < 65536 BY SMTT(60), <1>1 DEF Fits
  <2>2. ((m.Id \div 256) % 256) * 256 + (m.Id % 256) = m.Id BY SMTT(60), <2>1, Digits16
  <2> QED BY SMTT(60), <1>3, <1>4, <2>2
<1>7. got.Operation = m.Operation
  <2>1. m.Operation \in Nat /\ m.Operation < 65536 BY SMTT(60), <1>1 DEF Fits
  <2>2. ((m.Operation \div 256) % 256) * 256 + (m.Operation % 256) = m.Operation
    BY SMTT(60), <2>1, Digits16
  <2> QED BY SMTT(60), <1>3, <1>4, <2>2
<1>8. got.ContentLength = m.ContentLength
  <2>1. m.ContentLength \in Nat /\ m.ContentLength < 4294967296 BY SMTT(60), <1>1 DEF Fits
  <2> QED BY SMTT(60), <1>3, <1>4, <2>1, Digits32
<1>9. got = m BY SMTT(60), <1>1, <1>4, <1>5, <1>6, <1>7, <1>8 DEF Fits
<1> QED BY SMTT(60), <1>9 DEF got, enc

=============================================================================
