---------------------------- MODULE ClientProofs ----------------------------
(***************************************************************************)
(* The safety properties of a Client, for any number of users, packets,    *)
(* streams and retries.                                                    *)
(***************************************************************************)
EXTENDS ClientProps, TLAPS

h == "handleConn"
Running == {"Check", "Read", "Handle", "Reply", "Done"}
InClose == {"Swap", "Cancel", "CloseConn", "CloseAgain", "Wait"}
InRaw   == {"RawSwap", "RawConn", "RawAgain"}
UserLabels == {"Idle", "Dial", "Started", "SetNil", "SetNext", "SetHandler"} \cup InClose \cup InRaw
HandlerLabels == {"None", "Exit"} \cup Running \cup InClose

ClientTypes ==
  /\ pc \in [Procs -> UserLabels \cup HandlerLabels]
  /\ pc[h] \in HandlerLabels /\ \A u \in Users : pc[u] \in UserLabels
  /\ back \in [Procs -> {"Idle", "Check", "Exit"}] /\ \A u \in Users : back[u] = "Idle"
  /\ pc[h] \in InClose => back[h] # "Idle"
  /\ wg \in Int /\ attempts \in Nat /\ handled \in Nat /\ received \in Nat
  /\ closed \in BOOLEAN /\ asked \in BOOLEAN /\ won \subseteq Procs

\* handleConn is started once, by the goroutine that connects, and before that nobody
\* closes the client or takes it over.
Starting ==
  /\ \A u \in Users : pc[u] \in {"Dial", "Started"} => Connecting(u)
  /\ \A u \in Users : pc[u] = "Dial" => conn = "nil"
  /\ \A u \in Users : pc[u] = "Started" => conn # "nil" /\ pc[h] = "None"
  /\ conn = "nil" => pc[h] = "None"
  /\ (pc[h] = "None" /\ conn # "nil") => \E u \in Users : pc[u] = "Started"
  /\ pc[h] = "None" => ~closed /\ won = {} /\ \A u \in Users : pc[u] \notin InClose \cup InRaw

\* c.wg counts handleConn until its wg.Done; a handler that calls Close is counted too.
Counted == pc[h] \in Running \/ (pc[h] \in InClose /\ back[h] = "Check")
Joined ==
  /\ wg = IF Counted THEN 1 ELSE 0
  /\ won \cap Users # {} => wg = 0

\* Without anybody asking for the end, only handleConn closes the client, after it has
\* found the connection down and drained.
Drained ==
  /\ (pc[h] = "Reply" /\ action = "CLOSE") => asked
  /\ ~asked => /\ \A u \in Users : pc[u] \notin InClose \cup InRaw
               /\ pc[h] \in InClose => back[h] = "Exit"
               /\ closed => pc[h] \in (InClose \ {"Swap"}) \cup {"Exit"}
               /\ pc[h] \notin {"None", "Check", "Read", "Handle", "Reply"}
                    => handled = received /\ conn \notin {"nil", "open"}

ClientInv == ClientTypes /\ Starting /\ Joined /\ Drained

-----------------------------------------------------------------------------
\* handleConn is a goroutine of the client, and none of its users.
LEMMA Who == h \in Procs /\ h \notin Users /\ \A u \in Users : u \in Procs /\ u # h
BY ZenonT(60), ClientUsersAssumption DEF Procs, h

\* Where a goroutine goes, and where it does not.
LEMMA Went ==
  ASSUME ClientTypes, NEW q \in Procs, NEW l, Goto(q, l)
  PROVE  \A r \in Procs : pc'[r] = IF r = q THEN l ELSE pc[r]
BY ZenonT(60) DEF Goto, ClientTypes

\* Client.Connect is entered: nothing but the caller has moved.
LEMMA CallConnectInv ==
  ASSUME ClientInv, NEW u \in Users, CallConnect(u)
  PROVE  ClientInv'
<1> USE DEF ClientInv
<1>w. h \in Procs /\ h \notin Users /\ \A v \in Users : v \in Procs /\ v # h BY ZenonT(60), Who
<1>1. PICK l \in {"Dial"} : Goto(u, l) BY ZenonT(60) DEF CallConnect, GotoFrom, h
<1>2. \A r \in Procs : pc'[r] = IF r = u THEN l ELSE pc[r] BY ZenonT(60), <1>w, <1>1, Went
<1>3. ClientTypes' BY SMTT(60), <1>w, <1>1, <1>2 DEF CallConnect, Goto, ClientTypes, UserLabels, dataVars
<1>4. Starting' BY SMTT(60), <1>w, <1>2 DEF CallConnect, Starting, InClose, InRaw, Connecting
<1>5. Joined' BY ZenonT(60), <1>w, <1>2 DEF CallConnect, Joined, Counted
<1>6. Drained' BY ZenonT(60), <1>w, <1>2 DEF CallConnect, Drained, InClose, InRaw
<1> QED BY ZenonT(60), <1>3, <1>4, <1>5, <1>6

\* A dial of dialer.Retry: the connection is set only by the one goroutine that connects,
\* before handleConn runs.
LEMMA DialInv ==
  ASSUME ClientInv, NEW u \in Users, Dial(u)
  PROVE  ClientInv'
<1> USE DEF ClientInv
<1>w. h \in Procs /\ h \notin Users /\ \A v \in Users : v \in Procs /\ v # h BY ZenonT(60), Who
<1>1. PICK l \in {"Started", "Dial", "Idle"} : Goto(u, l) BY ZenonT(60) DEF Dial, GotoFrom, h
<1>2. \A r \in Procs : pc'[r] = IF r = u THEN l ELSE pc[r] BY ZenonT(60), <1>w, <1>1, Went
<1>3. ClientTypes' BY SMTT(60), <1>w, <1>1, <1>2 DEF Dial, Goto, ClientTypes, UserLabels, dataVars
<1>4. Starting'
  <2>1. conn = "nil" /\ pc[h] = "None" /\ Connecting(u) /\ ~closed /\ won = {}
        /\ UNCHANGED <<closed, won>>
    BY ZenonT(60) DEF Dial, Starting
  <2>2. \A v \in Users : pc[v] \in {"Dial", "Started"} => v = u
    BY ZenonT(60), <2>1, ConnectAssumption DEF Starting
  <2>3. CASE conn' = "open" /\ l = "Started"
    BY ZenonT(60), <1>w, <1>2, <2>1, <2>2, <2>3 DEF Starting, InClose, InRaw
  <2>4. CASE UNCHANGED conn /\ l \in {"Dial", "Idle"}
    BY ZenonT(60), <1>w, <1>2, <2>1, <2>2, <2>4 DEF Starting, InClose, InRaw
  <2>5. ASSUME NEW m, Goto(u, m) PROVE l = m BY ZenonT(60), <1>w, <1>2, <2>5 DEF Goto, ClientTypes
  <2>6. CASE conn' = "open" /\ Goto(u, "Started") BY ZenonT(60), <2>3, <2>5, <2>6
  <2>7. CASE UNCHANGED conn /\ Goto(u, IF attempts' < NumRetries THEN "Dial" ELSE "Idle")
    BY ZenonT(60), <2>4, <2>5, <2>7
  <2> QED BY ZenonT(60), <2>6, <2>7 DEF Dial
<1>5. Joined' BY ZenonT(60), <1>w, <1>2 DEF Dial, Joined, Counted
<1>6. Drained' BY SMTT(60), <1>w, <1>2 DEF Dial, Drained, Starting, InClose, InRaw
<1> QED BY ZenonT(60), <1>3, <1>4, <1>5, <1>6

\* Client.FromConn sets the connection, under the same condition.
LEMMA CallFromConnInv ==
  ASSUME ClientInv, NEW u \in Users, CallFromConn(u)
  PROVE  ClientInv'
<1> USE DEF ClientInv
<1>w. h \in Procs /\ h \notin Users /\ \A v \in Users : v \in Procs /\ v # h BY ZenonT(60), Who
<1>1. PICK l \in {"Started"} : Goto(u, l) BY ZenonT(60) DEF CallFromConn, GotoFrom, h
<1>2. \A r \in Procs : pc'[r] = IF r = u THEN l ELSE pc[r] BY ZenonT(60), <1>w, <1>1, Went
<1>3. ClientTypes' BY SMTT(60), <1>w, <1>1, <1>2 DEF CallFromConn, Goto, ClientTypes, UserLabels, dataVars
<1>4. Starting'
  <2>1. conn = "nil" /\ pc[h] = "None" /\ Connecting(u) /\ ~closed /\ won = {}
        /\ UNCHANGED <<closed, won>> /\ conn' = "open"
    BY ZenonT(60) DEF CallFromConn, Starting, Connecting
  <2>2. \A v \in Users : pc[v] \in {"Dial", "Started"} => v = u
    BY ZenonT(60), <2>1, ConnectAssumption DEF Starting
  <2> QED BY ZenonT(60), <1>w, <1>2, <2>1, <2>2 DEF Starting, InClose, InRaw
<1>5. Joined' BY ZenonT(60), <1>w, <1>2 DEF CallFromConn, Joined, Counted
<1>6. Drained' BY ZenonT(60), <1>w, <1>2 DEF CallFromConn, Drained, InClose, InRaw
<1> QED BY ZenonT(60), <1>3, <1>4, <1>5, <1>6

\* The head of handleConn's loop: a client found closed ends it with wg.Done, and somebody
\* asked for that.
LEMMA HandlerCheckInv ==
  ASSUME ClientInv, HandlerCheck
  PROVE  ClientInv'
<1> USE DEF ClientInv
<1>w. h \in Procs /\ h \notin Users /\ \A v \in Users : v \in Procs /\ v # h BY ZenonT(60), Who
<1>1. PICK l \in {"Exit", "Read"} : Goto(h, l) BY ZenonT(60) DEF HandlerCheck, GotoFrom, h
<1>2. \A r \in Procs : pc'[r] = IF r = h THEN l ELSE pc[r] BY ZenonT(60), <1>w, <1>1, Went
<1>3. ClientTypes'
  BY SMTT(60), <1>w, <1>1, <1>2
     DEF HandlerCheck, Goto, ClientTypes, Running, InClose, HandlerLabels, dataVars
<1>4. Starting' BY ZenonT(60), <1>w, <1>2 DEF HandlerCheck, Starting, h
<1>5. Joined'
  <2>1. pc[h] = "Check" /\ UNCHANGED <<won, back>> BY ZenonT(60) DEF HandlerCheck, h
  <2>2. wg = 1 /\ won \cap Users = {} BY SMTT(60), <2>1 DEF Joined, Counted, Running
  <2>3. CASE wg' = wg - 1 /\ l = "Exit"
    BY SMTT(60), <1>w, <1>2, <2>1, <2>2, <2>3 DEF Joined, Counted, Running, InClose
  <2>4. CASE l = "Read" /\ UNCHANGED wg
    BY ZenonT(60), <1>w, <1>2, <2>1, <2>2, <2>4 DEF Joined, Counted, Running
  <2>5. l = pc'[h] BY ZenonT(60), <1>w, <1>2
  <2> QED BY ZenonT(60), <1>w, <2>3, <2>4, <2>5 DEF HandlerCheck, Goto, ClientTypes, h
<1>6. Drained'
  <2>1. pc[h] = "Check" /\ UNCHANGED <<closed, asked, action, back, conn, handled, received>>
    BY ZenonT(60) DEF HandlerCheck, h, dataVars
  <2>2. ~asked => ~closed BY ZenonT(60), <2>1 DEF Drained, InClose
  <2>3. ~closed => l = "Read"
    <3>1. l = pc'[h] BY ZenonT(60), <1>w, <1>2
    <3> QED BY ZenonT(60), <1>w, <3>1 DEF HandlerCheck, Goto, ClientTypes, h
  <2> QED BY ZenonT(60), <1>w, <1>1, <1>2, <2>1, <2>2, <2>3 DEF Drained, InClose, InRaw
<1> QED BY ZenonT(60), <1>3, <1>4, <1>5, <1>6

\* handleConn takes a packet, or finds the connection closed and every packet taken.
LEMMA HandlerReadInv ==
  ASSUME ClientInv, HandlerRead
  PROVE  ClientInv'
<1> USE DEF ClientInv
<1>w. h \in Procs /\ h \notin Users /\ \A v \in Users : v \in Procs /\ v # h BY ZenonT(60), Who
<1>1. PICK l \in {"Handle", "Check", "Done"} : Goto(h, l) BY ZenonT(60) DEF HandlerRead, GotoFrom, h
<1>2. \A r \in Procs : pc'[r] = IF r = h THEN l ELSE pc[r] BY ZenonT(60), <1>w, <1>1, Went
<1>3. ClientTypes'
  BY SMTT(60), <1>w, <1>1, <1>2 DEF HandlerRead, Goto, ClientTypes, Running, InClose, HandlerLabels
<1>4. Starting' BY ZenonT(60), <1>w, <1>2 DEF HandlerRead, Starting, h
<1>5. Joined' BY ZenonT(60), <1>w, <1>2 DEF HandlerRead, Joined, Counted, Running, h
<1>6. Drained'
  <2>1. pc[h] = "Read" /\ UNCHANGED <<closed, asked, action, back, conn, received>>
    BY ZenonT(60) DEF HandlerRead, h
  <2>2. l = "Done" => handled' = received /\ conn \notin {"nil", "open"}
    <3>1. l = pc'[h] /\ conn # "nil" BY ZenonT(60), <1>w, <1>2, <2>1 DEF Starting
    <3> QED BY ZenonT(60), <1>w, <3>1 DEF HandlerRead, Goto, ClientTypes, h
  <2> QED BY ZenonT(60), <1>w, <1>1, <1>2, <2>1, <2>2 DEF Drained, InClose, InRaw
<1> QED BY ZenonT(60), <1>3, <1>4, <1>5, <1>6

\* A handler returns CLOSE, or calls Close itself: from then on the end is asked for.
LEMMA HandleInv ==
  ASSUME ClientInv, Handle
  PROVE  ClientInv'
<1> USE DEF ClientInv
<1>w. h \in Procs /\ h \notin Users /\ \A v \in Users : v \in Procs /\ v # h BY ZenonT(60), Who
<1>1. PICK l \in {"Reply", "Done", "Check", "Swap"} : Goto(h, l) BY ZenonT(60) DEF Handle, GotoFrom, h
<1>2. \A r \in Procs : pc'[r] = IF r = h THEN l ELSE pc[r] BY ZenonT(60), <1>w, <1>1, Went
<1>3. ClientTypes'
  <2>1. UNCHANGED <<closed, wg, attempts, handled, received, won>> /\ asked' \in BOOLEAN
    BY ZenonT(60) DEF Handle, dataVars, ClientTypes
  <2>2. /\ back' \in [Procs -> {"Idle", "Check", "Exit"}] /\ \A u \in Users : back'[u] = back[u]
        /\ l = "Swap" => back'[h] # "Idle"
    <3>1. CASE Goto(h, "Swap") /\ back' = [back EXCEPT ![h] = "Check"]
      BY ZenonT(60), <1>w, <3>1 DEF ClientTypes
    <3>2. CASE l # "Swap" /\ UNCHANGED back BY ZenonT(60), <3>2 DEF ClientTypes
    <3>3. l = pc'[h] BY ZenonT(60), <1>w, <1>2
    <3> QED BY ZenonT(60), <1>w, <3>1, <3>2, <3>3 DEF Handle, GotoFrom, Goto, ClientTypes, h
  <2>3. l \in HandlerLabels /\ (l \in InClose => l = "Swap")
    BY SMTT(60) DEF HandlerLabels, Running, InClose
  <2>4. pc' \in [Procs -> UserLabels \cup HandlerLabels] BY ZenonT(60), <1>1, <2>3 DEF Goto, ClientTypes
  <2> QED BY ZenonT(60), <1>w, <1>2, <2>1, <2>2, <2>3, <2>4 DEF ClientTypes
<1>4. Starting' BY ZenonT(60), <1>w, <1>2 DEF Handle, Starting, h
<1>5. Joined'
  <2>1. pc[h] = "Handle" /\ UNCHANGED <<won, wg>> BY ZenonT(60) DEF Handle, h
  <2>2. wg = 1 /\ won \cap Users = {} BY SMTT(60), <2>1 DEF Joined, Counted, Running
  <2>3. l = "Swap" => back'[h] = "Check"
    <3>1. l = pc'[h] BY ZenonT(60), <1>w, <1>2
    <3> QED BY ZenonT(60), <1>w, <3>1 DEF Handle, GotoFrom, Goto, ClientTypes, h
  <2> QED BY ZenonT(60), <1>w, <1>1, <1>2, <2>1, <2>2, <2>3 DEF Joined, Counted, Running, InClose
<1>6. Drained'
  <2>1. pc[h] = "Handle" /\ UNCHANGED <<closed, conn, handled, received>>
    BY ZenonT(60) DEF Handle, h, dataVars
  <2>2. CASE SelfClose /\ asked' = TRUE
    BY ZenonT(60), <1>w, <1>1, <1>2, <2>1, <2>2 DEF Drained
  <2>3. ASSUME NEW a \in {"NONE", "CLOSE"}, NEW reply \in BOOLEAN, action' = a,
               asked' = (asked \/ a = "CLOSE"), UNCHANGED back,
               Goto(h, IF reply THEN "Reply" ELSE IF a = "CLOSE" THEN "Done" ELSE "Check")
        PROVE  Drained'
    <3>1. l = (IF reply THEN "Reply" ELSE IF a = "CLOSE" THEN "Done" ELSE "Check")
      BY ZenonT(60), <1>w, <1>1, <2>3 DEF Goto, ClientTypes
    <3>2. CASE a = "CLOSE" BY ZenonT(60), <2>3, <3>2 DEF Drained
    <3>3. CASE a = "NONE"
      <4>1. asked' = asked /\ l \in {"Reply", "Check"} BY ZenonT(60), <2>3, <3>1, <3>3 DEF ClientTypes
      <4> QED BY ZenonT(60), <1>w, <1>2, <2>1, <2>3, <3>3, <4>1 DEF Drained, InClose, InRaw
    <3> QED BY ZenonT(60), <3>2, <3>3
  <2> QED BY ZenonT(60), <2>2, <2>3 DEF Handle, h
<1> QED BY ZenonT(60), <1>3, <1>4, <1>5, <1>6

\* The write of a reply, the failure of which also ends handleConn.
LEMMA ReplyInv ==
  ASSUME ClientInv, Reply
  PROVE  ClientInv'
<1> USE DEF ClientInv
<1>w. h \in Procs /\ h \notin Users /\ \A v \in Users : v \in Procs /\ v # h BY ZenonT(60), Who
<1>1. PICK l \in {"Check", "Done"} : Goto(h, l) BY ZenonT(60) DEF Reply, GotoFrom, h
<1>2. \A r \in Procs : pc'[r] = IF r = h THEN l ELSE pc[r] BY ZenonT(60), <1>w, <1>1, Went
<1>3. ClientTypes'
  BY ZenonT(60), <1>w, <1>1, <1>2 DEF Reply, Goto, ClientTypes, Running, InClose, HandlerLabels, dataVars
<1>4. Starting' BY ZenonT(60), <1>w, <1>2 DEF Reply, Starting, h
<1>5. Joined' BY ZenonT(60), <1>w, <1>2 DEF Reply, Joined, Counted, Running, h
<1>6. Drained'
  <2>1. pc[h] = "Reply" /\ UNCHANGED <<closed, action, back, handled, received>>
    BY ZenonT(60) DEF Reply, h, dataVars
  <2>2. CASE asked' = TRUE BY ZenonT(60), <1>w, <1>1, <1>2, <2>1, <2>2 DEF Drained
  <2>3. CASE /\ UNCHANGED <<conn, asked>>
             /\ Goto(h, IF action = "CLOSE" THEN "Done" ELSE "Check")
    <3>1. action = "CLOSE" => asked BY ZenonT(60), <2>1 DEF Drained
    <3>2. CASE action = "CLOSE" BY ZenonT(60), <2>3, <3>1, <3>2 DEF Drained
    <3>3. CASE action # "CLOSE"
      <4>1. l = "Check" BY ZenonT(60), <1>w, <1>1, <2>3, <3>3 DEF Goto, ClientTypes
      <4> QED BY ZenonT(60), <1>w, <1>2, <2>1, <2>3, <4>1 DEF Drained, InClose, InRaw
    <3> QED BY ZenonT(60), <3>2, <3>3
  <2> QED BY ZenonT(60), <2>2, <2>3 DEF Reply, h
<1> QED BY ZenonT(60), <1>3, <1>4, <1>5, <1>6

\* wg.Done, and the Close handleConn calls after it: the count is zero before the swap.
LEMMA HandlerDoneInv ==
  ASSUME ClientInv, HandlerDone
  PROVE  ClientInv'
<1> USE DEF ClientInv
<1>w. h \in Procs /\ h \notin Users /\ \A v \in Users : v \in Procs /\ v # h BY ZenonT(60), Who
<1>1. PICK l \in {"Swap"} : Goto(h, l) BY ZenonT(60) DEF HandlerDone, GotoFrom, h
<1>2. \A r \in Procs : pc'[r] = IF r = h THEN l ELSE pc[r] BY ZenonT(60), <1>w, <1>1, Went
<1>3. ClientTypes'
  BY SMTT(60), <1>w, <1>1, <1>2
     DEF HandlerDone, GotoFrom, Goto, ClientTypes, InClose, HandlerLabels, dataVars, h
<1>4. Starting' BY ZenonT(60), <1>w, <1>2 DEF HandlerDone, Starting, h
<1>5. Joined' BY SMTT(60), <1>w, <1>2 DEF HandlerDone, GotoFrom, Joined, Counted, ClientTypes, Running, h
<1>6. Drained'
  BY ZenonT(60), <1>w, <1>2 DEF HandlerDone, GotoFrom, Drained, ClientTypes, InClose, dataVars, h
<1> QED BY ZenonT(60), <1>3, <1>4, <1>5, <1>6

\* A user enters Close: the end is asked for.
LEMMA CallCloseInv ==
  ASSUME ClientInv, NEW u \in Users, CallClose(u)
  PROVE  ClientInv'
<1> USE DEF ClientInv
<1>w. h \in Procs /\ h \notin Users /\ \A v \in Users : v \in Procs /\ v # h BY ZenonT(60), Who
<1>1. PICK l \in {"Swap"} : Goto(u, l) BY ZenonT(60) DEF CallClose, GotoFrom, h
<1>2. \A r \in Procs : pc'[r] = IF r = u THEN l ELSE pc[r] BY ZenonT(60), <1>w, <1>1, Went
<1>3. ClientTypes'
  BY SMTT(60), <1>w, <1>1, <1>2 DEF CallClose, GotoFrom, Goto, ClientTypes, InClose, UserLabels, dataVars
<1>4. Starting' BY ZenonT(60), <1>w, <1>2 DEF CallClose, Starting, Connected
<1>5. Joined' BY ZenonT(60), <1>w, <1>2 DEF CallClose, GotoFrom, Joined, Counted, ClientTypes
<1>6. Drained' BY ZenonT(60), <1>w, <1>2 DEF CallClose, Drained
<1> QED BY ZenonT(60), <1>3, <1>4, <1>5, <1>6

\* A user enters Raw: the end is asked for.
LEMMA CallRawInv ==
  ASSUME ClientInv, NEW u \in Users, CallRaw(u)
  PROVE  ClientInv'
<1> USE DEF ClientInv
<1>w. h \in Procs /\ h \notin Users /\ \A v \in Users : v \in Procs /\ v # h BY ZenonT(60), Who
<1>1. PICK l \in {"RawSwap"} : Goto(u, l) BY ZenonT(60) DEF CallRaw, GotoFrom, h
<1>2. \A r \in Procs : pc'[r] = IF r = u THEN l ELSE pc[r] BY ZenonT(60), <1>w, <1>1, Went
<1>3. ClientTypes'
  BY SMTT(60), <1>w, <1>1, <1>2 DEF CallRaw, GotoFrom, Goto, ClientTypes, InRaw, UserLabels, dataVars
<1>4. Starting' BY ZenonT(60), <1>w, <1>2 DEF CallRaw, Starting, Connected
<1>5. Joined' BY ZenonT(60), <1>w, <1>2 DEF CallRaw, GotoFrom, Joined, Counted, ClientTypes
<1>6. Drained' BY ZenonT(60), <1>w, <1>2 DEF CallRaw, Drained
<1> QED BY ZenonT(60), <1>3, <1>4, <1>5, <1>6

\* The swap of c.closed in Close, by a user or by handleConn.
LEMMA SwapInv ==
  ASSUME ClientInv, NEW q \in Procs, Swap(q)
  PROVE  ClientInv'
<1> USE DEF ClientInv
<1>w. h \in Procs /\ h \notin Users /\ \A v \in Users : v \in Procs /\ v # h BY ZenonT(60), Who
<1>1. PICK l \in {"CloseAgain", "Cancel"} : Goto(q, l) BY ZenonT(60) DEF Swap, GotoFrom, h
<1>2. \A r \in Procs : pc'[r] = IF r = q THEN l ELSE pc[r] BY ZenonT(60), <1>w, <1>1, Went
<1>3. ClientTypes'
  BY SMTT(60), <1>w, <1>1, <1>2 DEF Swap, Goto, ClientTypes, InClose, UserLabels, HandlerLabels, dataVars
<1>4. Starting'
  <2>1. pc[q] = "Swap" /\ UNCHANGED <<conn, won>> BY ZenonT(60) DEF Swap
  <2>2. pc[h] # "None" BY ZenonT(60), <2>1 DEF Starting, InClose, Procs, h
  <2> QED BY ZenonT(60), <1>w, <1>1, <1>2, <2>1, <2>2 DEF Starting, InClose, InRaw
<1>5. Joined' BY ZenonT(60), <1>w, <1>2 DEF Swap, Joined, Counted, Running, InClose
<1>6. Drained'
  <2>1. pc[q] = "Swap" /\ UNCHANGED <<asked, action, back, conn, handled, received>>
    BY ZenonT(60) DEF Swap, dataVars
  <2>2. ~asked => q = h BY ZenonT(60), <2>1 DEF Drained, InClose, Procs, h
  <2>3. CASE asked BY ZenonT(60), <1>w, <2>1, <2>3 DEF Drained
  <2>4. CASE ~asked
    <3>1. q = h /\ back[h] = "Exit" /\ handled = received /\ conn \notin {"nil", "open"}
      BY ZenonT(60), <2>1, <2>2, <2>4 DEF Drained, InClose
    <3> QED BY ZenonT(60), <1>w, <1>1, <1>2, <2>1, <2>4, <3>1 DEF Drained, InClose, InRaw
  <2> QED BY ZenonT(60), <2>3, <2>4
<1> QED BY ZenonT(60), <1>3, <1>4, <1>5, <1>6

\* The cancelling of the base context in Close.
LEMMA CancelInv ==
  ASSUME ClientInv, NEW q \in Procs, Cancel(q)
  PROVE  ClientInv'
<1> USE DEF ClientInv
<1>w. h \in Procs /\ h \notin Users /\ \A v \in Users : v \in Procs /\ v # h BY ZenonT(60), Who
<1>1. PICK l \in {"CloseConn"} : Goto(q, l) BY ZenonT(60) DEF Cancel, GotoFrom, h
<1>2. \A r \in Procs : pc'[r] = IF r = q THEN l ELSE pc[r] BY ZenonT(60), <1>w, <1>1, Went
<1>3. ClientTypes'
  BY SMTT(60), <1>w, <1>1, <1>2
     DEF Cancel, Goto, ClientTypes, InClose, UserLabels, HandlerLabels, dataVars
<1>4. Starting' BY SMTT(60), <1>w, <1>2 DEF Cancel, Starting, InClose
<1>5. Joined' BY ZenonT(60), <1>w, <1>2 DEF Cancel, Joined, Counted, Running, InClose
<1>6. Drained' BY ZenonT(60), <1>w, <1>2 DEF Cancel, Drained, InClose, dataVars
<1> QED BY ZenonT(60), <1>3, <1>4, <1>5, <1>6

\* c.conn.Close, by the winner of the swap or by a loser.
LEMMA CloseConnInv ==
  ASSUME ClientInv, NEW q \in Procs, CloseConn(q)
  PROVE  ClientInv'
<1> USE DEF ClientInv
<1>w. h \in Procs /\ h \notin Users /\ \A v \in Users : v \in Procs /\ v # h BY ZenonT(60), Who
<1>1. PICK l \in {"Wait", back[q]} : Goto(q, l) BY ZenonT(60) DEF CloseConn, GotoFrom, h
<1>2. \A r \in Procs : pc'[r] = IF r = q THEN l ELSE pc[r] BY ZenonT(60), <1>w, <1>1, Went
<1>3. ClientTypes'
  BY SMTT(60), <1>w, <1>1, <1>2
    DEF CloseConn, Goto, ClientTypes, Running, InClose, UserLabels, HandlerLabels, dataVars
<1>4. Starting' BY SMTT(60), <1>w, <1>2 DEF CloseConn, Starting, ClientTypes, UserLabels, AsyncClose
<1>5. Joined' BY SMTT(60), <1>w, <1>2 DEF CloseConn, Joined, Counted, ClientTypes, Running, InClose
<1>6. Drained' BY SMTT(60), <1>w, <1>2 DEF CloseConn, Drained, InClose, dataVars, AsyncClose
<1> QED BY ZenonT(60), <1>3, <1>4, <1>5, <1>6

\* c.wg.Wait returns: the count is zero, and handleConn never adds to it again.
LEMMA WaitInv ==
  ASSUME ClientInv, NEW q \in Procs, Wait(q)
  PROVE  ClientInv'
<1> USE DEF ClientInv
<1>w. h \in Procs /\ h \notin Users /\ \A v \in Users : v \in Procs /\ v # h BY ZenonT(60), Who
<1>1. PICK l \in {back[q]} : Goto(q, l) BY ZenonT(60) DEF Wait, GotoFrom, h
<1>2. \A r \in Procs : pc'[r] = IF r = q THEN l ELSE pc[r] BY ZenonT(60), <1>w, <1>1, Went
<1>3. ClientTypes'
  BY SMTT(60), <1>w, <1>1, <1>2 DEF Wait, Goto, ClientTypes, Running, UserLabels, HandlerLabels, dataVars
<1>4. Starting'
  <2>1. pc[q] = "Wait" /\ UNCHANGED <<conn, closed>> BY ZenonT(60) DEF Wait
  <2>2. pc[h] # "None" BY ZenonT(60), <2>1 DEF Starting, InClose, Procs, h
  <2>3. pc'[h] # "None" /\ \A u \in Users : pc'[u] \in {"Dial", "Started"} => pc[u] = pc'[u]
    BY ZenonT(60), <1>w, <1>1, <1>2, <2>1, <2>2 DEF ClientTypes
  <2> QED BY ZenonT(60), <2>1, <2>2, <2>3 DEF Starting
<1>5. Joined' BY ZenonT(60), <1>w, <1>2 DEF Wait, Joined, Counted, ClientTypes, Running, HandlerLabels
<1>6. Drained' BY SMTT(60), <1>w, <1>2 DEF Wait, Drained, InClose, dataVars
<1> QED BY ZenonT(60), <1>3, <1>4, <1>5, <1>6

\* The swap of c.closed in Raw.
LEMMA RawSwapInv ==
  ASSUME ClientInv, NEW u \in Users, RawSwap(u)
  PROVE  ClientInv'
<1> USE DEF ClientInv
<1>w. h \in Procs /\ h \notin Users /\ \A v \in Users : v \in Procs /\ v # h BY ZenonT(60), Who
<1>1. PICK l \in {"RawAgain", "RawConn"} : Goto(u, l) BY ZenonT(60) DEF RawSwap, GotoFrom, h
<1>2. \A r \in Procs : pc'[r] = IF r = u THEN l ELSE pc[r] BY ZenonT(60), <1>w, <1>1, Went
<1>3. ClientTypes'
  BY SMTT(60), <1>w, <1>1, <1>2 DEF RawSwap, Goto, ClientTypes, InRaw, UserLabels, dataVars
<1>4. Starting' BY ZenonT(60), <1>w, <1>2 DEF RawSwap, Starting, InRaw
<1>5. Joined' BY ZenonT(60), <1>w, <1>2 DEF RawSwap, Joined, Counted
<1>6. Drained' BY ZenonT(60), <1>w, <1>2 DEF RawSwap, Drained, InRaw
<1> QED BY ZenonT(60), <1>3, <1>4, <1>5, <1>6

\* c.conn.Raw, by the winner of the swap or by a loser.
LEMMA RawConnInv ==
  ASSUME ClientInv, NEW u \in Users, RawConn(u)
  PROVE  ClientInv'
<1> USE DEF ClientInv
<1>w. h \in Procs /\ h \notin Users /\ \A v \in Users : v \in Procs /\ v # h BY ZenonT(60), Who
<1>1. PICK l \in {"Wait", "Idle"} : Goto(u, l) BY ZenonT(60) DEF RawConn, GotoFrom, h
<1>2. \A r \in Procs : pc'[r] = IF r = u THEN l ELSE pc[r] BY ZenonT(60), <1>w, <1>1, Went
<1>3. ClientTypes'
  BY ZenonT(60), <1>w, <1>1, <1>2 DEF RawConn, Goto, ClientTypes, InClose, UserLabels, dataVars
<1>4. Starting' BY SMTT(60), <1>w, <1>2 DEF RawConn, Starting, InRaw, AsyncRaw
<1>5. Joined' BY ZenonT(60), <1>w, <1>2 DEF RawConn, Joined, Counted
<1>6. Drained' BY ZenonT(60), <1>w, <1>2 DEF RawConn, Drained, InRaw
<1> QED BY ZenonT(60), <1>3, <1>4, <1>5, <1>6

\* A user enters SetStreamHandler.
LEMMA CallSetStreamHandlerInv ==
  ASSUME ClientInv, NEW u \in Users, CallSetStreamHandler(u)
  PROVE  ClientInv'
<1> USE DEF ClientInv
<1>w. h \in Procs /\ h \notin Users /\ \A v \in Users : v \in Procs /\ v # h BY ZenonT(60), Who
<1>1. PICK l \in {"SetNil", "SetHandler"} : Goto(u, l) BY ZenonT(60) DEF CallSetStreamHandler, GotoFrom, h
<1>2. \A r \in Procs : pc'[r] = IF r = u THEN l ELSE pc[r] BY ZenonT(60), <1>w, <1>1, Went
<1>3. ClientTypes'
  BY ZenonT(60), <1>w, <1>1, <1>2 DEF CallSetStreamHandler, Goto, ClientTypes, UserLabels, dataVars
<1>4. Starting' BY SMTT(60), <1>w, <1>2 DEF CallSetStreamHandler, Starting, InClose, InRaw
<1>5. Joined' BY ZenonT(60), <1>w, <1>2 DEF CallSetStreamHandler, Joined, Counted
<1>6. Drained' BY ZenonT(60), <1>w, <1>2 DEF CallSetStreamHandler, Drained, InClose, InRaw, dataVars
<1> QED BY ZenonT(60), <1>3, <1>4, <1>5, <1>6

\* The one or two assignments of SetStreamHandler.
LEMMA SetStreamHandlerInv ==
  ASSUME ClientInv, NEW u \in Users, SetStreamHandler(u)
  PROVE  ClientInv'
<1> USE DEF ClientInv
<1>w. h \in Procs /\ h \notin Users /\ \A v \in Users : v \in Procs /\ v # h BY ZenonT(60), Who
<1>1. PICK l \in {"SetNext", "Idle"} : Goto(u, l) BY ZenonT(60) DEF SetStreamHandler, GotoFrom, h
<1>2. \A r \in Procs : pc'[r] = IF r = u THEN l ELSE pc[r] BY ZenonT(60), <1>w, <1>1, Went
<1>3. ClientTypes' BY SMTT(60), <1>w, <1>1, <1>2 DEF SetStreamHandler, Goto, ClientTypes, UserLabels
<1>4. Starting' BY SMTT(60), <1>w, <1>2 DEF SetStreamHandler, Starting, InClose, InRaw
<1>5. Joined' BY ZenonT(60), <1>w, <1>2 DEF SetStreamHandler, Joined, Counted
<1>6. Drained' BY SMTT(60), <1>w, <1>2 DEF SetStreamHandler, Drained, InClose, InRaw
<1> QED BY ZenonT(60), <1>3, <1>4, <1>5, <1>6

\* wg.Add and the start of handleConn: the count goes from zero to one, once.
LEMMA StartedInv ==
  ASSUME ClientInv, NEW u \in Users, Started(u)
  PROVE  ClientInv'
<1> USE DEF ClientInv
<1>w. h \in Procs /\ h \notin Users /\ \A v \in Users : v \in Procs /\ v # h BY ZenonT(60), Who
<1>1. \A r \in Procs : pc'[r] = IF r = h THEN "Check" ELSE IF r = u THEN "Idle" ELSE pc[r]
  BY ZenonT(60), <1>w DEF Started, ClientTypes, h
<1>2. /\ pc[u] = "Started" /\ conn # "nil" /\ pc[h] = "None" /\ ~closed /\ won = {} /\ wg' = wg + 1
      /\ UNCHANGED <<closed, asked, attempts, conn, handled, received, back, action, won>>
  BY ZenonT(60) DEF Started, Starting, dataVars
<1>3. ClientTypes'
  <2>1. pc' \in [Procs -> UserLabels \cup HandlerLabels]
    BY ZenonT(60), <1>w DEF Started, ClientTypes, UserLabels, HandlerLabels, Running
  <2> QED BY SMTT(60), <1>w, <1>1, <1>2, <2>1 DEF ClientTypes, HandlerLabels, Running, InClose
<1>4. Starting'
  <2>1. \A v \in Users : pc[v] \in {"Dial", "Started"} => v = u
    BY ZenonT(60), <1>2, ConnectAssumption DEF Starting
  <2> QED BY ZenonT(60), <1>w, <1>1, <1>2, <2>1 DEF Starting
<1>5. Joined' BY SMTT(60), <1>w, <1>1, <1>2 DEF Joined, Counted, Running, InClose
<1>6. Drained' BY ZenonT(60), <1>w, <1>1, <1>2 DEF Drained, InClose, InRaw
<1> QED BY ZenonT(60), <1>3, <1>4, <1>5, <1>6

\* What arrives, and a connection that fails, concern no goroutine.
LEMMA NetworkInv ==
  ASSUME ClientInv, Arrive \/ ConnFails \/ StreamArrives
  PROVE  ClientInv'
<1> USE DEF ClientInv
<1>1. /\ UNCHANGED <<closed, asked, attempts, wg, handled, pc, back, action, won>>
      /\ conn' = conn \/ (conn = "open" /\ conn' = "down")
      /\ received' = received \/ (conn = "open" /\ received' = received + 1)
  BY ZenonT(60) DEF Arrive, ConnFails, StreamArrives, dataVars
<1>2. ClientTypes' BY SMTT(60), <1>1 DEF ClientTypes
<1>3. Starting' BY ZenonT(60), <1>1 DEF Starting
<1>4. Joined' BY ZenonT(60), <1>1 DEF Joined, Counted
<1>5. Drained' BY ZenonT(60), <1>1 DEF Drained
<1> QED BY ZenonT(60), <1>2, <1>3, <1>4, <1>5

\* NewClient establishes the invariant.
LEMMA ClientInitInv ==
  ASSUME Init
  PROVE  ClientInv
<1>w. h \in Procs /\ h \notin Users /\ \A v \in Users : v \in Procs /\ v # h BY ZenonT(60), Who
<1>1. pc[h] = "None" /\ \A u \in Users : pc[u] = "Idle" BY ZenonT(60), <1>w DEF Init, h
<1>2. ClientTypes
  <2>1. pc \in [Procs -> UserLabels \cup HandlerLabels] BY ZenonT(60) DEF Init, UserLabels, HandlerLabels
  <2>2. back \in [Procs -> {"Idle", "Check", "Exit"}] /\ \A u \in Users : back[u] = "Idle"
    BY ZenonT(60), <1>w DEF Init
  <2>3. /\ wg = 0 /\ attempts = 0 /\ handled = 0 /\ received = 0 /\ won \subseteq Procs
        /\ closed \in BOOLEAN /\ asked \in BOOLEAN
    BY ZenonT(60) DEF Init
  <2>4. pc[h] \in HandlerLabels /\ pc[h] \notin InClose /\ \A u \in Users : pc[u] \in UserLabels
    BY ZenonT(60), <1>1 DEF UserLabels, HandlerLabels, InClose
  <2> QED BY SMTT(60), <2>1, <2>2, <2>3, <2>4 DEF ClientTypes
<1>3. Starting BY ZenonT(60), <1>w, <1>1 DEF Init, Starting, InClose, InRaw
<1>4. Joined BY ZenonT(60), <1>w, <1>1 DEF Init, Joined, Counted, Running
<1>5. Drained BY ZenonT(60), <1>w, <1>1 DEF Init, Drained, InClose, InRaw
<1> QED BY ZenonT(60), <1>2, <1>3, <1>4, <1>5 DEF ClientInv

\* Every step keeps it, one step of the proof for every action.
LEMMA ClientNextInv ==
  ASSUME ClientInv, [Next]_vars
  PROVE  ClientInv'
<1>1. CASE UNCHANGED vars
  BY ZenonT(60), <1>1 DEF ClientInv, ClientTypes, Starting, Joined, Counted, Drained, vars, dataVars
<1>2. ASSUME NEW q \in Procs, CloseStep(q) PROVE ClientInv'
  BY ZenonT(60), <1>2, SwapInv, CancelInv, CloseConnInv, WaitInv DEF CloseStep
<1>3. CASE HandleConn
  <2>1. "handleConn" \in Procs BY SMTT(60) DEF Procs
  <2> QED BY ZenonT(60), <1>2, <1>3, <2>1, HandlerCheckInv, HandlerReadInv, HandleInv, ReplyInv,
      HandlerDoneInv DEF HandleConn
<1>4. ASSUME NEW u \in Users, UserStep(u) PROVE ClientInv'
  <2>1. u \in Procs BY ZenonT(60) DEF Procs
  <2> QED BY ZenonT(60), <1>2, <1>4, <2>1, DialInv, StartedInv, RawSwapInv, RawConnInv,
      SetStreamHandlerInv DEF UserStep
<1>5. ASSUME NEW u \in Users, UserCall(u) PROVE ClientInv'
  BY ZenonT(60), <1>5, CallConnectInv, CallFromConnInv, CallCloseInv, CallRawInv,
     CallSetStreamHandlerInv DEF UserCall
<1> QED BY ZenonT(60), <1>1, <1>3, <1>4, <1>5, NetworkInv DEF Next

\* The inductive invariant of a Client: who starts handleConn, what c.wg counts, and what
\* holds while nobody has asked for the end (client.go:77-215).
THEOREM ClientInvariant == Spec => []ClientInv
<1>1. Init => ClientInv BY ZenonT(60), ClientInitInv
<1>2. ClientInv /\ [Next]_vars => ClientInv' BY ZenonT(60), ClientNextInv
<1> QED BY PTL, <1>1, <1>2 DEF Spec

\* When a user's Close or Raw that won the swap has returned, handleConn runs no handler,
\* however the call raced with packets, failing replies, handlers that close the client
\* themselves and other calls (client.go:103-144): wg is zero only once handleConn is past
\* its wg.Done, and it is started once.
THEOREM ClientHandlerStopped == Spec => []HandlerStopped
<1>1. ClientInv => HandlerStopped
  BY SMTT(60) DEF ClientInv, HandlerStopped, Joined, Counted, Running, h
<1> QED BY PTL, ClientInvariant, <1>1

\* A connection that breaks loses no packet that had arrived (client.go:187-192).
THEOREM ClientNothingDropped == Spec => []NothingDropped
<1>1. ClientInv => NothingDropped BY SMTT(60) DEF ClientInv, NothingDropped, Drained, h
<1> QED BY PTL, ClientInvariant, <1>1

\* The net.Conn that Raw took over is not closed by any later step (client.go:104-115,
\* 134-144).
THEOREM ClientRawStaysOpen == Spec => RawStaysOpen
<1>1. ASSUME ClientInv, [Next]_vars PROVE [conn = "raw" => conn' = "raw"]_vars
  <2> SUFFICES ASSUME Next, conn = "raw" PROVE conn' = "raw" BY ZenonT(60), <1>1
  <2>1. CASE Arrive \/ ConnFails \/ StreamArrives
    BY ZenonT(60), <2>1 DEF Arrive, ConnFails, StreamArrives
  <2>2. ASSUME NEW q, CloseStep(q) PROVE conn' = "raw"
    BY ZenonT(60), <2>2 DEF CloseStep, Swap, Cancel, CloseConn, Wait, AsyncClose
  <2>3. CASE HandleConn
    BY ZenonT(60), <2>2, <2>3 DEF HandleConn, HandlerCheck, HandlerRead, Handle, Reply, HandlerDone
  <2>4. ASSUME NEW u \in Users, UserStep(u) PROVE conn' = "raw"
    <3>1. ~Dial(u) BY ZenonT(60), <1>1 DEF Dial, ClientInv, Starting
    <3> QED
      BY ZenonT(60), <2>2, <2>4, <3>1 DEF UserStep, Started, RawSwap, RawConn, AsyncRaw, SetStreamHandler
  <2>5. ASSUME NEW u \in Users, UserCall(u) PROVE conn' = "raw"
    BY ZenonT(60), <2>5 DEF UserCall, CallConnect, CallFromConn, CallClose, CallRaw, CallSetStreamHandler
  <2> QED BY ZenonT(60), <2>1, <2>3, <2>4, <2>5 DEF Next
<1> QED BY PTL, ClientInvariant, <1>1 DEF Spec, RawStaysOpen
====
