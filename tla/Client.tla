------------------------------- MODULE Client -------------------------------
(***************************************************************************)
(* client.go: a Client dials, its handleConn goroutine reads packets and   *)
(* runs handlers, and application goroutines close it, take the net.Conn   *)
(* over or set the stream handler. The connection is seen through what     *)
(* client.go uses of Async: ReadPacket returns what has arrived and fails  *)
(* when a closed connection is drained; Close closes the net.Conn, and Raw *)
(* keeps it open, only when the connection is not closed yet.              *)
(***************************************************************************)
EXTENDS Integers

CONSTANTS
  Users,       \* application goroutines
  Ops,         \* Ops[u]: the methods goroutine u may call
  Tables,      \* handler tables given to NewClient, as sets of operations
  Operations,  \* operations of the packets that arrive
  NumRetries,  \* NumRetries of dialer.Retry
  MaxPackets,  \* bound: packets and streams the peer sends
  SelfClose,   \* whether a handler calls Close
  NetFails     \* whether dialing and the connection may fail

RESERVED9 == 9
Methods == {"Connect", "FromConn", "Close", "Raw", "SetStreamHandler"}
Procs   == Users \cup {"handleConn"}

ASSUME ClientUsersAssumption == "handleConn" \notin Users /\ Ops \in [Users -> SUBSET Methods]
\* One goroutine connects the client.
Connecting(u) == Ops[u] \cap {"Connect", "FromConn"} # {}
ASSUME ConnectAssumption == \A u, v \in Users : Connecting(u) /\ Connecting(v) => u = v
ASSUME ClientBoundsAssumption ==
  /\ Operations \subseteq Nat /\ Tables \subseteq SUBSET Nat /\ NumRetries \in Nat \ {0}
  /\ MaxPackets \in Nat /\ SelfClose \in BOOLEAN /\ NetFails \in BOOLEAN

VARIABLES
  handlerTable, \* the operations with a handler
  closed,       \* c.closed
  cancelled,    \* c.baseContext is done
  wg,           \* the count of c.wg
  attempts,     \* dials made
  conn,         \* "nil"; "open"; "down", closed with its net.Conn; "raw", the net.Conn open
  received, handled, \* packets that have arrived, and packets handleConn has taken
  streamHandler, \* "nil", "call" a handler, or "callNil": the closure over a nil handler
  streams, called, \* streams the peer has opened, and what the last one made c.conn call
  pc, back,     \* next step of a goroutine, and where Close and Raw return to
  action,       \* the action the handler returned
  won,          \* users whose Close or Raw won the swap and has returned
  asked         \* the end was asked for: by a user, by a handler, by a failed reply

dataVars == <<received, handled, streamHandler, streams, called>>
vars == <<handlerTable, closed, cancelled, wg, attempts, conn, dataVars, pc, back, action, won, asked>>

\* NewClient: a table with a reserved operation is refused.
NewClient(table) == \A i \in 0 .. RESERVED9 - 1 : i \notin table

Init ==
  /\ handlerTable \in {t \in Tables : NewClient(t)}
  /\ closed = FALSE /\ cancelled = FALSE /\ wg = 0 /\ attempts = 0 /\ conn = "nil"
  /\ received = 0 /\ handled = 0 /\ streamHandler \in {"nil", "call"} /\ streams = 0 /\ called = "none"
  /\ pc = [p \in Procs |-> IF p = "handleConn" THEN "None" ELSE "Idle"]
  /\ back = [p \in Procs |-> "Idle"] /\ action = "NONE" /\ won = {} /\ asked = FALSE

Goto(p, label) == pc' = [pc EXCEPT ![p] = label]
GotoFrom(p, label, to) == Goto(p, label) /\ back' = [back EXCEPT ![p] = to]

-----------------------------------------------------------------------------
\* Connect, once, by one goroutine: dial ...
CallConnect(u) ==
  /\ pc[u] = "Idle" /\ "Connect" \in Ops[u] /\ conn = "nil" /\ attempts = 0 /\ Goto(u, "Dial")
  /\ UNCHANGED <<handlerTable, closed, cancelled, wg, attempts, conn, dataVars, back, action, won, asked>>

\* ... up to NumRetries times: Retry.Dial and Retry.DialTLS.
Dial(u) ==
  /\ pc[u] = "Dial" /\ attempts' = attempts + 1
  /\ \/ conn' = "open" /\ Goto(u, "Started")
     \/ /\ NetFails /\ UNCHANGED conn
        /\ Goto(u, IF attempts' < NumRetries THEN "Dial" ELSE "Idle")
  /\ UNCHANGED <<handlerTable, closed, cancelled, wg, dataVars, back, action, won, asked>>

\* FromConn wraps a net.Conn without dialing.
CallFromConn(u) ==
  /\ pc[u] = "Idle" /\ "FromConn" \in Ops[u] /\ conn = "nil" /\ attempts = 0
  /\ conn' = "open" /\ Goto(u, "Started")
  /\ UNCHANGED <<handlerTable, closed, cancelled, wg, attempts, dataVars, back, action, won, asked>>

\* Connect and FromConn: wg.Add and handleConn's goroutine.
Started(u) ==
  /\ pc[u] = "Started" /\ wg' = wg + 1
  /\ pc' = [pc EXCEPT ![u] = "Idle", !["handleConn"] = "Check"]
  /\ UNCHANGED <<handlerTable, closed, cancelled, attempts, conn, dataVars, back, action, won, asked>>

\* Users wait for Connect: c.conn is nil before it.
Connected == conn # "nil" /\ \A u \in Users : pc[u] # "Started"

-----------------------------------------------------------------------------
\* Async (external): a packet arrives, the connection fails, the peer opens a stream.
Arrive ==
  /\ conn = "open" /\ received < MaxPackets /\ received' = received + 1
  /\ UNCHANGED <<handlerTable, closed, cancelled, wg, attempts, conn, handled, streamHandler,
                 streams, called, pc, back, action, won, asked>>
ConnFails ==
  /\ NetFails /\ conn = "open" /\ conn' = "down"
  /\ UNCHANGED <<handlerTable, closed, cancelled, wg, attempts, dataVars, pc, back, action, won, asked>>
StreamArrives ==
  /\ conn = "open" /\ streams < MaxPackets /\ streams' = streams + 1
  /\ called' = [nil |-> called, call |-> "handler", callNil |-> "nil"][streamHandler]
  /\ UNCHANGED <<handlerTable, closed, cancelled, wg, attempts, conn, received, handled,
                 streamHandler, pc, back, action, won, asked>>

-----------------------------------------------------------------------------
\* handleConn: stop when the client is closed ...
HandlerCheck ==
  /\ pc["handleConn"] = "Check"
  /\ \/ closed /\ wg' = wg - 1 /\ Goto("handleConn", "Exit")
     \/ ~closed /\ Goto("handleConn", "Read") /\ UNCHANGED wg
  /\ UNCHANGED <<handlerTable, closed, cancelled, attempts, conn, dataVars, back, action, won, asked>>

\* Mutant of HandlerRead: a closed connection is not drained.
HandlerReadEager ==
  /\ pc["handleConn"] = "Read"
  /\ \/ /\ handled < received /\ conn = "open" /\ handled' = handled + 1
        /\ \E o \in Operations : Goto("handleConn", IF o \in handlerTable THEN "Handle" ELSE "Check")
     \/ conn # "open" /\ Goto("handleConn", "Done") /\ UNCHANGED handled
  /\ UNCHANGED <<handlerTable, closed, cancelled, wg, attempts, conn, received, streamHandler,
                 streams, called, back, action, won, asked>>

\* ... read the next packet, and look its handler up ...
HandlerRead ==
  /\ pc["handleConn"] = "Read"
  /\ \/ /\ handled < received /\ handled' = handled + 1
        /\ \E o \in Operations : Goto("handleConn", IF o \in handlerTable THEN "Handle" ELSE "Check")
     \/ handled = received /\ conn # "open" /\ Goto("handleConn", "Done") /\ UNCHANGED handled
  /\ UNCHANGED <<handlerTable, closed, cancelled, wg, attempts, conn, received, streamHandler,
                 streams, called, back, action, won, asked>>

\* ... run it (it may call Close) ...
Handle ==
  /\ pc["handleConn"] = "Handle"
  /\ \/ /\ \E reply \in BOOLEAN, a \in {"NONE", "CLOSE"} :
             /\ action' = a /\ asked' = (asked \/ a = "CLOSE")
             /\ Goto("handleConn", IF reply THEN "Reply" ELSE IF a = "CLOSE" THEN "Done" ELSE "Check")
        /\ UNCHANGED back
     \/ SelfClose /\ asked' = TRUE /\ GotoFrom("handleConn", "Swap", "Check") /\ UNCHANGED action
  /\ UNCHANGED <<handlerTable, closed, cancelled, wg, attempts, conn, dataVars, won>>

\* ... write its reply, which fails on a closed connection, and take its action.
Reply ==
  /\ pc["handleConn"] = "Reply"
  /\ \/ /\ conn = "open" /\ Goto("handleConn", IF action = "CLOSE" THEN "Done" ELSE "Check")
        /\ UNCHANGED <<conn, asked>>
     \/ /\ NetFails \/ conn # "open"
        /\ conn' = (IF conn = "open" THEN "down" ELSE conn)
        /\ asked' = TRUE /\ Goto("handleConn", "Done")
  /\ UNCHANGED <<handlerTable, closed, cancelled, wg, attempts, dataVars, back, action, won>>

\* Mutants of HandlerDone: wg.Done is forgotten; Close is not called.
HandlerDoneForgotten ==
  /\ pc["handleConn"] = "Done" /\ GotoFrom("handleConn", "Swap", "Exit")
  /\ UNCHANGED <<handlerTable, closed, cancelled, wg, attempts, conn, dataVars, action, won, asked>>
HandlerDoneQuiet ==
  /\ pc["handleConn"] = "Done" /\ wg' = wg - 1 /\ Goto("handleConn", "Exit")
  /\ UNCHANGED <<handlerTable, closed, cancelled, attempts, conn, dataVars, back, action, won, asked>>

\* After an error or the action CLOSE: wg.Done, and then Close.
HandlerDone ==
  /\ pc["handleConn"] = "Done" /\ wg' = wg - 1 /\ GotoFrom("handleConn", "Swap", "Exit")
  /\ UNCHANGED <<handlerTable, closed, cancelled, attempts, conn, dataVars, action, won, asked>>

-----------------------------------------------------------------------------
CallClose(u) ==
  /\ pc[u] = "Idle" /\ "Close" \in Ops[u] /\ Connected /\ u \notin won
  /\ asked' = TRUE /\ GotoFrom(u, "Swap", "Idle")
  /\ UNCHANGED <<handlerTable, closed, cancelled, wg, attempts, conn, dataVars, action, won>>

\* Close: the swap of c.closed.
Swap(p) ==
  /\ pc[p] = "Swap" /\ closed' = TRUE /\ Goto(p, IF closed THEN "CloseAgain" ELSE "Cancel")
  /\ UNCHANGED <<handlerTable, cancelled, wg, attempts, conn, dataVars, back, action, won, asked>>

Cancel(p) ==
  /\ pc[p] = "Cancel" /\ cancelled' = TRUE /\ Goto(p, "CloseConn")
  /\ UNCHANGED <<handlerTable, closed, wg, attempts, conn, dataVars, back, action, won, asked>>

\* Mutant of AsyncClose: the net.Conn is closed in any case.
AsyncCloseAlways == "down"

\* Async.Close and Async.Raw, for the state of the connection they leave.
AsyncClose == IF conn = "open" THEN "down" ELSE conn
AsyncRaw   == IF conn = "open" THEN "raw" ELSE conn

\* The winner closes the connection and waits; a loser closes it and returns.
CloseConn(p) ==
  /\ \/ pc[p] = "CloseConn" /\ Goto(p, "Wait")
     \/ pc[p] = "CloseAgain" /\ Goto(p, back[p])
  /\ conn' = AsyncClose
  /\ UNCHANGED <<handlerTable, closed, cancelled, wg, attempts, dataVars, back, action, won, asked>>

\* Mutant of Wait: c.wg is not waited for.
WaitSkipped(p) ==
  /\ pc[p] = "Wait" /\ Goto(p, back[p]) /\ won' = won \cup {p}
  /\ UNCHANGED <<handlerTable, closed, cancelled, wg, attempts, conn, dataVars, back, action, asked>>

Wait(p) ==
  /\ pc[p] = "Wait" /\ wg = 0 /\ Goto(p, back[p]) /\ won' = won \cup {p}
  /\ UNCHANGED <<handlerTable, closed, cancelled, wg, attempts, conn, dataVars, back, action, asked>>

\* Raw: the winner of the swap takes the net.Conn and waits, a loser gets the net.Conn as
\* it is. (Before Connect it returns an error and changes nothing.)
CallRaw(u) ==
  /\ pc[u] = "Idle" /\ "Raw" \in Ops[u] /\ Connected /\ u \notin won
  /\ asked' = TRUE /\ GotoFrom(u, "RawSwap", "Idle")
  /\ UNCHANGED <<handlerTable, closed, cancelled, wg, attempts, conn, dataVars, action, won>>

RawSwap(u) ==
  /\ pc[u] = "RawSwap" /\ closed' = TRUE /\ Goto(u, IF closed THEN "RawAgain" ELSE "RawConn")
  /\ UNCHANGED <<handlerTable, cancelled, wg, attempts, conn, dataVars, back, action, won, asked>>

RawConn(u) ==
  /\ \/ pc[u] = "RawConn" /\ Goto(u, "Wait")
     \/ pc[u] = "RawAgain" /\ Goto(u, "Idle")
  /\ conn' = AsyncRaw
  /\ UNCHANGED <<handlerTable, closed, cancelled, wg, attempts, dataVars, back, action, won, asked>>

-----------------------------------------------------------------------------
\* SetStreamHandler(nil) resets the handler of the connection, and goes on ...
CallSetStreamHandler(u) ==
  /\ pc[u] = "Idle" /\ "SetStreamHandler" \in Ops[u] /\ Connected
  /\ Goto(u, "SetNil") \/ Goto(u, "SetHandler")
  /\ UNCHANGED <<handlerTable, closed, cancelled, wg, attempts, conn, dataVars, back, action, won, asked>>

\* ... to set the closure that calls f, as it does for any other f.
SetStreamHandler(u) ==
  /\ \/ pc[u] = "SetNil" /\ streamHandler' = "nil" /\ Goto(u, "SetNext")
     \/ pc[u] = "SetNext" /\ streamHandler' = "callNil" /\ Goto(u, "Idle")
     \/ pc[u] = "SetHandler" /\ streamHandler' = "call" /\ Goto(u, "Idle")
  /\ UNCHANGED <<handlerTable, closed, cancelled, wg, attempts, conn, received, handled, streams,
                 called, back, action, won, asked>>

-----------------------------------------------------------------------------
CloseStep(p) == Swap(p) \/ Cancel(p) \/ CloseConn(p) \/ Wait(p)
HandleConn == HandlerCheck \/ HandlerRead \/ Handle \/ Reply \/ HandlerDone \/ CloseStep("handleConn")
UserStep(u) == \/ Dial(u) \/ Started(u) \/ CloseStep(u) \/ RawSwap(u) \/ RawConn(u)
               \/ SetStreamHandler(u)
UserCall(u) == \/ CallConnect(u) \/ CallFromConn(u) \/ CallClose(u) \/ CallRaw(u)
               \/ CallSetStreamHandler(u)

\* A call of a nil handler panics: nothing runs after it.
Next ==
  /\ called # "nil"
  /\ \/ Arrive \/ ConnFails \/ StreamArrives \/ HandleConn
     \/ \E u \in Users : UserStep(u) \/ UserCall(u)

Spec == Init /\ [][Next]_vars

\* Goroutines run and handlers return; the network, the peer and the users owe nothing.
FairSpec == Spec /\ WF_vars(HandleConn) /\ \A u \in Users : WF_vars(UserStep(u))

=============================================================================
