------------------------------ MODULE SyncConn ------------------------------
(***************************************************************************)
(* frisbee.Sync (sync.go): a connection without goroutines of its own.     *)
(* Application goroutines write under the mutex, read without a lock, and  *)
(* close the connection or take the net.Conn over at any moment. A packet  *)
(* is one or two chunks on the net.Conn: its metadata, then its content.   *)
(***************************************************************************)
EXTENDS Integers, Sequences

CONSTANTS
  Users,      \* application goroutines
  Ops,        \* Ops[u]: the methods goroutine u may call
  Inbound,    \* what the peer may send: sequences of Chunks
  MaxOps,     \* bound: calls made by one goroutine
  NetFails,   \* whether the net.Conn may fail a Read or a Write
  None        \* "no goroutine": an unlocked mutex

Methods == {"WritePacket", "ReadPacket", "Close", "Raw"}
\* Metadata without and with a content to follow, metadata that ReadPacket rejects, content.
Chunks  == {"empty", "full", "bad", "content"}
\* Errors of the net.Conn and of the header checks: what closeWithError is given.
Causes  == {"ReadError", "WriteError", "BadPacket"}

ASSUME SyncUsersAssumption == None \notin Users /\ Ops \in [Users -> SUBSET Methods]
ASSUME SyncBoundsAssumption ==
  Inbound \subseteq Seq(Chunks) /\ MaxOps \in Nat /\ NetFails \in BOOLEAN

VARIABLES
  closed,   \* c.closed
  error,    \* c.error, "nil" before a Store
  stores,   \* number of calls of c.error.Store
  mu,       \* the holder of c.Mutex
  conn,     \* the net.Conn is open
  broken,   \* a Write has failed
  wire,     \* chunks written to the net.Conn, with their packet
  inbox,    \* chunks the peer sent that have not been read
  pc, pkt,  \* next step of a goroutine, and the packet it writes
  cause,    \* the error it met
  res,      \* what its last call returned
  calls,    \* calls it has made
  raw       \* Raw has won the swap

netVars == <<conn, broken, wire, inbox>>
vars == <<closed, error, stores, mu, netVars, pc, pkt, cause, res, calls, raw>>

Init ==
  /\ closed = FALSE /\ error = "nil" /\ stores = 0 /\ mu = None /\ raw = FALSE
  /\ conn = TRUE /\ broken = FALSE /\ wire = <<>> /\ inbox \in Inbound
  /\ pc = [u \in Users |-> "Idle"] /\ res = [u \in Users |-> "none"]
  /\ pkt = [u \in Users |-> [src |-> u, n |-> 0, len |-> 0]]
  /\ cause = [u \in Users |-> "nil"] /\ calls = [u \in Users |-> 0]

Goto(u, label) == pc' = [pc EXCEPT ![u] = label]
Return(u, v) == Goto(u, "Idle") /\ res' = [res EXCEPT ![u] = v]
Meets(u, e, label) == cause' = [cause EXCEPT ![u] = e] /\ Goto(u, label) /\ UNCHANGED res

\* Goroutine u calls method m.
Call(u, m) ==
  /\ pc[u] = "Idle" /\ m \in Ops[u] /\ calls[u] < MaxOps
  /\ calls' = [calls EXCEPT ![u] = @ + 1]

-----------------------------------------------------------------------------
\* WritePacket: a packet whose content has the wrong length, or too long, is refused.
CallWritePacket(u) ==
  /\ Call(u, "WritePacket")
  /\ \/ /\ \E len \in {0, 1} : pkt' = [pkt EXCEPT ![u] = [src |-> u, n |-> calls[u] + 1, len |-> len]]
        /\ Goto(u, "WLock") /\ UNCHANGED res
     \/ Return(u, "Invalid") /\ UNCHANGED pkt
  /\ UNCHANGED <<closed, error, stores, mu, netVars, cause, raw>>

\* Mutant of WriteLock: the mutex is not waited for.
WriteLockBarging(u) ==
  /\ pc[u] = "WLock"
  /\ \/ closed /\ Return(u, "ConnectionClosed") /\ UNCHANGED mu
     \/ ~closed /\ mu' = u /\ Goto(u, "WMeta") /\ UNCHANGED res
  /\ UNCHANGED <<closed, error, stores, netVars, pkt, cause, calls, raw>>

WriteLock(u) ==
  /\ pc[u] = "WLock" /\ mu = None
  /\ \/ closed /\ Return(u, "ConnectionClosed") /\ UNCHANGED mu
     \/ ~closed /\ mu' = u /\ Goto(u, "WMeta") /\ UNCHANGED res
  /\ UNCHANGED <<closed, error, stores, netVars, pkt, cause, calls, raw>>

\* A Write to the net.Conn (external). Its errors last: a closed or reset connection and
\* an expired deadline fail every later Write.
NetWrite(chunk) == conn /\ ~broken /\ wire' = Append(wire, chunk) /\ UNCHANGED broken
NetWriteFails   == (~conn \/ broken \/ NetFails) /\ broken' = TRUE /\ UNCHANGED wire

\* WritePacket writes the metadata, then the content, and unlocks.
WriteChunk(u, label, part, more) ==
  /\ pc[u] = label
  /\ \/ /\ NetWrite([pkt |-> pkt[u], part |-> part])
        /\ \/ more /\ Goto(u, "WBody") /\ UNCHANGED <<mu, res>>
           \/ ~more /\ mu' = None /\ Return(u, "ok")
        /\ UNCHANGED cause
     \/ NetWriteFails /\ mu' = None /\ Meets(u, "WriteError", "Check")
  /\ UNCHANGED <<closed, error, stores, conn, inbox, pkt, calls, raw>>
WriteMeta(u) == WriteChunk(u, "WMeta", "meta", pkt[u].len > 0)
WriteBody(u) == WriteChunk(u, "WBody", "body", FALSE)

-----------------------------------------------------------------------------
\* ReadPacket: the first look at c.closed.
CallReadPacket(u) ==
  /\ Call(u, "ReadPacket")
  /\ \/ closed /\ Return(u, "ConnectionClosed")
     \/ ~closed /\ Goto(u, "RMeta") /\ UNCHANGED res
  /\ UNCHANGED <<closed, error, stores, mu, netVars, pkt, cause, raw>>

\* io.ReadAtLeast on the net.Conn (external): it blocks until the chunk is there, or fails.
NetRead == conn /\ inbox # <<>> /\ inbox' = Tail(inbox)
NetReadFails == (~conn \/ NetFails) /\ UNCHANGED inbox

\* ReadPacket reads and checks the metadata ...
ReadMeta(u) ==
  /\ pc[u] = "RMeta"
  /\ \/ NetRead /\ Head(inbox) = "full" /\ Goto(u, "RBody") /\ UNCHANGED <<cause, res>>
     \/ NetRead /\ Head(inbox) = "empty" /\ Return(u, "packet") /\ UNCHANGED cause
     \/ NetRead /\ Head(inbox) \in {"bad", "content"} /\ Meets(u, "BadPacket", "Swap")
     \/ NetReadFails /\ Meets(u, "ReadError", "Check")
  /\ UNCHANGED <<closed, error, stores, mu, conn, broken, wire, pkt, calls, raw>>

\* ... and the content.
ReadBody(u) ==
  /\ pc[u] = "RBody"
  /\ \/ NetRead /\ Return(u, "packet") /\ UNCHANGED cause
     \/ NetReadFails /\ Meets(u, "ReadError", "Check")
  /\ UNCHANGED <<closed, error, stores, mu, conn, broken, wire, pkt, calls, raw>>

-----------------------------------------------------------------------------
\* The second look at c.closed, after an error of the net.Conn.
Check(u) ==
  /\ pc[u] = "Check"
  /\ \/ closed /\ Return(u, "ConnectionClosed")
     \/ ~closed /\ Goto(u, "Swap") /\ UNCHANGED res
  /\ UNCHANGED <<closed, error, stores, mu, netVars, pkt, cause, calls, raw>>

\* Mutant of CloseWithError: the result of close() is ignored.
CloseWithErrorAnyway(u) ==
  /\ pc[u] = "Swap" /\ closed' = TRUE /\ Goto(u, "Store")
  /\ UNCHANGED <<error, stores, mu, netVars, pkt, cause, res, calls, raw>>

\* Another: the loser of the swap returns its own error.
CloseWithErrorOwn(u) ==
  /\ pc[u] = "Swap" /\ closed' = TRUE
  /\ \/ closed /\ Return(u, cause[u])
     \/ ~closed /\ Goto(u, "Store") /\ UNCHANGED res
  /\ UNCHANGED <<error, stores, mu, netVars, pkt, cause, calls, raw>>

\* closeWithError: one of several callers wins the swap of close() ...
CloseWithError(u) ==
  /\ pc[u] = "Swap" /\ closed' = TRUE
  /\ \/ closed /\ Return(u, "ConnectionClosed")
     \/ ~closed /\ Goto(u, "Store") /\ UNCHANGED res
  /\ UNCHANGED <<error, stores, mu, netVars, pkt, cause, calls, raw>>

\* ... stores its error ...
Store(u) ==
  /\ pc[u] = "Store" /\ error' = cause[u] /\ stores' = stores + 1 /\ Goto(u, "Shut")
  /\ UNCHANGED <<closed, mu, netVars, pkt, cause, res, calls, raw>>

\* ... and closes the net.Conn.
Shut(u) ==
  /\ pc[u] = "Shut" /\ conn' = FALSE /\ Return(u, cause[u])
  /\ UNCHANGED <<closed, error, stores, mu, broken, wire, inbox, pkt, cause, calls, raw>>

\* Mutant of Close: the net.Conn is left open.
CloseNot(u) ==
  /\ pc[u] = "Close" /\ Return(u, "nil")
  /\ UNCHANGED <<closed, error, stores, mu, netVars, pkt, cause, calls, raw>>

\* Close: the winner of the swap closes the net.Conn, a loser returns nil.
CallClose(u) ==
  /\ Call(u, "Close") /\ closed' = TRUE
  /\ \/ closed /\ Return(u, "nil")
     \/ ~closed /\ Goto(u, "Close") /\ UNCHANGED res
  /\ UNCHANGED <<error, stores, mu, netVars, pkt, cause, raw>>
Close(u) ==
  /\ pc[u] = "Close" /\ conn' = FALSE /\ Return(u, "nil")
  /\ UNCHANGED <<closed, error, stores, mu, broken, wire, inbox, pkt, cause, calls, raw>>

\* Raw: the swap, and the net.Conn is handed out.
CallRaw(u) ==
  /\ Call(u, "Raw") /\ closed' = TRUE /\ raw' = (raw \/ ~closed) /\ Return(u, "net.Conn")
  /\ UNCHANGED <<error, stores, mu, netVars, pkt, cause>>

-----------------------------------------------------------------------------
Step(u) ==
  \/ WriteLock(u) \/ WriteMeta(u) \/ WriteBody(u) \/ ReadMeta(u) \/ ReadBody(u) \/ Check(u)
  \/ CloseWithError(u) \/ Store(u) \/ Shut(u) \/ Close(u)
Next == \E u \in Users : \/ Step(u) \/ CallWritePacket(u) \/ CallReadPacket(u)
                         \/ CallClose(u) \/ CallRaw(u)

Spec == Init /\ [][Next]_vars

\* A goroutine that can run does. A ReadPacket that waits for the peer cannot: neither
\* data nor a failure of the network is owed to it, only the closing of the net.Conn.
Waits(u) == pc[u] \in {"RMeta", "RBody"} /\ conn /\ inbox = <<>>
FairSpec == Spec /\ \A u \in Users : WF_vars(~Waits(u) /\ Step(u))

=============================================================================
