------------------------------- MODULE Server -------------------------------
(***************************************************************************)
(* server.go: the listener, one serveConn goroutine per connection, the    *)
(* goroutines that run handlers, and callers of Shutdown. A connection is  *)
(* seen through what server.go uses of Async: packets arrive, ReadPacket   *)
(* returns them and fails when a closed connection is drained, WritePacket *)
(* fails on a closed connection, and Close closes it.                      *)
(***************************************************************************)
EXTENDS Integers, FiniteSets

CONSTANTS
  Conns,        \* connections a client may open
  Callers,      \* goroutines that call Shutdown
  Modes,        \* values given to SetConcurrency
  MaxPackets,   \* bound: packets a peer sends on a connection
  NetFails,     \* whether Accept, SetKeepAlive and writes may fail
  None          \* no goroutine

ASSUME ConnsAssumption == "listener" \notin Conns \cup Callers /\ Conns \cap Callers = {}
                          /\ None \notin Conns \cup Callers \cup {"listener"}
ASSUME ServerBoundsAssumption == Modes \subseteq Nat /\ MaxPackets \in Nat /\ NetFails \in BOOLEAN

VARIABLES
  concurrency,  \* s.concurrency
  shutdown,     \* s.shutdown
  cancelled,    \* s.baseContext is done
  connMu,       \* the holder of s.connectionsMu
  connections,  \* the keys of s.connections
  wg,           \* goroutines counted by s.wg
  listening,    \* s.listener is open
  limiter,      \* number of tokens in s.limiter
  open,         \* open[c]: connection c is not closed
  sent,         \* sent[c]: packets the peer of c has sent
  taken,        \* taken[c]: packets ReadPacket has returned on c
  swapped,      \* swapped[c]: the local closed of handle*Packet
  done,         \* done[c]: the context of c was cancelled by its own cancel
  reported,     \* reported[c]: number of calls of s.onClosed for c
  hpc,          \* hpc[c][n]: where the handler goroutine of packet n is
  pc            \* where each other goroutine is

sharedVars == <<shutdown, cancelled, connMu, connections, wg, listening>>
peerVars   == <<open, sent, taken>>
localVars  == <<swapped, done, reported>>
vars == <<concurrency, sharedVars, limiter, peerVars, localVars, hpc, pc>>

Procs    == {"listener"} \cup Conns \cup Callers
Handlers == Conns \X (1 .. MaxPackets)
Limited  == concurrency > 1

Labels  == {"Accept", "Sleep", "Exit", "New", "Start", "Register", "Read", "Dispatch",
            "Handle", "Fail", "Report", "Join", "Unregister", "Gone", "Idle", "Cancel", "Lock",
            "CloseAll", "Listener", "Wait", "Stopped", "Refused"}
HLabels == {"None", "Run", "Close", "Report", "Done", "Release", "Gone"}

\* A handler goroutine that exists, and one that s.handle*Packet waits for.
Live    == {h \in Handlers : hpc[h[1]][h[2]] \notin {"None", "Gone"}}
Waited(c) == {n \in 1 .. MaxPackets : hpc[c][n] \in {"Run", "Close", "Report", "Done"}}

\* The types of the variables. The limiter is a channel of tokens: a handler takes back
\* the token that was sent for it, never one more (server.go:368-398).
TypeOK ==
  /\ concurrency \in Modes /\ shutdown \in BOOLEAN /\ cancelled \in BOOLEAN
  /\ connMu \in Conns \cup Callers \cup {None} /\ connections \subseteq Conns
  /\ wg \subseteq Conns \cup {"listener"} /\ listening \in BOOLEAN /\ limiter \in Nat
  /\ open \in [Conns -> BOOLEAN] /\ sent \in [Conns -> 0 .. MaxPackets]
  /\ taken \in [Conns -> 0 .. MaxPackets] /\ swapped \in [Conns -> BOOLEAN]
  /\ done \in [Conns -> BOOLEAN] /\ reported \in [Conns -> Nat]
  /\ hpc \in [Conns -> [1 .. MaxPackets -> HLabels]] /\ pc \in [Procs -> Labels]

\* A server that StartWithListener has started, or one that is only given connections.
Init ==
  /\ concurrency \in Modes
  /\ shutdown = FALSE /\ cancelled = FALSE /\ connMu = None /\ connections = {}
  /\ listening \in BOOLEAN /\ wg = (IF listening THEN {"listener"} ELSE {}) /\ limiter = 0
  /\ open = [c \in Conns |-> FALSE]
  /\ sent = [c \in Conns |-> 0] /\ taken = [c \in Conns |-> 0]
  /\ swapped = [c \in Conns |-> FALSE] /\ done = [c \in Conns |-> FALSE]
  /\ reported = [c \in Conns |-> 0]
  /\ hpc = [c \in Conns |-> [n \in 1 .. MaxPackets |-> "None"]]
  /\ pc = [p \in Procs |-> CASE p = "listener" /\ listening -> "Accept"
                             [] p = "listener" /\ ~listening -> "Exit"
                             [] p \in Conns -> "New"
                             [] OTHER -> "Idle"]

Goto(p, label) == pc' = [pc EXCEPT ![p] = label]
Set(f, c, v) == [f EXCEPT ![c] = v]

-----------------------------------------------------------------------------
\* Async (external to server.go): a packet arrives; the connection fails and closes itself.
Arrive(c) ==
  /\ open[c] /\ sent[c] < MaxPackets /\ sent' = Set(sent, c, sent[c] + 1)
  /\ UNCHANGED <<concurrency, sharedVars, limiter, open, taken, localVars, hpc, pc>>

ConnFails(c) ==
  /\ open[c] /\ pc[c] # "Start" /\ open' = Set(open, c, FALSE)
  /\ UNCHANGED <<concurrency, sharedVars, limiter, sent, taken, localVars, hpc, pc>>

\* The context given to NewServer is cancelled.
ContextDone ==
  /\ ~cancelled /\ cancelled' = TRUE
  /\ UNCHANGED <<concurrency, shutdown, connMu, connections, wg, listening, limiter, peerVars,
                 localVars, hpc, pc>>

-----------------------------------------------------------------------------
\* ServeConn: wg.Add and a goroutine for the connection.
ServeConn(c) ==
  /\ pc[c] = "New"
  /\ open' = Set(open, c, TRUE) /\ wg' = wg \cup {c} /\ Goto(c, "Start")
  /\ UNCHANGED <<concurrency, shutdown, cancelled, connMu, connections, listening, limiter, sent,
                 taken, localVars, hpc>>

\* A user hands over a connection. sync.WaitGroup forbids an Add that races with the
\* Wait of Shutdown, so users stop before that.
CallServeConn(c) == (\A u \in Callers : pc[u] \notin {"Wait", "Stopped"}) /\ ServeConn(c)

\* handleListener: Accept returns a connection.
Accept(c) == pc["listener"] = "Accept" /\ listening /\ ServeConn(c)

\* Mutant of AcceptError: wg.Done is left out when the server is shut down.
AcceptErrorForgotten ==
  /\ pc["listener"] = "Accept" /\ (~listening \/ NetFails)
  /\ \/ wg' = (IF shutdown THEN wg ELSE wg \ {"listener"}) /\ Goto("listener", "Exit")
     \/ ~shutdown /\ Goto("listener", "Sleep") /\ UNCHANGED wg
  /\ UNCHANGED <<concurrency, shutdown, cancelled, connMu, connections, listening, limiter,
                 peerVars, localVars, hpc>>

\* handleListener: Accept returns an error: the server is shut down, or the error is
\* temporary and is followed by a sleep, or the listener gives up.
AcceptError ==
  /\ pc["listener"] = "Accept" /\ (~listening \/ NetFails)
  /\ \/ wg' = wg \ {"listener"} /\ Goto("listener", "Exit")
     \/ ~shutdown /\ Goto("listener", "Sleep") /\ UNCHANGED wg
  /\ UNCHANGED <<concurrency, shutdown, cancelled, connMu, connections, listening, limiter,
                 peerVars, localVars, hpc>>

\* handleListener: the end of the sleep.
Wakeup ==
  /\ pc["listener"] = "Sleep"
  /\ IF shutdown THEN wg' = wg \ {"listener"} /\ Goto("listener", "Exit")
                 ELSE Goto("listener", "Accept") /\ UNCHANGED wg
  /\ UNCHANGED <<concurrency, shutdown, cancelled, connMu, connections, listening, limiter,
                 peerVars, localVars, hpc>>

-----------------------------------------------------------------------------
\* serveConn: SetKeepAlive fails and the net.Conn is closed, or NewAsync takes it over.
Start(c) ==
  /\ pc[c] = "Start"
  /\ \/ NetFails /\ open' = Set(open, c, FALSE) /\ wg' = wg \ {c} /\ Goto(c, "Gone")
     \/ Goto(c, "Register") /\ UNCHANGED <<open, wg>>
  /\ UNCHANGED <<concurrency, shutdown, cancelled, connMu, connections, listening, limiter, sent,
                 taken, localVars, hpc>>

\* Mutant of Register: s.shutdown is not looked at under the lock.
RegisterUnchecked(c) ==
  /\ pc[c] = "Register" /\ connMu = None
  /\ connections' = connections \cup {c} /\ Goto(c, "Read")
  /\ UNCHANGED <<concurrency, shutdown, cancelled, connMu, wg, listening, limiter, peerVars,
                 localVars, hpc>>

\* serveConn: under connectionsMu, register the connection; on a server shut down the
\* goroutine returns and leaves the mutex locked and the connection open.
Register(c) ==
  /\ pc[c] = "Register" /\ connMu = None
  /\ \/ shutdown /\ connMu' = c /\ wg' = wg \ {c} /\ Goto(c, "Gone") /\ UNCHANGED connections
     \/ ~shutdown /\ connections' = connections \cup {c} /\ Goto(c, "Read") /\ UNCHANGED <<connMu, wg>>
  /\ UNCHANGED <<concurrency, shutdown, cancelled, listening, limiter, peerVars, localVars, hpc>>

\* handle*Packet: ReadPacket returns a packet, or fails once a closed connection is drained.
ReadPacket(c) ==
  /\ pc[c] = "Read"
  /\ \/ /\ taken[c] < sent[c] /\ taken' = Set(taken, c, taken[c] + 1)
        /\ Goto(c, IF concurrency = 1 THEN "Handle" ELSE "Dispatch")
     \/ taken[c] = sent[c] /\ ~open[c] /\ Goto(c, "Fail") /\ UNCHANGED taken
  /\ UNCHANGED <<concurrency, sharedVars, limiter, open, sent, localVars, hpc>>

\* handleSinglePacket: the handler runs, its reply is written, its action taken.
Handle(c) ==
  /\ pc[c] = "Handle"
  /\ \/ Goto(c, "Read") /\ UNCHANGED open
     \/ Goto(c, "Fail") /\ UNCHANGED open
     \/ NetFails /\ open' = Set(open, c, FALSE) /\ Goto(c, "Fail")
  /\ UNCHANGED <<concurrency, sharedVars, limiter, sent, taken, localVars, hpc>>

\* Mutant of Dispatch: the token is not waited for.
DispatchUnlimited(c) ==
  /\ pc[c] = "Dispatch" /\ limiter' = (IF Limited THEN limiter + 1 ELSE limiter)
  /\ hpc' = [hpc EXCEPT ![c][taken[c]] = "Run"] /\ Goto(c, "Read")
  /\ UNCHANGED <<concurrency, sharedVars, peerVars, localVars>>

\* handleUnlimitedPacket and handleLimitedPacket: start the handler's goroutine, with a
\* token of s.limiter, or stop because the context is done.
Dispatch(c) ==
  /\ pc[c] = "Dispatch"
  /\ \/ /\ Limited => limiter < concurrency
        /\ limiter' = (IF Limited THEN limiter + 1 ELSE limiter)
        /\ hpc' = [hpc EXCEPT ![c][taken[c]] = "Run"] /\ Goto(c, "Read")
     \/ /\ Limited /\ (cancelled \/ done[c])
        /\ Goto(c, "Fail") /\ UNCHANGED <<limiter, hpc>>
  /\ UNCHANGED <<concurrency, sharedVars, peerVars, localVars>>

\* handle*Packet ends: the connection is closed ...
Fail(c) ==
  /\ pc[c] = "Fail" /\ open' = Set(open, c, FALSE) /\ Goto(c, "Report")
  /\ UNCHANGED <<concurrency, sharedVars, limiter, sent, taken, localVars, hpc>>

\* Mutant of OnClosed: no swap.
OnClosedAlways(c) == swapped' = Set(swapped, c, TRUE) /\ reported' = Set(reported, c, reported[c] + 1)

\* The swap of closed and s.onClosed. handleSinglePacket and a first read that fails
\* have no swap, and no other goroutine that could report.
OnClosed(c) ==
  \/ swapped[c] /\ UNCHANGED <<swapped, reported>>
  \/ ~swapped[c] /\ swapped' = Set(swapped, c, TRUE) /\ reported' = Set(reported, c, reported[c] + 1)

\* ... s.onClosed is called unless a handler has called it, and the context cancelled
\* (it is done already on the way out of Dispatch, and not looked at with one handler).
Report(c) ==
  /\ pc[c] = "Report" /\ OnClosed(c) /\ done' = Set(done, c, TRUE) /\ Goto(c, "Join")
  /\ UNCHANGED <<concurrency, sharedVars, limiter, peerVars, hpc>>

\* Mutant of Join: wg.Wait is left out.
JoinSkipped(c) ==
  /\ pc[c] = "Join" /\ Goto(c, "Unregister")
  /\ UNCHANGED <<concurrency, sharedVars, limiter, peerVars, localVars, hpc>>

\* The wg.Wait of handle*Packet, for the handlers it has started.
Join(c) ==
  /\ pc[c] = "Join" /\ Waited(c) = {} /\ Goto(c, "Unregister")
  /\ UNCHANGED <<concurrency, sharedVars, limiter, peerVars, localVars, hpc>>

\* serveConn: under connectionsMu, delete the connection, unless Shutdown does; wg.Done.
Unregister(c) ==
  /\ pc[c] = "Unregister" /\ connMu = None
  /\ connections' = (IF shutdown THEN connections ELSE connections \ {c})
  /\ wg' = wg \ {c} /\ Goto(c, "Gone")
  /\ UNCHANGED <<concurrency, shutdown, cancelled, connMu, listening, limiter, peerVars,
                 localVars, hpc>>

-----------------------------------------------------------------------------
HGoto(c, n, label) == hpc' = [hpc EXCEPT ![c][n] = label]

\* createHandler: the handler runs and its reply is written. A failed write or the
\* action CLOSE closes the connection; WritePacket may have closed it already.
HandlerRun(c, n) ==
  /\ hpc[c][n] = "Run"
  /\ \/ HGoto(c, n, "Done") /\ UNCHANGED open
     \/ HGoto(c, n, "Close") /\ UNCHANGED open
     \/ NetFails /\ open' = Set(open, c, FALSE) /\ HGoto(c, n, "Close")
  /\ UNCHANGED <<concurrency, sharedVars, limiter, sent, taken, localVars, pc>>

HandlerClose(c, n) ==
  /\ hpc[c][n] = "Close" /\ open' = Set(open, c, FALSE) /\ HGoto(c, n, "Report")
  /\ UNCHANGED <<concurrency, sharedVars, limiter, sent, taken, localVars, pc>>

HandlerReport(c, n) ==
  /\ hpc[c][n] = "Report" /\ OnClosed(c) /\ done' = Set(done, c, TRUE) /\ HGoto(c, n, "Done")
  /\ UNCHANGED <<concurrency, sharedVars, limiter, peerVars, pc>>

\* Mutant of HandlerDone: wg.Done is left out where the connection was closed.
HandlerDoneMissed(c, n) ==
  /\ hpc[c][n] = "Done" /\ open[c] /\ HGoto(c, n, IF Limited THEN "Release" ELSE "Gone")
  /\ UNCHANGED <<concurrency, sharedVars, limiter, peerVars, localVars, pc>>

\* createHandler: wg.Done, and only then the receive from s.limiter.
HandlerDone(c, n) ==
  /\ hpc[c][n] = "Done" /\ HGoto(c, n, IF Limited THEN "Release" ELSE "Gone")
  /\ UNCHANGED <<concurrency, sharedVars, limiter, peerVars, localVars, pc>>

\* Mutant of HandlerRelease: createHandler gives the token back too.
HandlerReleaseTwice(c, n) ==
  /\ hpc[c][n] = "Release" /\ limiter' = limiter - 2 /\ HGoto(c, n, "Gone")
  /\ UNCHANGED <<concurrency, sharedVars, peerVars, localVars, pc>>

HandlerRelease(c, n) ==
  /\ hpc[c][n] = "Release" /\ limiter' = limiter - 1 /\ HGoto(c, n, "Gone")
  /\ UNCHANGED <<concurrency, sharedVars, peerVars, localVars, pc>>

-----------------------------------------------------------------------------
\* Shutdown: the swap of s.shutdown; a second caller returns at once.
ShutdownSwap(u) ==
  /\ pc[u] = "Idle"
  /\ \/ ~shutdown /\ shutdown' = TRUE /\ Goto(u, "Cancel")
     \/ shutdown /\ Goto(u, "Refused") /\ UNCHANGED shutdown
  /\ UNCHANGED <<concurrency, cancelled, connMu, connections, wg, listening, limiter, peerVars,
                 localVars, hpc>>

ShutdownCancel(u) ==
  /\ pc[u] = "Cancel" /\ cancelled' = TRUE /\ Goto(u, "Lock")
  /\ UNCHANGED <<concurrency, shutdown, connMu, connections, wg, listening, limiter, peerVars,
                 localVars, hpc>>

ShutdownLock(u) ==
  /\ pc[u] = "Lock" /\ connMu = None /\ connMu' = u /\ Goto(u, "CloseAll")
  /\ UNCHANGED <<concurrency, shutdown, cancelled, connections, wg, listening, limiter, peerVars,
                 localVars, hpc>>

\* Shutdown: close and delete every connection, then unlock.
ShutdownClose(u) ==
  /\ pc[u] = "CloseAll"
  /\ \/ \E c \in connections : /\ open' = Set(open, c, FALSE) /\ connections' = connections \ {c}
                               /\ UNCHANGED <<pc, connMu>>
     \/ connections = {} /\ connMu' = None /\ Goto(u, "Listener") /\ UNCHANGED <<open, connections>>
  /\ UNCHANGED <<concurrency, shutdown, cancelled, wg, listening, limiter, sent, taken, localVars,
                 hpc>>

ShutdownListener(u) ==
  /\ pc[u] = "Listener" /\ listening' = FALSE /\ Goto(u, "Wait")
  /\ UNCHANGED <<concurrency, shutdown, cancelled, connMu, connections, wg, limiter, peerVars,
                 localVars, hpc>>

\* Mutant of ShutdownWait: the deferred wg.Wait is left out.
ShutdownNoWait(u) ==
  /\ pc[u] = "Wait" /\ Goto(u, "Stopped")
  /\ UNCHANGED <<concurrency, sharedVars, limiter, peerVars, localVars, hpc>>

\* Shutdown: the deferred wg.Wait.
ShutdownWait(u) ==
  /\ pc[u] = "Wait" /\ wg = {} /\ Goto(u, "Stopped")
  /\ UNCHANGED <<concurrency, sharedVars, limiter, peerVars, localVars, hpc>>

-----------------------------------------------------------------------------
ServeStep(c) ==
  \/ Start(c) \/ Register(c) \/ ReadPacket(c) \/ Handle(c) \/ Dispatch(c) \/ Fail(c) \/ Report(c)
  \/ Join(c) \/ Unregister(c)
HandlerStep(c, n) ==
  \/ HandlerRun(c, n) \/ HandlerClose(c, n) \/ HandlerReport(c, n) \/ HandlerDone(c, n)
  \/ HandlerRelease(c, n)
ShutdownStep(u) ==
  \/ ShutdownCancel(u) \/ ShutdownLock(u) \/ ShutdownClose(u) \/ ShutdownListener(u)
  \/ ShutdownWait(u)

Next ==
  \/ \E c \in Conns : Arrive(c) \/ ConnFails(c) \/ Accept(c) \/ CallServeConn(c) \/ ServeStep(c)
  \/ \E h \in Handlers : HandlerStep(h[1], h[2])
  \/ \E u \in Callers : ShutdownSwap(u) \/ ShutdownStep(u)
  \/ AcceptError \/ Wakeup \/ ContextDone

Spec == Init /\ [][Next]_vars

\* Go schedules every goroutine that can run, handlers return, and a closed listener
\* makes Accept return. Peers owe nothing, nobody must call Shutdown.
Fairness ==
  /\ \A c \in Conns : WF_vars(ServeStep(c))
  /\ \A h \in Handlers : WF_vars(HandlerStep(h[1], h[2]))
  /\ \A u \in Callers : WF_vars(ShutdownStep(u))
  /\ WF_vars(~listening /\ AcceptError) /\ WF_vars(Wakeup)

FairSpec == Spec /\ Fairness

=============================================================================
