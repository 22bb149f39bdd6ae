---------------------------- MODULE ServerProofs ----------------------------
(***************************************************************************)
(* The safety properties of the server, for any number of connections,     *)
(* packets and callers of Shutdown and for every concurrency.              *)
(***************************************************************************)
EXTENDS ServerProps, FiniteSetTheorems, TLAPS

ConnLabels == {"New", "Start", "Register", "Read", "Dispatch", "Handle", "Fail", "Report",
               "Join", "Unregister", "Gone"}
CallerLabels == {"Idle", "Cancel", "Lock", "CloseAll", "Listener", "Wait", "Stopped", "Refused"}

\* Where each kind of goroutine is, who is counted by s.wg, and that Shutdown has won the
\* swap before it does anything else.
RoleInv ==
  /\ pc["listener"] \in {"Accept", "Sleep", "Exit"}
  /\ pc["listener"] # "Exit" => "listener" \in wg
  /\ \A c \in Conns : pc[c] \in ConnLabels /\ (pc[c] \notin {"New", "Gone"} => c \in wg)
  /\ \A u \in Callers : /\ pc[u] \in CallerLabels
                        /\ pc[u] # "Idle" => shutdown
                        /\ pc[u] = "Stopped" => wg = {}

\* Who may still report the end of a connection, and which handlers may exist.
CloseInv ==
  \A c \in Conns :
    /\ reported[c] = IF swapped[c] THEN 1 ELSE 0
    /\ swapped[c] => ~open[c]
    /\ pc[c] \in {"Report", "Join", "Unregister"} => ~open[c]
    /\ pc[c] \in {"Join", "Unregister"} => swapped[c]
    /\ pc[c] = "New" => ~swapped[c]
    /\ \A n \in 1 .. MaxPackets :
         /\ hpc[c][n] = "Report" => ~open[c]
         /\ pc[c] \in {"New", "Start", "Register"} => hpc[c][n] = "None"
         /\ pc[c] \in {"Unregister", "Gone"} => hpc[c][n] \in {"None", "Release", "Gone"}

\* A connection that is served and open is in the table Shutdown walks.
TableInv ==
  /\ \A c \in Conns : Served(c) /\ open[c] => c \in connections
  /\ NoStraggler

\* Packets are dispatched in order, each to a goroutine of its own.
SlotInv ==
  \A c \in Conns :
    /\ taken[c] <= sent[c]
    /\ \A n \in 1 .. MaxPackets : /\ n > taken[c] => hpc[c][n] = "None"
                                  /\ hpc[c][n] = "Release" => concurrency > 1
    /\ pc[c] = "Dispatch" => taken[c] \in 1 .. MaxPackets /\ hpc[c][taken[c]] = "None"

\* The tokens of s.limiter are the goroutines of handlers.
TokenInv ==
  /\ IsFiniteSet(Live)
  /\ Limited => limiter = Cardinality(Live) /\ limiter <= concurrency
  /\ ~Limited => limiter = 0

\* TypeOK without the limiter, which is a number of tokens by TokenInv.
ShapeOK ==
  /\ concurrency \in Modes /\ shutdown \in BOOLEAN /\ cancelled \in BOOLEAN
  /\ connMu \in Conns \cup Callers \cup {None} /\ connections \subseteq Conns
  /\ wg \subseteq Conns \cup {"listener"} /\ listening \in BOOLEAN
  /\ open \in [Conns -> BOOLEAN] /\ sent \in [Conns -> 0 .. MaxPackets]
  /\ taken \in [Conns -> 0 .. MaxPackets] /\ swapped \in [Conns -> BOOLEAN]
  /\ done \in [Conns -> BOOLEAN] /\ reported \in [Conns -> Nat]
  /\ hpc \in [Conns -> [1 .. MaxPackets -> HLabels]] /\ pc \in [Procs -> Labels]

SInv == ShapeOK /\ RoleInv /\ CloseInv /\ TableInv /\ SlotInv /\ TokenInv

-----------------------------------------------------------------------------
(* The ways an action of the server may go, one operator each. *)
StartFails(c) ==
  /\ pc[c] = "Start" /\ NetFails
  /\ open' = Set(open, c, FALSE) /\ wg' = wg \ {c} /\ Goto(c, "Gone")
  /\ UNCHANGED <<concurrency, shutdown, cancelled, connMu, connections, listening, limiter, sent,
                 taken, localVars, hpc>>
StartWorks(c) ==
  /\ pc[c] = "Start" /\ Goto(c, "Register")
  /\ UNCHANGED <<concurrency, sharedVars, limiter, peerVars, localVars, hpc>>
RegisterLate(c) ==
  /\ pc[c] = "Register" /\ connMu = None /\ shutdown
  /\ connMu' = c /\ wg' = wg \ {c} /\ Goto(c, "Gone")
  /\ UNCHANGED <<concurrency, shutdown, cancelled, connections, listening, limiter, peerVars,
                 localVars, hpc>>
RegisterWorks(c) ==
  /\ pc[c] = "Register" /\ connMu = None /\ ~shutdown
  /\ connections' = connections \cup {c} /\ Goto(c, "Read")
  /\ UNCHANGED <<concurrency, shutdown, cancelled, connMu, wg, listening, limiter, peerVars,
                 localVars, hpc>>
ReadTakes(c) ==
  /\ pc[c] = "Read" /\ taken[c] < sent[c]
  /\ taken' = Set(taken, c, taken[c] + 1)
  /\ Goto(c, IF concurrency = 1 THEN "Handle" ELSE "Dispatch")
  /\ UNCHANGED <<concurrency, sharedVars, limiter, open, sent, localVars, hpc>>
ReadFails(c) ==
  /\ pc[c] = "Read" /\ taken[c] = sent[c] /\ ~open[c] /\ Goto(c, "Fail")
  /\ UNCHANGED <<concurrency, sharedVars, limiter, peerVars, localVars, hpc>>
HandleGoes(c) ==
  /\ pc[c] = "Handle" /\ \E label \in {"Read", "Fail"} : Goto(c, label)
  /\ UNCHANGED <<concurrency, sharedVars, limiter, peerVars, localVars, hpc>>
HandleFails(c) ==
  /\ pc[c] = "Handle" /\ NetFails
  /\ open' = Set(open, c, FALSE) /\ Goto(c, "Fail")
  /\ UNCHANGED <<concurrency, sharedVars, limiter, sent, taken, localVars, hpc>>
DispatchRuns(c) ==
  /\ pc[c] = "Dispatch" /\ (Limited => limiter < concurrency)
  /\ limiter' = (IF Limited THEN limiter + 1 ELSE limiter)
  /\ hpc' = [hpc EXCEPT ![c][taken[c]] = "Run"] /\ Goto(c, "Read")
  /\ UNCHANGED <<concurrency, sharedVars, peerVars, localVars>>
DispatchStops(c) ==
  /\ pc[c] = "Dispatch" /\ Goto(c, "Fail")
  /\ UNCHANGED <<concurrency, sharedVars, limiter, peerVars, localVars, hpc>>
ReportAgain(c) ==
  /\ pc[c] = "Report" /\ swapped[c]
  /\ done' = Set(done, c, TRUE) /\ Goto(c, "Join")
  /\ UNCHANGED <<concurrency, sharedVars, limiter, peerVars, swapped, reported, hpc>>
ReportFirst(c) ==
  /\ pc[c] = "Report" /\ ~swapped[c]
  /\ swapped' = Set(swapped, c, TRUE) /\ reported' = Set(reported, c, reported[c] + 1)
  /\ done' = Set(done, c, TRUE) /\ Goto(c, "Join")
  /\ UNCHANGED <<concurrency, sharedVars, limiter, peerVars, hpc>>
UnregisterLate(c) ==
  /\ pc[c] = "Unregister" /\ connMu = None /\ shutdown
  /\ wg' = wg \ {c} /\ Goto(c, "Gone")
  /\ UNCHANGED <<concurrency, shutdown, cancelled, connMu, connections, listening, limiter,
                 peerVars, localVars, hpc>>
UnregisterWorks(c) ==
  /\ pc[c] = "Unregister" /\ connMu = None /\ ~shutdown
  /\ connections' = connections \ {c} /\ wg' = wg \ {c} /\ Goto(c, "Gone")
  /\ UNCHANGED <<concurrency, shutdown, cancelled, connMu, listening, limiter, peerVars,
                 localVars, hpc>>
RunGoes(c, n) ==
  /\ hpc[c][n] = "Run" /\ \E label \in {"Done", "Close"} : HGoto(c, n, label)
  /\ UNCHANGED <<concurrency, sharedVars, limiter, peerVars, localVars, pc>>
RunFails(c, n) ==
  /\ hpc[c][n] = "Run" /\ NetFails
  /\ open' = Set(open, c, FALSE) /\ HGoto(c, n, "Close")
  /\ UNCHANGED <<concurrency, sharedVars, limiter, sent, taken, localVars, pc>>
HReportAgain(c, n) ==
  /\ hpc[c][n] = "Report" /\ swapped[c]
  /\ done' = Set(done, c, TRUE) /\ HGoto(c, n, "Done")
  /\ UNCHANGED <<concurrency, sharedVars, limiter, peerVars, swapped, reported, pc>>
HReportFirst(c, n) ==
  /\ hpc[c][n] = "Report" /\ ~swapped[c]
  /\ swapped' = Set(swapped, c, TRUE) /\ reported' = Set(reported, c, reported[c] + 1)
  /\ done' = Set(done, c, TRUE) /\ HGoto(c, n, "Done")
  /\ UNCHANGED <<concurrency, sharedVars, limiter, peerVars, pc>>
DoneReleases(c, n) ==
  /\ hpc[c][n] = "Done" /\ Limited /\ HGoto(c, n, "Release")
  /\ UNCHANGED <<concurrency, sharedVars, limiter, peerVars, localVars, pc>>
DoneEnds(c, n) ==
  /\ hpc[c][n] = "Done" /\ ~Limited /\ HGoto(c, n, "Gone")
  /\ UNCHANGED <<concurrency, sharedVars, limiter, peerVars, localVars, pc>>
SwapWins(u) ==
  /\ pc[u] = "Idle" /\ ~shutdown
  /\ shutdown' = TRUE /\ Goto(u, "Cancel")
  /\ UNCHANGED <<concurrency, cancelled, connMu, connections, wg, listening, limiter, peerVars,
                 localVars, hpc>>
SwapLoses(u) ==
  /\ pc[u] = "Idle" /\ shutdown /\ Goto(u, "Refused")
  /\ UNCHANGED <<concurrency, sharedVars, limiter, peerVars, localVars, hpc>>
CloseOne(u) ==
  /\ pc[u] = "CloseAll"
  /\ \E c \in connections : open' = Set(open, c, FALSE) /\ connections' = connections \ {c}
  /\ UNCHANGED <<concurrency, shutdown, cancelled, connMu, wg, listening, limiter, sent, taken,
                 localVars, hpc, pc>>
CloseEnds(u) ==
  /\ pc[u] = "CloseAll" /\ connections = {}
  /\ connMu' = None /\ Goto(u, "Listener")
  /\ UNCHANGED <<concurrency, shutdown, cancelled, connections, wg, listening, limiter, peerVars,
                 localVars, hpc>>
ListenerExits ==
  /\ pc["listener"] # "Exit"
  /\ wg' = wg \ {"listener"} /\ Goto("listener", "Exit")
  /\ UNCHANGED <<concurrency, shutdown, cancelled, connMu, connections, listening, limiter,
                 peerVars, localVars, hpc>>
ListenerStays ==
  /\ pc["listener"] # "Exit"
  /\ \E label \in {"Sleep", "Accept"} : Goto("listener", label)
  /\ UNCHANGED <<concurrency, sharedVars, limiter, peerVars, localVars, hpc>>

ConnCase(c) ==
  \/ Arrive(c) \/ ConnFails(c) \/ Accept(c) \/ CallServeConn(c)
  \/ StartFails(c) \/ StartWorks(c) \/ RegisterLate(c) \/ RegisterWorks(c)
  \/ ReadTakes(c) \/ ReadFails(c) \/ HandleGoes(c) \/ HandleFails(c)
  \/ DispatchRuns(c) \/ DispatchStops(c) \/ Fail(c) \/ ReportAgain(c)
  \/ ReportFirst(c) \/ Join(c) \/ UnregisterLate(c) \/ UnregisterWorks(c)
HandlerCase(c, n) ==
  \/ RunGoes(c, n) \/ RunFails(c, n) \/ HandlerClose(c, n) \/ HReportAgain(c, n)
  \/ HReportFirst(c, n) \/ DoneReleases(c, n) \/ DoneEnds(c, n) \/ HandlerRelease(c, n)
CallerCase(u) ==
  \/ SwapWins(u) \/ SwapLoses(u) \/ ShutdownCancel(u) \/ ShutdownLock(u)
  \/ CloseOne(u) \/ CloseEnds(u) \/ ShutdownListener(u) \/ ShutdownWait(u)
ListenerCase ==
  \/ ListenerExits \/ ListenerStays \/ ContextDone

\* Every step goes one of these ways.
LEMMA Cases ==
  ASSUME [Next]_vars
  PROVE  \/ \E c \in Conns : ConnCase(c) \/ \E n \in 1 .. MaxPackets : HandlerCase(c, n)
         \/ \E u \in Callers : CallerCase(u)
         \/ ListenerCase \/ UNCHANGED vars
<1>1. ASSUME NEW c \in Conns, Arrive(c) PROVE ConnCase(c)
  BY ZenonT(60), <1>1 DEF ConnCase
<1>2. ASSUME NEW c \in Conns, ConnFails(c) PROVE ConnCase(c)
  BY ZenonT(60), <1>2 DEF ConnCase
<1>3. ASSUME NEW c \in Conns, Accept(c) PROVE ConnCase(c)
  BY ZenonT(60), <1>3 DEF ConnCase
<1>4. ASSUME NEW c \in Conns, CallServeConn(c) PROVE ConnCase(c)
  BY ZenonT(60), <1>4 DEF ConnCase
<1>5. ASSUME NEW c \in Conns, Start(c) PROVE ConnCase(c)
  BY ZenonT(60), <1>5 DEF ConnCase, Start, StartFails, StartWorks, Goto, sharedVars, peerVars
<1>6. ASSUME NEW c \in Conns, Register(c) PROVE ConnCase(c)
  BY ZenonT(60), <1>6 DEF ConnCase, Register, RegisterLate, RegisterWorks, sharedVars
<1>7. ASSUME NEW c \in Conns, ReadPacket(c) PROVE ConnCase(c)
  BY ZenonT(60), <1>7 DEF ConnCase, ReadPacket, ReadTakes, ReadFails, peerVars
<1>8. ASSUME NEW c \in Conns, Handle(c) PROVE ConnCase(c)
  BY ZenonT(60), <1>8 DEF ConnCase, Handle, HandleGoes, HandleFails, peerVars, Goto
<1>9. ASSUME NEW c \in Conns, Dispatch(c) PROVE ConnCase(c)
  BY ZenonT(60), <1>9 DEF ConnCase, Dispatch, DispatchRuns, DispatchStops
<1>10. ASSUME NEW c \in Conns, Fail(c) PROVE ConnCase(c)
  BY ZenonT(60), <1>10 DEF ConnCase
<1>11. ASSUME NEW c \in Conns, Report(c) PROVE ConnCase(c)
  BY ZenonT(60), <1>11 DEF ConnCase, Report, ReportAgain, ReportFirst, OnClosed
<1>12. ASSUME NEW c \in Conns, Join(c) PROVE ConnCase(c)
  BY ZenonT(60), <1>12 DEF ConnCase
<1>13. ASSUME NEW c \in Conns, Unregister(c) PROVE ConnCase(c)
  BY ZenonT(60), <1>13 DEF ConnCase, Unregister, UnregisterLate, UnregisterWorks
<1>14. ASSUME NEW c \in Conns, NEW n \in 1 .. MaxPackets, HandlerRun(c, n)
       PROVE  HandlerCase(c, n)
  BY ZenonT(60), <1>14 DEF HandlerCase, HandlerRun, RunGoes, RunFails, HGoto, peerVars
<1>15. ASSUME NEW c \in Conns, NEW n \in 1 .. MaxPackets, HandlerClose(c, n)
       PROVE  HandlerCase(c, n)
  BY ZenonT(60), <1>15 DEF HandlerCase
<1>16. ASSUME NEW c \in Conns, NEW n \in 1 .. MaxPackets, HandlerReport(c, n)
       PROVE  HandlerCase(c, n)
  BY ZenonT(60), <1>16 DEF HandlerCase, HandlerReport, HReportAgain, HReportFirst, OnClosed
<1>17. ASSUME NEW c \in Conns, NEW n \in 1 .. MaxPackets, HandlerDone(c, n)
       PROVE  HandlerCase(c, n)
  BY ZenonT(60), <1>17 DEF HandlerCase, HandlerDone, DoneReleases, DoneEnds
<1>18. ASSUME NEW c \in Conns, NEW n \in 1 .. MaxPackets, HandlerRelease(c, n)
       PROVE  HandlerCase(c, n)
  BY ZenonT(60), <1>18 DEF HandlerCase
<1>19. ASSUME NEW u \in Callers, ShutdownSwap(u) PROVE CallerCase(u)
  BY ZenonT(60), <1>19 DEF CallerCase, ShutdownSwap, SwapWins, SwapLoses, sharedVars
<1>20. ASSUME NEW u \in Callers, ShutdownCancel(u) PROVE CallerCase(u)
  BY ZenonT(60), <1>20 DEF CallerCase
<1>21. ASSUME NEW u \in Callers, ShutdownLock(u) PROVE CallerCase(u)
  BY ZenonT(60), <1>21 DEF CallerCase
<1>22. ASSUME NEW u \in Callers, ShutdownClose(u) PROVE CallerCase(u)
  BY ZenonT(60), <1>22 DEF CallerCase, ShutdownClose, CloseOne, CloseEnds, peerVars
<1>23. ASSUME NEW u \in Callers, ShutdownListener(u) PROVE CallerCase(u)
  BY ZenonT(60), <1>23 DEF CallerCase
<1>24. ASSUME NEW u \in Callers, ShutdownWait(u) PROVE CallerCase(u)
  BY ZenonT(60), <1>24 DEF CallerCase
<1>25. ASSUME AcceptError PROVE ListenerCase
  BY ZenonT(60), <1>25 DEF ListenerCase, AcceptError, ListenerExits, ListenerStays, sharedVars,
         Goto
<1>26. ASSUME Wakeup PROVE ListenerCase
  BY ZenonT(60), <1>26 DEF ListenerCase, Wakeup, ListenerExits, ListenerStays, sharedVars, Goto
<1>27. ASSUME ContextDone PROVE ListenerCase
  BY ZenonT(60), <1>27 DEF ListenerCase
<1>h. ASSUME NEW h \in Handlers, HandlerStep(h[1], h[2])
      PROVE  \E c \in Conns, n \in 1 .. MaxPackets : HandlerCase(c, n)
  <2>1. h[1] \in Conns /\ h[2] \in 1 .. MaxPackets BY SMTT(60) DEF Handlers
  <2> QED BY ZenonT(60), <1>h, <2>1, <1>14, <1>15, <1>16, <1>17, <1>18 DEF HandlerStep
<1> QED BY ZenonT(60), <1>h, <1>1, <1>2, <1>3, <1>4, <1>5, <1>6, <1>7, <1>8, <1>9, <1>10,
       <1>11, <1>12, <1>13, <1>19, <1>20, <1>21, <1>22, <1>23, <1>24, <1>25, <1>26, <1>27 DEF
       Next, ServeStep, ShutdownStep

-----------------------------------------------------------------------------
\* Every step keeps the types: a packet is taken only after it was sent.
LEMMA ShapeStep ==
  ASSUME ShapeOK, SlotInv, [Next]_vars
  PROVE  ShapeOK'
<1> USE ConnsAssumption, ServerBoundsAssumption
<1> USE DEF ShapeOK, SlotInv, Procs, Labels, HLabels
<1>1. ASSUME NEW c \in Conns, Arrive(c) PROVE ShapeOK'
  BY SMTT(60), <1>1 DEF Arrive, Goto, Set, sharedVars, peerVars, localVars
<1>2. ASSUME NEW c \in Conns, ConnFails(c) PROVE ShapeOK'
  BY SMTT(60), <1>2 DEF ConnFails, Goto, Set, sharedVars, peerVars, localVars
<1>3. ASSUME NEW c \in Conns, Accept(c) PROVE ShapeOK'
  BY SMTT(60), <1>3 DEF Accept, ServeConn, Goto, Set, sharedVars, peerVars, localVars
<1>4. ASSUME NEW c \in Conns, CallServeConn(c) PROVE ShapeOK'
  BY SMTT(60), <1>4 DEF CallServeConn, ServeConn, Goto, Set, sharedVars, peerVars, localVars
<1>5. ASSUME NEW c \in Conns, StartFails(c) PROVE ShapeOK'
  BY SMTT(60), <1>5 DEF StartFails, Goto, Set, sharedVars, peerVars, localVars
<1>6. ASSUME NEW c \in Conns, StartWorks(c) PROVE ShapeOK'
  BY SMTT(60), <1>6 DEF StartWorks, Goto, Set, sharedVars, peerVars, localVars
<1>7. ASSUME NEW c \in Conns, RegisterLate(c) PROVE ShapeOK'
  BY SMTT(60), <1>7 DEF RegisterLate, Goto, Set, sharedVars, peerVars, localVars
<1>8. ASSUME NEW c \in Conns, RegisterWorks(c) PROVE ShapeOK'
  BY SMTT(60), <1>8 DEF RegisterWorks, Goto, Set, sharedVars, peerVars, localVars
<1>9. ASSUME NEW c \in Conns, ReadTakes(c) PROVE ShapeOK'
  BY SMTT(60), <1>9 DEF ReadTakes, Goto, Set, sharedVars, peerVars, localVars
<1>10. ASSUME NEW c \in Conns, ReadFails(c) PROVE ShapeOK'
  BY SMTT(60), <1>10 DEF ReadFails, Goto, Set, sharedVars, peerVars, localVars
<1>11. ASSUME NEW c \in Conns, HandleGoes(c) PROVE ShapeOK'
  BY SMTT(60), <1>11 DEF HandleGoes, Goto, Set, sharedVars, peerVars, localVars
<1>12. ASSUME NEW c \in Conns, HandleFails(c) PROVE ShapeOK'
  BY SMTT(60), <1>12 DEF HandleFails, Goto, Set, sharedVars, peerVars, localVars
<1>13. ASSUME NEW c \in Conns, DispatchRuns(c) PROVE ShapeOK'
  BY SMTT(60), <1>13 DEF DispatchRuns, Limited, Goto, Set, sharedVars, peerVars, localVars
<1>14. ASSUME NEW c \in Conns, DispatchStops(c) PROVE ShapeOK'
  BY SMTT(60), <1>14 DEF DispatchStops, Goto, Set, sharedVars, peerVars, localVars
<1>15. ASSUME NEW c \in Conns, Fail(c) PROVE ShapeOK'
  BY SMTT(60), <1>15 DEF Fail, Goto, Set, sharedVars, peerVars, localVars
<1>16. ASSUME NEW c \in Conns, ReportAgain(c) PROVE ShapeOK'
  BY SMTT(60), <1>16 DEF ReportAgain, Goto, Set, sharedVars, peerVars, localVars
<1>17. ASSUME NEW c \in Conns, ReportFirst(c) PROVE ShapeOK'
  BY SMTT(60), <1>17 DEF ReportFirst, Goto, Set, sharedVars, peerVars, localVars
<1>18. ASSUME NEW c \in Conns, Join(c) PROVE ShapeOK'
  BY SMTT(60), <1>18 DEF Join, Waited, Goto, Set, sharedVars, peerVars, localVars
<1>19. ASSUME NEW c \in Conns, UnregisterLate(c) PROVE ShapeOK'
  BY SMTT(60), <1>19 DEF UnregisterLate, Goto, Set, sharedVars, peerVars, localVars
<1>20. ASSUME NEW c \in Conns, UnregisterWorks(c) PROVE ShapeOK'
  BY SMTT(60), <1>20 DEF UnregisterWorks, Goto, Set, sharedVars, peerVars, localVars
<1>21. ASSUME NEW c \in Conns, NEW n \in 1 .. MaxPackets, RunGoes(c, n) PROVE ShapeOK'
  BY SMTT(60), <1>21 DEF RunGoes, HGoto, Set, sharedVars, peerVars, localVars
<1>22. ASSUME NEW c \in Conns, NEW n \in 1 .. MaxPackets, RunFails(c, n) PROVE ShapeOK'
  BY SMTT(60), <1>22 DEF RunFails, HGoto, Set, sharedVars, peerVars, localVars
<1>23. ASSUME NEW c \in Conns, NEW n \in 1 .. MaxPackets, HandlerClose(c, n) PROVE ShapeOK'
  BY SMTT(60), <1>23 DEF HandlerClose, HGoto, Set, sharedVars, peerVars, localVars
<1>24. ASSUME NEW c \in Conns, NEW n \in 1 .. MaxPackets, HReportAgain(c, n) PROVE ShapeOK'
  BY SMTT(60), <1>24 DEF HReportAgain, HGoto, Set, sharedVars, peerVars, localVars
<1>25. ASSUME NEW c \in Conns, NEW n \in 1 .. MaxPackets, HReportFirst(c, n) PROVE ShapeOK'
  BY SMTT(60), <1>25 DEF HReportFirst, HGoto, Set, sharedVars, peerVars, localVars
<1>26. ASSUME NEW c \in Conns, NEW n \in 1 .. MaxPackets, DoneReleases(c, n) PROVE ShapeOK'
  BY SMTT(60), <1>26 DEF DoneReleases, Limited, HGoto, Set, sharedVars, peerVars, localVars
<1>27. ASSUME NEW c \in Conns, NEW n \in 1 .. MaxPackets, DoneEnds(c, n) PROVE ShapeOK'
  BY SMTT(60), <1>27 DEF DoneEnds, Limited, HGoto, Set, sharedVars, peerVars, localVars
<1>28. ASSUME NEW c \in Conns, NEW n \in 1 .. MaxPackets, HandlerRelease(c, n) PROVE ShapeOK'
  BY SMTT(60), <1>28 DEF HandlerRelease, HGoto, Set, sharedVars, peerVars, localVars
<1>29. ASSUME NEW u \in Callers, SwapWins(u) PROVE ShapeOK'
  BY SMTT(60), <1>29 DEF SwapWins, Goto, Set, sharedVars, peerVars, localVars
<1>30. ASSUME NEW u \in Callers, SwapLoses(u) PROVE ShapeOK'
  BY SMTT(60), <1>30 DEF SwapLoses, Goto, Set, sharedVars, peerVars, localVars
<1>31. ASSUME NEW u \in Callers, ShutdownCancel(u) PROVE ShapeOK'
  BY SMTT(60), <1>31 DEF ShutdownCancel, Goto, Set, sharedVars, peerVars, localVars
<1>32. ASSUME NEW u \in Callers, ShutdownLock(u) PROVE ShapeOK'
  BY SMTT(60), <1>32 DEF ShutdownLock, Goto, Set, sharedVars, peerVars, localVars
<1>33. ASSUME NEW u \in Callers, CloseOne(u) PROVE ShapeOK'
  BY SMTT(60), <1>33 DEF CloseOne, Goto, Set, sharedVars, peerVars, localVars
<1>34. ASSUME NEW u \in Callers, CloseEnds(u) PROVE ShapeOK'
  BY SMTT(60), <1>34 DEF CloseEnds, Goto, Set, sharedVars, peerVars, localVars
<1>35. ASSUME NEW u \in Callers, ShutdownListener(u) PROVE ShapeOK'
  <2>1. pc' \in [Procs -> Labels] BY SMTT(60), <1>35 DEF ShutdownListener, Goto
  <2> QED BY ZenonT(60), <1>35, <2>1 DEF ShutdownListener, sharedVars, peerVars, localVars
<1>36. ASSUME NEW u \in Callers, ShutdownWait(u) PROVE ShapeOK'
  BY SMTT(60), <1>36 DEF ShutdownWait, Goto, Set, sharedVars, peerVars, localVars
<1>37. ASSUME ListenerExits PROVE ShapeOK'
  BY SMTT(60), <1>37 DEF ListenerExits, Goto, Set, sharedVars, peerVars, localVars
<1>38. ASSUME ListenerStays PROVE ShapeOK'
  BY SMTT(60), <1>38 DEF ListenerStays, Goto, Set, sharedVars, peerVars, localVars
<1>39. ASSUME ContextDone PROVE ShapeOK'
  BY SMTT(60), <1>39 DEF ContextDone, Goto, Set, sharedVars, peerVars, localVars
<1>40. ASSUME UNCHANGED vars PROVE ShapeOK'
  BY SMTT(60), <1>40 DEF vars, sharedVars, peerVars, localVars
<1> HIDE DEF ShapeOK, SlotInv, Procs, Labels, HLabels
<1> QED BY ZenonT(60), Cases, <1>1, <1>2, <1>3, <1>4, <1>5, <1>6, <1>7, <1>8, <1>9, <1>10,
       <1>11, <1>12, <1>13, <1>14, <1>15, <1>16, <1>17, <1>18, <1>19, <1>20, <1>21, <1>22,
       <1>23, <1>24, <1>25, <1>26, <1>27, <1>28, <1>29, <1>30, <1>31, <1>32, <1>33, <1>34,
       <1>35, <1>36, <1>37, <1>38, <1>39, <1>40 DEF ConnCase, HandlerCase, CallerCase,
       ListenerCase

\* Every step keeps each goroutine in its role and counted by s.wg.
LEMMA RoleStep ==
  ASSUME ShapeOK, RoleInv, [Next]_vars
  PROVE  RoleInv'
<1> USE ConnsAssumption, ServerBoundsAssumption
<1> USE DEF ShapeOK, RoleInv, Procs, ConnLabels, CallerLabels
<1>1. ASSUME NEW c \in Conns, Arrive(c) PROVE RoleInv'
  BY SMTT(60), <1>1 DEF Arrive, Goto, Set, sharedVars, peerVars, localVars
<1>2. ASSUME NEW c \in Conns, ConnFails(c) PROVE RoleInv'
  BY SMTT(60), <1>2 DEF ConnFails, Goto, Set, sharedVars, peerVars, localVars
<1>3. ASSUME NEW c \in Conns, Accept(c) PROVE RoleInv'
  BY SMTT(60), <1>3 DEF Accept, ServeConn, Goto, Set, sharedVars, peerVars, localVars
<1>4. ASSUME NEW c \in Conns, CallServeConn(c) PROVE RoleInv'
  BY SMTT(60), <1>4 DEF CallServeConn, ServeConn, Goto, Set, sharedVars, peerVars, localVars
<1>5. ASSUME NEW c \in Conns, StartFails(c) PROVE RoleInv'
  BY SMTT(60), <1>5 DEF StartFails, Goto, Set, sharedVars, peerVars, localVars
<1>6. ASSUME NEW c \in Conns, StartWorks(c) PROVE RoleInv'
  BY SMTT(60), <1>6 DEF StartWorks, Goto, Set, sharedVars, peerVars, localVars
<1>7. ASSUME NEW c \in Conns, RegisterLate(c) PROVE RoleInv'
  BY SMTT(60), <1>7 DEF RegisterLate, Goto, Set, sharedVars, peerVars, localVars
<1>8. ASSUME NEW c \in Conns, RegisterWorks(c) PROVE RoleInv'
  BY SMTT(60), <1>8 DEF RegisterWorks, Goto, Set, sharedVars, peerVars, localVars
<1>9. ASSUME NEW c \in Conns, ReadTakes(c) PROVE RoleInv'
  BY SMTT(60), <1>9 DEF ReadTakes, Goto, Set, sharedVars, peerVars, localVars
<1>10. ASSUME NEW c \in Conns, ReadFails(c) PROVE RoleInv'
  BY SMTT(60), <1>10 DEF ReadFails, Goto, Set, sharedVars, peerVars, localVars
<1>11. ASSUME NEW c \in Conns, HandleGoes(c) PROVE RoleInv'
  BY SMTT(60), <1>11 DEF HandleGoes, Goto, Set, sharedVars, peerVars, localVars
<1>12. ASSUME NEW c \in Conns, HandleFails(c) PROVE RoleInv'
  BY SMTT(60), <1>12 DEF HandleFails, Goto, Set, sharedVars, peerVars, localVars
<1>13. ASSUME NEW c \in Conns, DispatchRuns(c) PROVE RoleInv'
  BY SMTT(60), <1>13 DEF DispatchRuns, Limited, Goto, Set, sharedVars, peerVars, localVars
<1>14. ASSUME NEW c \in Conns, DispatchStops(c) PROVE RoleInv'
  BY SMTT(60), <1>14 DEF DispatchStops, Goto, Set, sharedVars, peerVars, localVars
<1>15. ASSUME NEW c \in Conns, Fail(c) PROVE RoleInv'
  BY SMTT(60), <1>15 DEF Fail, Goto, Set, sharedVars, peerVars, localVars
<1>16. ASSUME NEW c \in Conns, ReportAgain(c) PROVE RoleInv'
  BY SMTT(60), <1>16 DEF ReportAgain, Goto, Set, sharedVars, peerVars, localVars
<1>17. ASSUME NEW c \in Conns, ReportFirst(c) PROVE RoleInv'
  BY SMTT(60), <1>17 DEF ReportFirst, Goto, Set, sharedVars, peerVars, localVars
<1>18. ASSUME NEW c \in Conns, Join(c) PROVE RoleInv'
  BY SMTT(60), <1>18 DEF Join, Waited, Goto, Set, sharedVars, peerVars, localVars
<1>19. ASSUME NEW c \in Conns, UnregisterLate(c) PROVE RoleInv'
  BY SMTT(60), <1>19 DEF UnregisterLate, Goto, Set, sharedVars, peerVars, localVars
<1>20. ASSUME NEW c \in Conns, UnregisterWorks(c) PROVE RoleInv'
  BY SMTT(60), <1>20 DEF UnregisterWorks, Goto, Set, sharedVars, peerVars, localVars
<1>21. ASSUME NEW c \in Conns, NEW n \in 1 .. MaxPackets, RunGoes(c, n) PROVE RoleInv'
  BY SMTT(60), <1>21 DEF RunGoes, HGoto, Set, sharedVars, peerVars, localVars
<1>22. ASSUME NEW c \in Conns, NEW n \in 1 .. MaxPackets, RunFails(c, n) PROVE RoleInv'
  BY SMTT(60), <1>22 DEF RunFails, HGoto, Set, sharedVars, peerVars, localVars
<1>23. ASSUME NEW c \in Conns, NEW n \in 1 .. MaxPackets, HandlerClose(c, n) PROVE RoleInv'
  BY SMTT(60), <1>23 DEF HandlerClose, HGoto, Set, sharedVars, peerVars, localVars
<1>24. ASSUME NEW c \in Conns, NEW n \in 1 .. MaxPackets, HReportAgain(c, n) PROVE RoleInv'
  BY SMTT(60), <1>24 DEF HReportAgain, HGoto, Set, sharedVars, peerVars, localVars
<1>25. ASSUME NEW c \in Conns, NEW n \in 1 .. MaxPackets, HReportFirst(c, n) PROVE RoleInv'
  BY SMTT(60), <1>25 DEF HReportFirst, HGoto, Set, sharedVars, peerVars, localVars
<1>26. ASSUME NEW c \in Conns, NEW n \in 1 .. MaxPackets, DoneReleases(c, n) PROVE RoleInv'
  BY SMTT(60), <1>26 DEF DoneReleases, Limited, HGoto, Set, sharedVars, peerVars, localVars
<1>27. ASSUME NEW c \in Conns, NEW n \in 1 .. MaxPackets, DoneEnds(c, n) PROVE RoleInv'
  BY SMTT(60), <1>27 DEF DoneEnds, Limited, HGoto, Set, sharedVars, peerVars, localVars
<1>28. ASSUME NEW c \in Conns, NEW n \in 1 .. MaxPackets, HandlerRelease(c, n) PROVE RoleInv'
  BY SMTT(60), <1>28 DEF HandlerRelease, HGoto, Set, sharedVars, peerVars, localVars
<1>29. ASSUME NEW u \in Callers, SwapWins(u) PROVE RoleInv'
  BY SMTT(60), <1>29 DEF SwapWins, Goto, Set, sharedVars, peerVars, localVars
<1>30. ASSUME NEW u \in Callers, SwapLoses(u) PROVE RoleInv'
  BY SMTT(60), <1>30 DEF SwapLoses, Goto, Set, sharedVars, peerVars, localVars
<1>31. ASSUME NEW u \in Callers, ShutdownCancel(u) PROVE RoleInv'
  BY SMTT(60), <1>31 DEF ShutdownCancel, Goto, Set, sharedVars, peerVars, localVars
<1>32. ASSUME NEW u \in Callers, ShutdownLock(u) PROVE RoleInv'
  BY SMTT(60), <1>32 DEF ShutdownLock, Goto, Set, sharedVars, peerVars, localVars
<1>33. ASSUME NEW u \in Callers, CloseOne(u) PROVE RoleInv'
  BY SMTT(60), <1>33 DEF CloseOne, Goto, Set, sharedVars, peerVars, localVars
<1>34. ASSUME NEW u \in Callers, CloseEnds(u) PROVE RoleInv'
  BY SMTT(60), <1>34 DEF CloseEnds, Goto, Set, sharedVars, peerVars, localVars
<1>35. ASSUME NEW u \in Callers, ShutdownListener(u) PROVE RoleInv'
  BY SMTT(60), <1>35 DEF ShutdownListener, Goto, Set, sharedVars, peerVars, localVars
<1>36. ASSUME NEW u \in Callers, ShutdownWait(u) PROVE RoleInv'
  BY SMTT(60), <1>36 DEF ShutdownWait, Goto, Set, sharedVars, peerVars, localVars
<1>37. ASSUME ListenerExits PROVE RoleInv'
  BY SMTT(60), <1>37 DEF ListenerExits, Goto, Set, sharedVars, peerVars, localVars
<1>38. ASSUME ListenerStays PROVE RoleInv'
  BY SMTT(60), <1>38 DEF ListenerStays, Goto, Set, sharedVars, peerVars, localVars
<1>39. ASSUME ContextDone PROVE RoleInv'
  BY SMTT(60), <1>39 DEF ContextDone, Goto, Set, sharedVars, peerVars, localVars
<1>40. ASSUME UNCHANGED vars PROVE RoleInv'
  BY SMTT(60), <1>40 DEF vars, sharedVars, peerVars, localVars
<1> HIDE DEF ShapeOK, RoleInv, Procs, ConnLabels, CallerLabels
<1> QED BY ZenonT(60), Cases, <1>1, <1>2, <1>3, <1>4, <1>5, <1>6, <1>7, <1>8, <1>9, <1>10,
       <1>11, <1>12, <1>13, <1>14, <1>15, <1>16, <1>17, <1>18, <1>19, <1>20, <1>21, <1>22,
       <1>23, <1>24, <1>25, <1>26, <1>27, <1>28, <1>29, <1>30, <1>31, <1>32, <1>33, <1>34,
       <1>35, <1>36, <1>37, <1>38, <1>39, <1>40 DEF ConnCase, HandlerCase, CallerCase,
       ListenerCase

\* Every step keeps the order of closing, reporting and joining.
LEMMA CloseStep ==
  ASSUME ShapeOK, RoleInv, CloseInv, [Next]_vars
  PROVE  CloseInv'
<1>t. /\ open \in [Conns -> BOOLEAN] /\ swapped \in [Conns -> BOOLEAN] /\ reported \in [Conns -> Nat]
      /\ taken \in [Conns -> 0 .. MaxPackets] /\ hpc \in [Conns -> [1 .. MaxPackets -> HLabels]]
      /\ pc \in [Procs -> Labels]
  BY ZenonT(60) DEF ShapeOK
<1>h. \A c \in Conns, n \in 1 .. MaxPackets : hpc[c][n] \in HLabels
  <2>1. hpc \in [Conns -> [1 .. MaxPackets -> HLabels]] BY ZenonT(60), <1>t
  <2>2. \A c \in Conns : hpc[c] \in [1 .. MaxPackets -> HLabels] BY ZenonT(60), <2>1
  <2> QED BY ZenonT(60), <2>2
<1> USE ConnsAssumption, <1>t DEF CloseInv, Procs
<1>1. ASSUME NEW c \in Conns, Arrive(c) PROVE CloseInv'
  BY SMTT(60), <1>1 DEF Arrive, Goto, Set, sharedVars, peerVars, localVars
<1>2. ASSUME NEW c \in Conns, ConnFails(c) PROVE CloseInv'
  BY SMTT(60), <1>2 DEF ConnFails, Goto, Set, sharedVars, peerVars, localVars
<1>3. ASSUME NEW c \in Conns, Accept(c) PROVE CloseInv'
  BY SMTT(60), <1>3 DEF Accept, ServeConn, Goto, Set, sharedVars, peerVars, localVars
<1>4. ASSUME NEW c \in Conns, CallServeConn(c) PROVE CloseInv'
  BY SMTT(60), <1>4 DEF CallServeConn, ServeConn, Goto, Set, sharedVars, peerVars, localVars
<1>5. ASSUME NEW c \in Conns, StartFails(c) PROVE CloseInv'
  BY SMTT(60), <1>5 DEF StartFails, Goto, Set, sharedVars, peerVars, localVars
<1>6. ASSUME NEW c \in Conns, StartWorks(c) PROVE CloseInv'
  BY SMTT(60), <1>6 DEF StartWorks, Goto, Set, sharedVars, peerVars, localVars
<1>7. ASSUME NEW c \in Conns, RegisterLate(c) PROVE CloseInv'
  BY SMTT(60), <1>7 DEF RegisterLate, Goto, Set, sharedVars, peerVars, localVars
<1>8. ASSUME NEW c \in Conns, RegisterWorks(c) PROVE CloseInv'
  BY SMTT(60), <1>8 DEF RegisterWorks, Goto, Set, sharedVars, peerVars, localVars
<1>9. ASSUME NEW c \in Conns, ReadTakes(c) PROVE CloseInv'
  BY SMTT(60), <1>9 DEF ReadTakes, Goto, Set, sharedVars, peerVars, localVars
<1>10. ASSUME NEW c \in Conns, ReadFails(c) PROVE CloseInv'
  BY SMTT(60), <1>10 DEF ReadFails, Goto, Set, sharedVars, peerVars, localVars
<1>11. ASSUME NEW c \in Conns, HandleGoes(c) PROVE CloseInv'
  BY SMTT(60), <1>11 DEF HandleGoes, Goto, Set, sharedVars, peerVars, localVars
<1>12. ASSUME NEW c \in Conns, HandleFails(c) PROVE CloseInv'
  BY SMTT(60), <1>12 DEF HandleFails, Goto, Set, sharedVars, peerVars, localVars
<1>13. ASSUME NEW c \in Conns, DispatchRuns(c) PROVE CloseInv'
  BY SMTT(60), <1>13 DEF DispatchRuns, Limited, Goto, Set, sharedVars, peerVars, localVars
<1>14. ASSUME NEW c \in Conns, DispatchStops(c) PROVE CloseInv'
  BY SMTT(60), <1>14 DEF DispatchStops, Goto, Set, sharedVars, peerVars, localVars
<1>15. ASSUME NEW c \in Conns, Fail(c) PROVE CloseInv'
  BY SMTT(60), <1>15 DEF Fail, Goto, Set, sharedVars, peerVars, localVars
<1>16. ASSUME NEW c \in Conns, ReportAgain(c) PROVE CloseInv'
  BY SMTT(60), <1>16 DEF ReportAgain, Goto, Set, sharedVars, peerVars, localVars
<1>17. ASSUME NEW c \in Conns, ReportFirst(c) PROVE CloseInv'
  BY SMTT(60), <1>17 DEF ReportFirst, Goto, Set, sharedVars, peerVars, localVars
<1>18. ASSUME NEW c \in Conns, Join(c) PROVE CloseInv'
  <2>1. ASSUME NEW n \in 1 .. MaxPackets PROVE hpc[c][n] \in {"None", "Release", "Gone"}
    <3>1. n \notin Waited(c) BY ZenonT(60), <1>18 DEF Join
    <3>2. hpc[c][n] \notin {"Run", "Close", "Report", "Done"} BY ZenonT(60), <3>1 DEF Waited
    <3>3. hpc[c][n] \in HLabels BY ZenonT(60), <1>h
    <3> QED BY SMTT(60), <3>2, <3>3 DEF HLabels
  <2> QED BY SMTT(60), <1>18, <2>1 DEF Join, Goto, sharedVars, peerVars, localVars
<1>19. ASSUME NEW c \in Conns, UnregisterLate(c) PROVE CloseInv'
  BY SMTT(60), <1>19 DEF UnregisterLate, Goto, Set, sharedVars, peerVars, localVars
<1>20. ASSUME NEW c \in Conns, UnregisterWorks(c) PROVE CloseInv'
  BY SMTT(60), <1>20 DEF UnregisterWorks, Goto, Set, sharedVars, peerVars, localVars
<1>21. ASSUME NEW c \in Conns, NEW n \in 1 .. MaxPackets, RunGoes(c, n) PROVE CloseInv'
  BY SMTT(60), <1>21 DEF RunGoes, HGoto, Set, sharedVars, peerVars, localVars
<1>22. ASSUME NEW c \in Conns, NEW n \in 1 .. MaxPackets, RunFails(c, n) PROVE CloseInv'
  BY SMTT(60), <1>22 DEF RunFails, HGoto, Set, sharedVars, peerVars, localVars
<1>23. ASSUME NEW c \in Conns, NEW n \in 1 .. MaxPackets, HandlerClose(c, n) PROVE CloseInv'
  BY SMTT(60), <1>23 DEF HandlerClose, HGoto, Set, sharedVars, peerVars, localVars
<1>24. ASSUME NEW c \in Conns, NEW n \in 1 .. MaxPackets, HReportAgain(c, n) PROVE CloseInv'
  BY SMTT(60), <1>24 DEF HReportAgain, HGoto, Set, sharedVars, peerVars, localVars
<1>25. ASSUME NEW c \in Conns, NEW n \in 1 .. MaxPackets, HReportFirst(c, n) PROVE CloseInv'
  BY SMTT(60), <1>25 DEF HReportFirst, HGoto, Set, sharedVars, peerVars, localVars
<1>26. ASSUME NEW c \in Conns, NEW n \in 1 .. MaxPackets, DoneReleases(c, n) PROVE CloseInv'
  BY SMTT(60), <1>26 DEF DoneReleases, Limited, HGoto, Set, sharedVars, peerVars, localVars
<1>27. ASSUME NEW c \in Conns, NEW n \in 1 .. MaxPackets, DoneEnds(c, n) PROVE CloseInv'
  BY SMTT(60), <1>27 DEF DoneEnds, Limited, HGoto, Set, sharedVars, peerVars, localVars
<1>28. ASSUME NEW c \in Conns, NEW n \in 1 .. MaxPackets, HandlerRelease(c, n) PROVE CloseInv'
  BY SMTT(60), <1>28 DEF HandlerRelease, HGoto, Set, sharedVars, peerVars, localVars
<1>29. ASSUME NEW u \in Callers, SwapWins(u) PROVE CloseInv'
  BY SMTT(60), <1>29 DEF SwapWins, Goto, Set, sharedVars, peerVars, localVars
<1>30. ASSUME NEW u \in Callers, SwapLoses(u) PROVE CloseInv'
  BY SMTT(60), <1>30 DEF SwapLoses, Goto, Set, sharedVars, peerVars, localVars
<1>31. ASSUME NEW u \in Callers, ShutdownCancel(u) PROVE CloseInv'
  BY SMTT(60), <1>31 DEF ShutdownCancel, Goto, Set, sharedVars, peerVars, localVars
<1>32. ASSUME NEW u \in Callers, ShutdownLock(u) PROVE CloseInv'
  BY SMTT(60), <1>32 DEF ShutdownLock, Goto, Set, sharedVars, peerVars, localVars
<1>33. ASSUME NEW u \in Callers, CloseOne(u) PROVE CloseInv'
  BY SMTT(60), <1>33 DEF CloseOne, Goto, Set, sharedVars, peerVars, localVars
<1>34. ASSUME NEW u \in Callers, CloseEnds(u) PROVE CloseInv'
  BY SMTT(60), <1>34 DEF CloseEnds, Goto, Set, sharedVars, peerVars, localVars
<1>35. ASSUME NEW u \in Callers, ShutdownListener(u) PROVE CloseInv'
  BY SMTT(60), <1>35 DEF ShutdownListener, Goto, Set, sharedVars, peerVars, localVars
<1>36. ASSUME NEW u \in Callers, ShutdownWait(u) PROVE CloseInv'
  BY SMTT(60), <1>36 DEF ShutdownWait, Goto, Set, sharedVars, peerVars, localVars
<1>37. ASSUME ListenerExits PROVE CloseInv'
  BY SMTT(60), <1>37 DEF ListenerExits, Goto, Set, sharedVars, peerVars, localVars
<1>38. ASSUME ListenerStays PROVE CloseInv'
  BY SMTT(60), <1>38 DEF ListenerStays, Goto, Set, sharedVars, peerVars, localVars
<1>39. ASSUME ContextDone PROVE CloseInv'
  BY SMTT(60), <1>39 DEF ContextDone, Goto, Set, sharedVars, peerVars, localVars
<1>40. ASSUME UNCHANGED vars PROVE CloseInv'
  BY SMTT(60), <1>40 DEF vars, sharedVars, peerVars, localVars
<1> HIDE DEF ShapeOK, RoleInv, CloseInv, Procs, ConnLabels, CallerLabels
<1> QED BY ZenonT(60), Cases, <1>1, <1>2, <1>3, <1>4, <1>5, <1>6, <1>7, <1>8, <1>9, <1>10,
       <1>11, <1>12, <1>13, <1>14, <1>15, <1>16, <1>17, <1>18, <1>19, <1>20, <1>21, <1>22,
       <1>23, <1>24, <1>25, <1>26, <1>27, <1>28, <1>29, <1>30, <1>31, <1>32, <1>33, <1>34,
       <1>35, <1>36, <1>37, <1>38, <1>39, <1>40 DEF ConnCase, HandlerCase, CallerCase,
       ListenerCase

\* Every step keeps open connections in the table until Shutdown has emptied it.
LEMMA TableStep ==
  ASSUME ShapeOK, RoleInv, CloseInv, TableInv, [Next]_vars
  PROVE  TableInv'
<1> USE ConnsAssumption, ServerBoundsAssumption
<1> USE DEF ShapeOK, RoleInv, CloseInv, TableInv, NoStraggler, Served, Procs, ConnLabels,
           CallerLabels
<1>1. ASSUME NEW c \in Conns, Arrive(c) PROVE TableInv'
  BY SMTT(60), <1>1 DEF Arrive, Goto, Set, sharedVars, peerVars, localVars
<1>2. ASSUME NEW c \in Conns, ConnFails(c) PROVE TableInv'
  BY SMTT(60), <1>2 DEF ConnFails, Goto, Set, sharedVars, peerVars, localVars
<1>3. ASSUME NEW c \in Conns, Accept(c) PROVE TableInv'
  BY SMTT(60), <1>3 DEF Accept, ServeConn, Goto, Set, sharedVars, peerVars, localVars
<1>4. ASSUME NEW c \in Conns, CallServeConn(c) PROVE TableInv'
  BY SMTT(60), <1>4 DEF CallServeConn, ServeConn, Goto, Set, sharedVars, peerVars, localVars
<1>5. ASSUME NEW c \in Conns, StartFails(c) PROVE TableInv'
  BY SMTT(60), <1>5 DEF StartFails, Goto, Set, sharedVars, peerVars, localVars
<1>6. ASSUME NEW c \in Conns, StartWorks(c) PROVE TableInv'
  BY SMTT(60), <1>6 DEF StartWorks, Goto, Set, sharedVars, peerVars, localVars
<1>7. ASSUME NEW c \in Conns, RegisterLate(c) PROVE TableInv'
  BY SMTT(60), <1>7 DEF RegisterLate, Goto, Set, sharedVars, peerVars, localVars
<1>8. ASSUME NEW c \in Conns, RegisterWorks(c) PROVE TableInv'
  BY SMTT(60), <1>8 DEF RegisterWorks, Goto, Set, sharedVars, peerVars, localVars
<1>9. ASSUME NEW c \in Conns, ReadTakes(c) PROVE TableInv'
  BY SMTT(60), <1>9 DEF ReadTakes, Goto, Set, sharedVars, peerVars, localVars
<1>10. ASSUME NEW c \in Conns, ReadFails(c) PROVE TableInv'
  BY SMTT(60), <1>10 DEF ReadFails, Goto, Set, sharedVars, peerVars, localVars
<1>11. ASSUME NEW c \in Conns, HandleGoes(c) PROVE TableInv'
  BY SMTT(60), <1>11 DEF HandleGoes, Goto, Set, sharedVars, peerVars, localVars
<1>12. ASSUME NEW c \in Conns, HandleFails(c) PROVE TableInv'
  BY SMTT(60), <1>12 DEF HandleFails, Goto, Set, sharedVars, peerVars, localVars
<1>13. ASSUME NEW c \in Conns, DispatchRuns(c) PROVE TableInv'
  BY SMTT(60), <1>13 DEF DispatchRuns, Limited, Goto, Set, sharedVars, peerVars, localVars
<1>14. ASSUME NEW c \in Conns, DispatchStops(c) PROVE TableInv'
  BY SMTT(60), <1>14 DEF DispatchStops, Goto, Set, sharedVars, peerVars, localVars
<1>15. ASSUME NEW c \in Conns, Fail(c) PROVE TableInv'
  BY SMTT(60), <1>15 DEF Fail, Goto, Set, sharedVars, peerVars, localVars
<1>16. ASSUME NEW c \in Conns, ReportAgain(c) PROVE TableInv'
  BY SMTT(60), <1>16 DEF ReportAgain, Goto, Set, sharedVars, peerVars, localVars
<1>17. ASSUME NEW c \in Conns, ReportFirst(c) PROVE TableInv'
  BY SMTT(60), <1>17 DEF ReportFirst, Goto, Set, sharedVars, peerVars, localVars
<1>18. ASSUME NEW c \in Conns, Join(c) PROVE TableInv'
  BY SMTT(60), <1>18 DEF Join, Waited, Goto, Set, sharedVars, peerVars, localVars
<1>19. ASSUME NEW c \in Conns, UnregisterLate(c) PROVE TableInv'
  BY SMTT(60), <1>19 DEF UnregisterLate, Goto, Set, sharedVars, peerVars, localVars
<1>20. ASSUME NEW c \in Conns, UnregisterWorks(c) PROVE TableInv'
  BY SMTT(60), <1>20 DEF UnregisterWorks, Goto, Set, sharedVars, peerVars, localVars
<1>21. ASSUME NEW c \in Conns, NEW n \in 1 .. MaxPackets, RunGoes(c, n) PROVE TableInv'
  BY SMTT(60), <1>21 DEF RunGoes, HGoto, Set, sharedVars, peerVars, localVars
<1>22. ASSUME NEW c \in Conns, NEW n \in 1 .. MaxPackets, RunFails(c, n) PROVE TableInv'
  BY SMTT(60), <1>22 DEF RunFails, HGoto, Set, sharedVars, peerVars, localVars
<1>23. ASSUME NEW c \in Conns, NEW n \in 1 .. MaxPackets, HandlerClose(c, n) PROVE TableInv'
  BY SMTT(60), <1>23 DEF HandlerClose, HGoto, Set, sharedVars, peerVars, localVars
<1>24. ASSUME NEW c \in Conns, NEW n \in 1 .. MaxPackets, HReportAgain(c, n) PROVE TableInv'
  BY SMTT(60), <1>24 DEF HReportAgain, HGoto, Set, sharedVars, peerVars, localVars
<1>25. ASSUME NEW c \in Conns, NEW n \in 1 .. MaxPackets, HReportFirst(c, n) PROVE TableInv'
  BY SMTT(60), <1>25 DEF HReportFirst, HGoto, Set, sharedVars, peerVars, localVars
<1>26. ASSUME NEW c \in Conns, NEW n \in 1 .. MaxPackets, DoneReleases(c, n) PROVE TableInv'
  BY SMTT(60), <1>26 DEF DoneReleases, Limited, HGoto, Set, sharedVars, peerVars, localVars
<1>27. ASSUME NEW c \in Conns, NEW n \in 1 .. MaxPackets, DoneEnds(c, n) PROVE TableInv'
  BY SMTT(60), <1>27 DEF DoneEnds, Limited, HGoto, Set, sharedVars, peerVars, localVars
<1>28. ASSUME NEW c \in Conns, NEW n \in 1 .. MaxPackets, HandlerRelease(c, n) PROVE TableInv'
  BY SMTT(60), <1>28 DEF HandlerRelease, HGoto, Set, sharedVars, peerVars, localVars
<1>29. ASSUME NEW u \in Callers, SwapWins(u) PROVE TableInv'
  BY SMTT(60), <1>29 DEF SwapWins, Goto, Set, sharedVars, peerVars, localVars
<1>30. ASSUME NEW u \in Callers, SwapLoses(u) PROVE TableInv'
  BY SMTT(60), <1>30 DEF SwapLoses, Goto, Set, sharedVars, peerVars, localVars
<1>31. ASSUME NEW u \in Callers, ShutdownCancel(u) PROVE TableInv'
  BY SMTT(60), <1>31 DEF ShutdownCancel, Goto, Set, sharedVars, peerVars, localVars
<1>32. ASSUME NEW u \in Callers, ShutdownLock(u) PROVE TableInv'
  BY SMTT(60), <1>32 DEF ShutdownLock, Goto, Set, sharedVars, peerVars, localVars
<1>33. ASSUME NEW u \in Callers, CloseOne(u) PROVE TableInv'
  BY SMTT(60), <1>33 DEF CloseOne, Goto, Set, sharedVars, peerVars, localVars
<1>34. ASSUME NEW u \in Callers, CloseEnds(u) PROVE TableInv'
  BY SMTT(60), <1>34 DEF CloseEnds, Goto, Set, sharedVars, peerVars, localVars
<1>35. ASSUME NEW u \in Callers, ShutdownListener(u) PROVE TableInv'
  BY SMTT(60), <1>35 DEF ShutdownListener, Goto, Set, sharedVars, peerVars, localVars
<1>36. ASSUME NEW u \in Callers, ShutdownWait(u) PROVE TableInv'
  BY SMTT(60), <1>36 DEF ShutdownWait, Goto, Set, sharedVars, peerVars, localVars
<1>37. ASSUME ListenerExits PROVE TableInv'
  BY SMTT(60), <1>37 DEF ListenerExits, Goto, Set, sharedVars, peerVars, localVars
<1>38. ASSUME ListenerStays PROVE TableInv'
  BY SMTT(60), <1>38 DEF ListenerStays, Goto, Set, sharedVars, peerVars, localVars
<1>39. ASSUME ContextDone PROVE TableInv'
  BY SMTT(60), <1>39 DEF ContextDone, Goto, Set, sharedVars, peerVars, localVars
<1>40. ASSUME UNCHANGED vars PROVE TableInv'
  BY SMTT(60), <1>40 DEF vars, sharedVars, peerVars, localVars
<1> HIDE DEF ShapeOK, RoleInv, CloseInv, TableInv, NoStraggler, Served, Procs, ConnLabels,
           CallerLabels
<1> QED BY ZenonT(60), Cases, <1>1, <1>2, <1>3, <1>4, <1>5, <1>6, <1>7, <1>8, <1>9, <1>10,
       <1>11, <1>12, <1>13, <1>14, <1>15, <1>16, <1>17, <1>18, <1>19, <1>20, <1>21, <1>22,
       <1>23, <1>24, <1>25, <1>26, <1>27, <1>28, <1>29, <1>30, <1>31, <1>32, <1>33, <1>34,
       <1>35, <1>36, <1>37, <1>38, <1>39, <1>40 DEF ConnCase, HandlerCase, CallerCase,
       ListenerCase

\* Every step keeps the slots of packets not yet taken empty.
LEMMA SlotStep ==
  ASSUME ShapeOK, RoleInv, CloseInv, SlotInv, [Next]_vars
  PROVE  SlotInv'
<1> USE ConnsAssumption, ServerBoundsAssumption
<1> USE DEF ShapeOK, RoleInv, CloseInv, SlotInv, Procs, ConnLabels, CallerLabels
<1>1. ASSUME NEW c \in Conns, Arrive(c) PROVE SlotInv'
  BY SMTT(60), <1>1 DEF Arrive, Goto, Set, sharedVars, peerVars, localVars
<1>2. ASSUME NEW c \in Conns, ConnFails(c) PROVE SlotInv'
  BY SMTT(60), <1>2 DEF ConnFails, Goto, Set, sharedVars, peerVars, localVars
<1>3. ASSUME NEW c \in Conns, Accept(c) PROVE SlotInv'
  BY SMTT(60), <1>3 DEF Accept, ServeConn, Goto, Set, sharedVars, peerVars, localVars
<1>4. ASSUME NEW c \in Conns, CallServeConn(c) PROVE SlotInv'
  BY SMTT(60), <1>4 DEF CallServeConn, ServeConn, Goto, Set, sharedVars, peerVars, localVars
<1>5. ASSUME NEW c \in Conns, StartFails(c) PROVE SlotInv'
  BY SMTT(60), <1>5 DEF StartFails, Goto, Set, sharedVars, peerVars, localVars
<1>6. ASSUME NEW c \in Conns, StartWorks(c) PROVE SlotInv'
  BY SMTT(60), <1>6 DEF StartWorks, Goto, Set, sharedVars, peerVars, localVars
<1>7. ASSUME NEW c \in Conns, RegisterLate(c) PROVE SlotInv'
  BY SMTT(60), <1>7 DEF RegisterLate, Goto, Set, sharedVars, peerVars, localVars
<1>8. ASSUME NEW c \in Conns, RegisterWorks(c) PROVE SlotInv'
  BY SMTT(60), <1>8 DEF RegisterWorks, Goto, Set, sharedVars, peerVars, localVars
<1>9. ASSUME NEW c \in Conns, ReadTakes(c) PROVE SlotInv'
  BY SMTT(60), <1>9 DEF ReadTakes, Goto, Set, sharedVars, peerVars, localVars
<1>10. ASSUME NEW c \in Conns, ReadFails(c) PROVE SlotInv'
  BY SMTT(60), <1>10 DEF ReadFails, Goto, Set, sharedVars, peerVars, localVars
<1>11. ASSUME NEW c \in Conns, HandleGoes(c) PROVE SlotInv'
  BY SMTT(60), <1>11 DEF HandleGoes, Goto, Set, sharedVars, peerVars, localVars
<1>12. ASSUME NEW c \in Conns, HandleFails(c) PROVE SlotInv'
  BY SMTT(60), <1>12 DEF HandleFails, Goto, Set, sharedVars, peerVars, localVars
<1>13. ASSUME NEW c \in Conns, DispatchRuns(c) PROVE SlotInv'
  BY SMTT(60), <1>13 DEF DispatchRuns, Limited, Goto, Set, sharedVars, peerVars, localVars
<1>14. ASSUME NEW c \in Conns, DispatchStops(c) PROVE SlotInv'
  BY SMTT(60), <1>14 DEF DispatchStops, Goto, Set, sharedVars, peerVars, localVars
<1>15. ASSUME NEW c \in Conns, Fail(c) PROVE SlotInv'
  BY SMTT(60), <1>15 DEF Fail, Goto, Set, sharedVars, peerVars, localVars
<1>16. ASSUME NEW c \in Conns, ReportAgain(c) PROVE SlotInv'
  BY SMTT(60), <1>16 DEF ReportAgain, Goto, Set, sharedVars, peerVars, localVars
<1>17. ASSUME NEW c \in Conns, ReportFirst(c) PROVE SlotInv'
  BY SMTT(60), <1>17 DEF ReportFirst, Goto, Set, sharedVars, peerVars, localVars
<1>18. ASSUME NEW c \in Conns, Join(c) PROVE SlotInv'
  BY SMTT(60), <1>18 DEF Join, Waited, Goto, Set, sharedVars, peerVars, localVars
<1>19. ASSUME NEW c \in Conns, UnregisterLate(c) PROVE SlotInv'
  BY SMTT(60), <1>19 DEF UnregisterLate, Goto, Set, sharedVars, peerVars, localVars
<1>20. ASSUME NEW c \in Conns, UnregisterWorks(c) PROVE SlotInv'
  BY SMTT(60), <1>20 DEF UnregisterWorks, Goto, Set, sharedVars, peerVars, localVars
<1>21. ASSUME NEW c \in Conns, NEW n \in 1 .. MaxPackets, RunGoes(c, n) PROVE SlotInv'
  BY SMTT(60), <1>21 DEF RunGoes, HGoto, Set, sharedVars, peerVars, localVars
<1>22. ASSUME NEW c \in Conns, NEW n \in 1 .. MaxPackets, RunFails(c, n) PROVE SlotInv'
  BY SMTT(60), <1>22 DEF RunFails, HGoto, Set, sharedVars, peerVars, localVars
<1>23. ASSUME NEW c \in Conns, NEW n \in 1 .. MaxPackets, HandlerClose(c, n) PROVE SlotInv'
  BY SMTT(60), <1>23 DEF HandlerClose, HGoto, Set, sharedVars, peerVars, localVars
<1>24. ASSUME NEW c \in Conns, NEW n \in 1 .. MaxPackets, HReportAgain(c, n) PROVE SlotInv'
  BY SMTT(60), <1>24 DEF HReportAgain, HGoto, Set, sharedVars, peerVars, localVars
<1>25. ASSUME NEW c \in Conns, NEW n \in 1 .. MaxPackets, HReportFirst(c, n) PROVE SlotInv'
  BY SMTT(60), <1>25 DEF HReportFirst, HGoto, Set, sharedVars, peerVars, localVars
<1>26. ASSUME NEW c \in Conns, NEW n \in 1 .. MaxPackets, DoneReleases(c, n) PROVE SlotInv'
  BY SMTT(60), <1>26 DEF DoneReleases, Limited, HGoto, Set, sharedVars, peerVars, localVars
<1>27. ASSUME NEW c \in Conns, NEW n \in 1 .. MaxPackets, DoneEnds(c, n) PROVE SlotInv'
  BY SMTT(60), <1>27 DEF DoneEnds, Limited, HGoto, Set, sharedVars, peerVars, localVars
<1>28. ASSUME NEW c \in Conns, NEW n \in 1 .. MaxPackets, HandlerRelease(c, n) PROVE SlotInv'
  BY SMTT(60), <1>28 DEF HandlerRelease, HGoto, Set, sharedVars, peerVars, localVars
<1>29. ASSUME NEW u \in Callers, SwapWins(u) PROVE SlotInv'
  BY SMTT(60), <1>29 DEF SwapWins, Goto, Set, sharedVars, peerVars, localVars
<1>30. ASSUME NEW u \in Callers, SwapLoses(u) PROVE SlotInv'
  BY SMTT(60), <1>30 DEF SwapLoses, Goto, Set, sharedVars, peerVars, localVars
<1>31. ASSUME NEW u \in Callers, ShutdownCancel(u) PROVE SlotInv'
  BY SMTT(60), <1>31 DEF ShutdownCancel, Goto, Set, sharedVars, peerVars, localVars
<1>32. ASSUME NEW u \in Callers, ShutdownLock(u) PROVE SlotInv'
  BY SMTT(60), <1>32 DEF ShutdownLock, Goto, Set, sharedVars, peerVars, localVars
<1>33. ASSUME NEW u \in Callers, CloseOne(u) PROVE SlotInv'
  BY SMTT(60), <1>33 DEF CloseOne, Goto, Set, sharedVars, peerVars, localVars
<1>34. ASSUME NEW u \in Callers, CloseEnds(u) PROVE SlotInv'
  BY SMTT(60), <1>34 DEF CloseEnds, Goto, Set, sharedVars, peerVars, localVars
<1>35. ASSUME NEW u \in Callers, ShutdownListener(u) PROVE SlotInv'
  BY SMTT(60), <1>35 DEF ShutdownListener, Goto, Set, sharedVars, peerVars, localVars
<1>36. ASSUME NEW u \in Callers, ShutdownWait(u) PROVE SlotInv'
  BY SMTT(60), <1>36 DEF ShutdownWait, Goto, Set, sharedVars, peerVars, localVars
<1>37. ASSUME ListenerExits PROVE SlotInv'
  BY SMTT(60), <1>37 DEF ListenerExits, Goto, Set, sharedVars, peerVars, localVars
<1>38. ASSUME ListenerStays PROVE SlotInv'
  BY SMTT(60), <1>38 DEF ListenerStays, Goto, Set, sharedVars, peerVars, localVars
<1>39. ASSUME ContextDone PROVE SlotInv'
  BY SMTT(60), <1>39 DEF ContextDone, Goto, Set, sharedVars, peerVars, localVars
<1>40. ASSUME UNCHANGED vars PROVE SlotInv'
  BY SMTT(60), <1>40 DEF vars, sharedVars, peerVars, localVars
<1> HIDE DEF ShapeOK, RoleInv, CloseInv, SlotInv, Procs, ConnLabels, CallerLabels
<1> QED BY ZenonT(60), Cases, <1>1, <1>2, <1>3, <1>4, <1>5, <1>6, <1>7, <1>8, <1>9, <1>10,
       <1>11, <1>12, <1>13, <1>14, <1>15, <1>16, <1>17, <1>18, <1>19, <1>20, <1>21, <1>22,
       <1>23, <1>24, <1>25, <1>26, <1>27, <1>28, <1>29, <1>30, <1>31, <1>32, <1>33, <1>34,
       <1>35, <1>36, <1>37, <1>38, <1>39, <1>40 DEF ConnCase, HandlerCase, CallerCase,
       ListenerCase

-----------------------------------------------------------------------------
\* What a step of a handler's goroutine does to the set of those that exist.
LEMMA LiveMoves ==
  ASSUME ShapeOK, NEW c \in Conns, NEW n \in 1 .. MaxPackets, NEW label \in HLabels,
         hpc' = [hpc EXCEPT ![c][n] = label]
  PROVE  /\ label \notin {"None", "Gone"} => Live' = Live \cup {<<c, n>>}
         /\ label \in {"None", "Gone"} => Live' = Live \ {<<c, n>>}
<1>0. hpc \in [Conns -> [1 .. MaxPackets -> HLabels]] BY SMTT(60) DEF ShapeOK
<1>1. hpc'[c][n] = label
  <2>1. DOMAIN hpc = Conns BY SMTT(60), <1>0
  <2>2. hpc[c] \in [1 .. MaxPackets -> HLabels] BY SMTT(60), <1>0
  <2>3. DOMAIN hpc[c] = 1 .. MaxPackets BY SMTT(60), <2>2
  <2>4. n \in DOMAIN hpc[c] BY ZenonT(60), <2>3
  <2> QED BY SMTT(60), <2>1, <2>4
<1>2. ASSUME NEW h \in Handlers, h # <<c, n>> PROVE hpc'[h[1]][h[2]] = hpc[h[1]][h[2]]
  <2>1. h[1] \in Conns /\ h[2] \in 1 .. MaxPackets /\ h = <<h[1], h[2]>> BY SMTT(60) DEF Handlers
  <2>2. h[1] # c \/ h[2] # n BY SMTT(60), <1>2, <2>1
  <2> QED BY SMTT(60), <2>1, <2>2 DEF ShapeOK
<1>3. <<c, n>> \in Handlers /\ <<c, n>>[1] = c /\ <<c, n>>[2] = n
  BY SMTT(60) DEF Handlers
<1>4. Live' = {h \in Handlers : hpc'[h[1]][h[2]] \notin {"None", "Gone"}}
  BY ZenonT(60) DEF Live, Handlers
<1>5. Live = {h \in Handlers : hpc[h[1]][h[2]] \notin {"None", "Gone"}}
  BY ZenonT(60) DEF Live
<1>6. ASSUME label \notin {"None", "Gone"} PROVE Live' = Live \cup {<<c, n>>}
  <2>1. ASSUME NEW h \in Handlers PROVE h \in Live' <=> h \in Live \/ h = <<c, n>>
    <3>1. CASE h = <<c, n>> BY ZenonT(60), <3>1, <1>1, <1>3, <1>4, <1>6
    <3>2. CASE h # <<c, n>> BY ZenonT(60), <3>2, <1>2, <1>4, <1>5
    <3> QED BY SMTT(60), <3>1, <3>2
  <2> QED BY ZenonT(60), <2>1, <1>3, <1>4, <1>5
<1>7. ASSUME label \in {"None", "Gone"} PROVE Live' = Live \ {<<c, n>>}
  <2>1. ASSUME NEW h \in Handlers PROVE h \in Live' <=> h \in Live /\ h # <<c, n>>
    <3>1. CASE h = <<c, n>> BY ZenonT(60), <3>1, <1>1, <1>3, <1>4, <1>7
    <3>2. CASE h # <<c, n>> BY ZenonT(60), <3>2, <1>2, <1>4, <1>5
    <3> QED BY SMTT(60), <3>1, <3>2
  <2> QED BY ZenonT(60), <2>1, <1>3, <1>4, <1>5
<1> QED BY ZenonT(60), <1>6, <1>7

\* A goroutine is in Live when its label says so.
LEMMA LiveHas ==
  ASSUME NEW c \in Conns, NEW n \in 1 .. MaxPackets
  PROVE  <<c, n>> \in Live <=> hpc[c][n] \notin {"None", "Gone"}
<1>1. <<c, n>> \in Handlers /\ <<c, n>>[1] = c /\ <<c, n>>[2] = n BY SMTT(60) DEF Handlers
<1> QED BY ZenonT(60), <1>1 DEF Live

\* Every step keeps one token per handler.
LEMMA TokenStep ==
  ASSUME ShapeOK, SlotInv, TokenInv, [Next]_vars
  PROVE  TokenInv'
<1>1. ASSUME UNCHANGED <<hpc, limiter, concurrency>> PROVE TokenInv'
  <2>1. Live' = Live BY ZenonT(60), <1>1 DEF Live, Handlers
  <2> QED BY ZenonT(60), <1>1, <2>1 DEF TokenInv, Limited
<1>2. ASSUME NEW c \in Conns, DispatchRuns(c) PROVE TokenInv'
  <2> DEFINE n == taken[c]
  <2>1. n \in 1 .. MaxPackets /\ hpc[c][n] = "None" /\ "Run" \in HLabels
    BY SMTT(60), <1>2 DEF DispatchRuns, SlotInv, HLabels
  <2>2. hpc' = [hpc EXCEPT ![c][n] = "Run"] /\ concurrency' = concurrency
    BY ZenonT(60), <1>2 DEF DispatchRuns
  <2>3. Live' = Live \cup {<<c, n>>}
    <3> HIDE DEF n
    <3>1. "Run" \notin {"None", "Gone"} BY SMTT(60)
    <3> QED BY ZenonT(60), <2>1, <2>2, <3>1, LiveMoves
  <2>4. <<c, n>> \notin Live
    <3> HIDE DEF n
    <3> QED BY ZenonT(60), <2>1, LiveHas
  <2>5. IsFiniteSet(Live') /\ Cardinality(Live') = Cardinality(Live) + 1
    <3> HIDE DEF n
    <3> QED BY ZenonT(60), <2>3, <2>4, FS_AddElement DEF TokenInv
  <2>6. CASE Limited
    <3>1. limiter < concurrency /\ limiter' = limiter + 1 /\ Limited'
      BY ZenonT(60), <1>2, <2>2, <2>6 DEF DispatchRuns, Limited
    <3>2. limiter = Cardinality(Live) /\ limiter \in Nat
      BY ZenonT(60), <2>6, FS_CardinalityType DEF TokenInv
    <3>3. concurrency \in Nat BY SMTT(60), ServerBoundsAssumption DEF ShapeOK
    <3>4. limiter' = Cardinality(Live') /\ limiter' <= concurrency'
      BY SMTT(60), <2>2, <2>5, <3>1, <3>2, <3>3
    <3> QED BY ZenonT(60), <2>5, <3>1, <3>4 DEF TokenInv
  <2>7. CASE ~Limited
    <3>1. limiter' = limiter /\ ~Limited' BY ZenonT(60), <1>2, <2>2, <2>7 DEF DispatchRuns, Limited
    <3> QED BY ZenonT(60), <2>5, <2>7, <3>1 DEF TokenInv
  <2> QED BY SMTT(60), <2>6, <2>7
<1>3. ASSUME NEW c \in Conns, ConnCase(c) PROVE TokenInv'
  <2>1. CASE DispatchRuns(c) BY SMTT(60), <2>1, <1>2
  <2>2. CASE ~DispatchRuns(c)
    <3>1. UNCHANGED <<hpc, limiter, concurrency>>
      BY ZenonT(60), <1>3, <2>2 DEF ConnCase, Arrive, ConnFails, Accept, CallServeConn, ServeConn,
         StartFails, StartWorks, RegisterLate, RegisterWorks, ReadTakes, ReadFails, HandleGoes,
         HandleFails, DispatchStops, Fail, ReportAgain, ReportFirst, Join, UnregisterLate,
         UnregisterWorks
    <3> QED BY SMTT(60), <3>1, <1>1
  <2> QED BY SMTT(60), <2>1, <2>2
<1>4. ASSUME NEW u \in Callers, CallerCase(u) PROVE TokenInv'
  <2>1. UNCHANGED <<hpc, limiter, concurrency>>
    BY ZenonT(60), <1>4 DEF CallerCase, SwapWins, SwapLoses, ShutdownCancel, ShutdownLock,
       CloseOne, CloseEnds, ShutdownListener, ShutdownWait
  <2> QED BY SMTT(60), <2>1, <1>1
<1>5. ASSUME ListenerCase PROVE TokenInv'
  <2>1. UNCHANGED <<hpc, limiter, concurrency>>
    BY ZenonT(60), <1>5 DEF ListenerCase, ListenerExits, ListenerStays, ContextDone
  <2> QED BY SMTT(60), <2>1, <1>1
<1>6. ASSUME NEW c \in Conns, NEW n \in 1 .. MaxPackets, NEW label \in HLabels,
             hpc[c][n] \notin {"None", "Gone"}, label \notin {"None", "Gone"},
             HGoto(c, n, label), UNCHANGED <<limiter, concurrency>>
      PROVE  TokenInv'
  <2>1. Live' = Live \cup {<<c, n>>} BY ZenonT(60), <1>6, LiveMoves DEF HGoto
  <2>2. <<c, n>> \in Live BY ZenonT(60), <1>6, LiveHas
  <2>3. Live' = Live BY ZenonT(60), <2>1, <2>2
  <2> QED BY ZenonT(60), <1>6, <2>3 DEF TokenInv, Limited
<1>7. ASSUME NEW c \in Conns, NEW n \in 1 .. MaxPackets, hpc[c][n] \notin {"None", "Gone"},
             HGoto(c, n, "Gone"), UNCHANGED concurrency,
             (Limited => limiter' = limiter - 1) /\ (~Limited => limiter' = limiter)
      PROVE  TokenInv'
  <2>1. Live' = Live \ {<<c, n>>} 
    BY ZenonT(60), <1>7, LiveMoves DEF HGoto, HLabels
  <2>2. <<c, n>> \in Live BY ZenonT(60), <1>7, LiveHas
  <2>3. IsFiniteSet(Live') /\ Cardinality(Live') = Cardinality(Live) - 1
    BY ZenonT(60), <2>1, <2>2, FS_RemoveElement DEF TokenInv
  <2>4. Cardinality(Live) \in Nat BY ZenonT(60), FS_CardinalityType DEF TokenInv
  <2>5. concurrency \in Nat BY SMTT(60), ServerBoundsAssumption DEF ShapeOK
  <2>6. CASE Limited
    <3>1. limiter = Cardinality(Live) /\ limiter <= concurrency /\ Limited'
      BY ZenonT(60), <1>7, <2>6 DEF TokenInv, Limited
    <3>2. limiter' = Cardinality(Live') /\ limiter' <= concurrency'
      BY SMTT(60), <1>7, <2>3, <2>4, <2>5, <2>6, <3>1
    <3> QED BY ZenonT(60), <2>3, <3>1, <3>2 DEF TokenInv
  <2>7. CASE ~Limited
    <3>1. limiter = 0 /\ ~Limited' BY ZenonT(60), <1>7, <2>7 DEF TokenInv, Limited
    <3>2. limiter' = 0 BY ZenonT(60), <1>7, <2>7, <3>1
    <3> QED BY ZenonT(60), <2>3, <3>1, <3>2 DEF TokenInv
  <2> QED BY SMTT(60), <2>6, <2>7
<1>8. ASSUME NEW c \in Conns, NEW n \in 1 .. MaxPackets, HandlerCase(c, n) PROVE TokenInv'
  <2>1. CASE RunGoes(c, n)
    BY ZenonT(60), <2>1, <1>6 DEF RunGoes, HLabels
  <2>2. CASE RunFails(c, n)
    BY ZenonT(60), <2>2, <1>6 DEF RunFails, HLabels
  <2>3. CASE HandlerClose(c, n)
    BY ZenonT(60), <2>3, <1>6 DEF HandlerClose, HLabels
  <2>4. CASE HReportAgain(c, n)
    BY ZenonT(60), <2>4, <1>6 DEF HReportAgain, HLabels
  <2>5. CASE HReportFirst(c, n)
    BY ZenonT(60), <2>5, <1>6 DEF HReportFirst, HLabels
  <2>6. CASE DoneReleases(c, n)
    BY ZenonT(60), <2>6, <1>6 DEF DoneReleases, HLabels
  <2>7. CASE DoneEnds(c, n)
    <3>1. limiter = 0 /\ limiter' = limiter /\ ~Limited
      BY ZenonT(60), <2>7 DEF DoneEnds, TokenInv
    <3> QED BY ZenonT(60), <2>7, <3>1, <1>7 DEF DoneEnds
  <2>8. CASE HandlerRelease(c, n)
    <3>1. Limited BY SMTT(60), <2>8 DEF HandlerRelease, SlotInv, Limited
    <3> QED BY ZenonT(60), <2>8, <3>1, <1>7 DEF HandlerRelease
  <2> QED BY ZenonT(60), <1>8, <2>1, <2>2, <2>3, <2>4, <2>5, <2>6, <2>7, <2>8 DEF HandlerCase
<1>9. ASSUME UNCHANGED vars PROVE TokenInv' BY ZenonT(60), <1>9, <1>1 DEF vars
<1> QED BY ZenonT(60), Cases, <1>3, <1>4, <1>5, <1>8, <1>9

-----------------------------------------------------------------------------
\* A server that was just started satisfies the invariant.
LEMMA ServerInit == Init => SInv
<1> SUFFICES ASSUME Init PROVE SInv BY SMTT(60)
<1> USE ConnsAssumption, ServerBoundsAssumption
<1>1. /\ pc \in [Procs -> Labels]
      /\ \A c \in Conns : pc[c] = "New"
      /\ \A u \in Callers : pc[u] = "Idle"
      /\ pc["listener"] = IF listening THEN "Accept" ELSE "Exit"
  BY SMTT(60) DEF Init, Procs, Labels
<1>0. /\ concurrency \in Modes /\ shutdown = FALSE /\ cancelled = FALSE /\ connMu = None
      /\ connections = {} /\ listening \in BOOLEAN /\ wg \in {{"listener"}, {}}
      /\ open = [c \in Conns |-> FALSE] /\ sent = [c \in Conns |-> 0]
      /\ taken = [c \in Conns |-> 0] /\ swapped = [c \in Conns |-> FALSE]
      /\ done = [c \in Conns |-> FALSE] /\ reported = [c \in Conns |-> 0]
      /\ hpc = [c \in Conns |-> [n \in 1 .. MaxPackets |-> "None"]]
  BY SMTT(60) DEF Init
<1>2. ShapeOK
  <2>1. /\ sent \in [Conns -> 0 .. MaxPackets] /\ taken \in [Conns -> 0 .. MaxPackets]
        /\ reported \in [Conns -> Nat] /\ hpc \in [Conns -> [1 .. MaxPackets -> HLabels]]
    BY SMTT(60), <1>0 DEF HLabels
  <2>2. /\ open \in [Conns -> BOOLEAN] /\ swapped \in [Conns -> BOOLEAN]
        /\ done \in [Conns -> BOOLEAN]
    BY SMTT(60), <1>0
  <2>3. connections \subseteq Conns /\ wg \subseteq Conns \cup {"listener"} BY SMTT(60), <1>0
  <2> QED BY ZenonT(60), <1>0, <1>1, <2>1, <2>2, <2>3 DEF ShapeOK
<1>3. RoleInv
  BY SMTT(60), <1>1 DEF Init, RoleInv, ConnLabels, CallerLabels
<1>4. CloseInv
  BY SMTT(60), <1>1 DEF Init, CloseInv
<1>5. TableInv
  BY SMTT(60), <1>1 DEF Init, TableInv, NoStraggler, Served
<1>6. SlotInv
  BY SMTT(60), <1>0, <1>1 DEF SlotInv
<1>7. TokenInv
  <2>1. ASSUME NEW h \in Handlers PROVE hpc[h[1]][h[2]] = "None"
    <3>1. h[1] \in Conns /\ h[2] \in 1 .. MaxPackets BY SMTT(60) DEF Handlers
    <3> QED BY SMTT(60), <3>1 DEF Init
  <2>2. Live = {} BY ZenonT(60), <2>1 DEF Live
  <2>3. IsFiniteSet(Live) /\ Cardinality(Live) = 0 BY ZenonT(60), <2>2, FS_EmptySet
  <2>4. limiter = 0 /\ concurrency \in Nat BY SMTT(60) DEF Init
  <2>5. 0 <= concurrency BY SMTT(60), <2>4
  <2> QED BY ZenonT(60), <2>3, <2>4, <2>5 DEF TokenInv
<1> QED BY SMTT(60), <1>2, <1>3, <1>4, <1>5, <1>6, <1>7 DEF SInv

\* The server never leaves the inductive invariant: roles and s.wg, the order of closing
\* and reporting, the table of connections, the slots of packets and the tokens.
THEOREM ServerInvariance == Spec => []SInv
<1>1. SInv /\ [Next]_vars => SInv'
  BY SMTT(60), ShapeStep, RoleStep, CloseStep, TableStep, SlotStep, TokenStep DEF SInv
<1> QED BY ServerInit, <1>1, PTL DEF Spec

\* The variables keep their types; in particular s.limiter never gives back more tokens
\* than it was sent (server.go:368-398).
THEOREM ServerTypes == Spec => []TypeOK
<1>1. SInv => TypeOK
  <2> SUFFICES ASSUME SInv PROVE TypeOK BY SMTT(60)
  <2>1. limiter \in Nat
    <3>1. CASE Limited BY ZenonT(60), <3>1, FS_CardinalityType DEF SInv, TokenInv
    <3>2. CASE ~Limited BY SMTT(60), <3>2 DEF SInv, TokenInv
    <3> QED BY SMTT(60), <3>1, <3>2
  <2> QED BY ZenonT(60), <2>1 DEF SInv, ShapeOK, TypeOK
<1> QED BY <1>1, ServerInvariance, PTL

\* s.onClosed is called once per connection, after it was closed and before serveConn
\* ends, whoever of serveConn and its handlers finds the end (server.go:237-401).
THEOREM ReportedOnce == Spec => []OnClosedOnce
<1>1. SInv => OnClosedOnce
  BY SMTT(60) DEF SInv, ShapeOK, CloseInv, OnClosedOnce
<1> QED BY <1>1, ServerInvariance, PTL

\* No handler of a connection outlives the wait of its serveConn (server.go:378-401).
THEOREM HandlersAreJoined == Spec => []HandlersJoined
<1>1. SInv => HandlersJoined
  <2> SUFFICES ASSUME SInv, NEW c \in Conns, pc[c] \in {"Unregister", "Gone"},
                      NEW n \in 1 .. MaxPackets
               PROVE  hpc[c][n] \notin {"Run", "Close", "Report", "Done"}
    BY ZenonT(60) DEF HandlersJoined, Waited
  <2> QED BY SMTT(60) DEF SInv, CloseInv
<1> QED BY <1>1, ServerInvariance, PTL

\* SetConcurrency bounds the handlers of all connections together, for every bound and any
\* number of connections (server.go:362-401).
THEOREM HandlersAreBounded == Spec => []ConcurrencyBounded
<1>1. SInv => ConcurrencyBounded
  BY ZenonT(60) DEF SInv, TokenInv, ConcurrencyBounded
<1> QED BY <1>1, ServerInvariance, PTL

\* Nothing enters s.connections behind the walk of Shutdown, and what serveConn serves is
\* closed by then (server.go:430-480).
THEOREM TableStaysEmpty == Spec => []NoStraggler
<1>1. SInv => NoStraggler BY ZenonT(60) DEF SInv, TableInv
<1> QED BY <1>1, ServerInvariance, PTL

\* When Shutdown returns, the listener and every serveConn and handler are done
\* (server.go:465-480).
THEOREM ShutdownLeavesNothing == Spec => []ShutdownStops
<1>1. SInv => ShutdownStops
  <2> SUFFICES ASSUME SInv, NEW u \in Callers, pc[u] = "Stopped"
               PROVE  /\ pc["listener"] = "Exit"
                      /\ \A c \in Conns : pc[c] \in {"New", "Gone"} /\ Waited(c) = {}
    BY ZenonT(60) DEF ShutdownStops
  <2>1. pc["listener"] = "Exit" /\ \A c \in Conns : pc[c] \in {"New", "Gone"}
    BY SMTT(60) DEF SInv, RoleInv
  <2>2. ASSUME NEW c \in Conns, NEW n \in 1 .. MaxPackets
        PROVE  hpc[c][n] \notin {"Run", "Close", "Report", "Done"}
    BY SMTT(60), <2>1 DEF SInv, CloseInv
  <2> QED BY ZenonT(60), <2>1, <2>2 DEF Waited
<1> QED BY <1>1, ServerInvariance, PTL

=============================================================================
