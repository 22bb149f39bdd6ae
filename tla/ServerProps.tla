----------------------------- MODULE ServerProps ----------------------------
(***************************************************************************)
(* What server.go promises about connections, handlers and Shutdown.       *)
(***************************************************************************)
EXTENDS Server

\* serveConn has registered c and not yet returned.
Served(c) == pc[c] \in {"Read", "Dispatch", "Handle", "Fail", "Report", "Join", "Unregister"}

\* serveConn returned with s.connectionsMu locked.
Leaked == \E c \in Conns : connMu = c /\ pc[c] = "Gone"

\* s.onClosed is called once per connection served, by serveConn or by one of the
\* handlers that race with it, after the connection was closed, and before serveConn
\* ends.
OnClosedOnce ==
  \A c \in Conns : /\ reported[c] <= 1
                   /\ reported[c] = 1 => ~open[c]
                   /\ pc[c] \in {"Join", "Unregister"} => reported[c] = 1

\* No handler of a connection is running, or about to close it or to call s.onClosed,
\* once serveConn has got past the wg.Wait of handle*Packet.
HandlersJoined == \A c \in Conns : pc[c] \in {"Unregister", "Gone"} => Waited(c) = {}

\* SetConcurrency bounds the handlers running at a time, over all connections, and
\* s.limiter holds one token per handler that has not given it back.
ConcurrencyBounded == Limited => limiter = Cardinality(Live) /\ limiter <= concurrency

\* Once Shutdown has walked s.connections, nothing is left in it or enters it, and every
\* connection that serveConn serves is closed.
NoStraggler ==
  \A u \in Callers : pc[u] \in {"Listener", "Wait", "Stopped"} =>
    connections = {} /\ \A c \in Conns : Served(c) => ~open[c]

\* When Shutdown returns to the caller that won the swap, the listener, every serveConn
\* and every handler are done.
ShutdownStops ==
  \A u \in Callers : pc[u] = "Stopped" =>
    /\ pc["listener"] = "Exit"
    /\ \A c \in Conns : pc[c] \in {"New", "Gone"} /\ Waited(c) = {}

\* A connection that is closed is served to its end, and its handlers give their tokens
\* back, as long as no serveConn has returned with s.connectionsMu locked.
ServedToTheEnd ==
  \A c \in Conns : (Served(c) /\ ~open[c]) ~> (Leaked \/ (pc[c] = "Gone" /\ limiter = 0))

\* Shutdown returns, unless a serveConn has returned with s.connectionsMu locked.
ShutdownReturnsOrLeaks ==
  \A u \in Callers : pc[u] = "Cancel" ~> (pc[u] = "Stopped" \/ Leaked)

\* "Shutdown shuts down the frisbee server and kills all the goroutines and active
\* connections" (server.go:464): the call returns.
ShutdownReturns == \A u \in Callers : pc[u] = "Cancel" ~> pc[u] = "Stopped"

=============================================================================
