---------------------------- MODULE ClientProps -----------------------------
(***************************************************************************)
(* What a frisbee.Client must guarantee.                                   *)
(***************************************************************************)
EXTENDS Client

\* "Close closes the frisbee client and kills all the goroutines": when the Close or Raw
\* that won the swap has returned, handleConn runs no handler any more (client.go:103-144).
HandlerStopped ==
  won \cap Users # {} => pc["handleConn"] \notin {"Check", "Read", "Handle", "Reply", "Done"}

\* A connection that breaks loses no packet that had arrived: unless somebody asked for
\* the end, handleConn stops only when every packet was taken (client.go:187-192).
NothingDropped ==
  (~asked /\ pc["handleConn"] \notin {"None", "Check", "Read", "Handle", "Reply"}) => handled = received

\* The net.Conn that Raw took over stays open: neither handleConn, which meets the closed
\* connection and calls Close, nor a later Close closes it (client.go:104-115, 134-144).
RawStaysOpen == [][conn = "raw" => conn' = "raw"]_vars

\* A Raw has won the swap and goes on to take the net.Conn over, or has done so.
Taken == \E u \in Users : pc[u] \in {"RawConn", "Wait"} \/ u \in won

\* A handler that calls Close has won the swap and waits for the goroutine it runs in.
SelfWait == pc["handleConn"] = "Wait" /\ back["handleConn"] = "Check"

\* A lost connection closes the client, without any call, and cancels its context, which
\* a Raw that wins the swap never does (client.go:104-115, 187-192).
LossIsNoticed == (conn = "down") ~> (closed /\ (cancelled \/ Taken))

\* Close and Raw return: the wg.Wait of the winner does not outlast handleConn, unless the
\* winner is a handler (client.go:104-115, 134-144).
CloseReturns ==
  \A p \in Procs : pc[p] \in {"Swap", "RawSwap"} ~> (pc[p] \in {"Idle", "Exit", "Check"} \/ SelfWait)

=============================================================================
