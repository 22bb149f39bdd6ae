------------------------------ MODULE MCClient ------------------------------
(***************************************************************************)
(* Instances of Client for TLC.                                            *)
(***************************************************************************)
EXTENDS ClientProps

CONSTANTS Connectors, Adopters, Closers, Rawers, Setters

MCUsers == Connectors \cup Adopters \cup Closers \cup Rawers \cup Setters
MCOps ==
  [u \in MCUsers |-> {m \in Methods : \/ m = "Connect" /\ u \in Connectors
                                      \/ m = "FromConn" /\ u \in Adopters
                                      \/ m = "Close" /\ u \in Closers
                                      \/ m = "Raw" /\ u \in Rawers
                                      \/ m = "SetStreamHandler" /\ u \in Setters}]
\* The first one is refused.
MCTables == {{8, 10}, {10}}
MCOperations == {10, 11}

=============================================================================
