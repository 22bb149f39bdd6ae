------------------------------ MODULE MCServer ------------------------------
(***************************************************************************)
(* Model-checking instances of Server.                                      *)
(***************************************************************************)
EXTENDS ServerProps, TLC

CONSTANTS c1, c2, u1, u2

MCOneCaller == {u1}
MCConns == {c1, c2}
MCOneConn == {c1}
MCCallers == {u1, u2}
MCModes == {0, 1, 2}
MCSmallModes == {0, 1}
MCTokenModes == {1, 2}
MCSymmetry == Permutations({c1, c2}) \cup Permutations({u1, u2})

=============================================================================
