---------------------------- MODULE MCPacketPool ----------------------------
(***************************************************************************)
(* An instance of PacketPool for TLC.                                      *)
(***************************************************************************)
EXTENDS PacketPool, TLC

Symmetry == Permutations(Objects) \cup Permutations(Workers)

=============================================================================
