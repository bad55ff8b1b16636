---------------------------- MODULE MCPeerStates ----------------------------
(***************************************************************************)
(* Two addresses that both connect to us and are connected to.             *)
(***************************************************************************)
EXTENDS PeerStates, TLC

Symmetry == Permutations(Addrs) \cup Permutations(Tasks)
=============================================================================
