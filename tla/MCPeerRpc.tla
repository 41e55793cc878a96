----------------------------- MODULE MCPeerRpc ------------------------------
(* PeerRpc with a few calls, none of them special.                         *)
EXTENDS PeerRpc, TLC

CallSymmetry == Permutations(Calls)
=============================================================================
