------------------------------- MODULE MCPeers -------------------------------
(***************************************************************************)
(* PeerClient for TLC: one peer, one viewer, a ring of three.              *)
(***************************************************************************)
EXTENDS PeerClient
=============================================================================
