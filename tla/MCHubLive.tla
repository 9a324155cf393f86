----------------------------- MODULE MCHubLive -----------------------------
(* HubLive on a small instance. *)
EXTENDS HubLive
=============================================================================
