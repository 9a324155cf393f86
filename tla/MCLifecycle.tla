----------------------------- MODULE MCLifecycle -----------------------------
(***************************************************************************)
(* Lifecycle for TLC: two requests in flight, one restart.                 *)
(***************************************************************************)
EXTENDS Lifecycle
=============================================================================
