------------------------------- MODULE MCStore -------------------------------
(***************************************************************************)
(* Store for TLC: one mount that may hang next to the root.                *)
(***************************************************************************)
EXTENDS Store
=============================================================================
