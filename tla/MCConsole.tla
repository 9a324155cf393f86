----------------------------- MODULE MCConsole -----------------------------
(***************************************************************************)
(* Console for TLC: samples every 20 seconds, rarer than the watchdog's 15 *)
(* seconds, and two POSTs.                                                 *)
(***************************************************************************)
EXTENDS Console
=============================================================================
