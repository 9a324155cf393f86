----------------------------- MODULE MCSampling -----------------------------
(***************************************************************************)
(* Sampling on a small instance, and the mutations its properties are      *)
(* tested against.                                                         *)
(***************************************************************************)
EXTENDS Sampling
=============================================================================
