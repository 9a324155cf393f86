------------------------------- MODULE MCPage -------------------------------
(***************************************************************************)
(* Page for TLC: two rotations of the token, two POSTs and two late        *)
(* answers at a time.                                                      *)
(***************************************************************************)
EXTENDS Page
=============================================================================
