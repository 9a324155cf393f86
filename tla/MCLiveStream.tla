---------------------------- MODULE MCLiveStream ----------------------------
(* LiveStream on a small instance. *)
EXTENDS LiveStream
=============================================================================
