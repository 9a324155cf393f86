------------------------------ MODULE Process ------------------------------
(***************************************************************************)
(* What others may rely on of an owlwatch process, whatever goes on inside *)
(* (Lifecycle implements it): it serves until it leaves, for a signal, an  *)
(* error or an accepted reboot, ends every stream when it does, and then   *)
(* serves again, which only an accepted reboot makes it do, or is gone.    *)
(***************************************************************************)

VARIABLES
    up,         \* "serving", "leaving" (run's context is cancelled) or "gone"
    asked       \* a reboot was accepted since the process last began to serve

processVars == <<up, asked>>

ProcessInit == up = "serving" /\ asked = FALSE

AcceptReboot == up # "gone" /\ asked' = TRUE /\ UNCHANGED up

Depart == up = "serving" /\ up' = "leaving" /\ UNCHANGED asked

ServeAgain == up = "leaving" /\ asked /\ up' = "serving" /\ asked' = FALSE

Vanish == up = "leaving" /\ up' = "gone" /\ UNCHANGED asked

ProcessNext == AcceptReboot \/ Depart \/ ServeAgain \/ Vanish

(***************************************************************************)
(* It acts on an accepted reboot, and it does not leave for ever.          *)
(***************************************************************************)
RebootIsDone == asked /\ up = "serving" ~> up # "serving"
LeavingEnds == up = "leaving" ~> up # "leaving"

ProcessSpec ==
    ProcessInit /\ [][ProcessNext]_processVars /\ RebootIsDone /\ LeavingEnds
=============================================================================
