------------------------------ MODULE Console ------------------------------
(***************************************************************************)
(* A ServerPage of the local server: its event stream (EventStream), the   *)
(* button "Restart owlwatch" (RebootButton, rebootServer) and the process  *)
(* it restarts (Process).  The button leaves its waiting state when the    *)
(* stream was lost and is back.                                            *)
(***************************************************************************)
EXTENDS Process, EventStream

CONSTANTS
    Posts       \* bound: POSTs of the button under way at once

VARIABLES
    button,     \* RebootState: "idle", "rebooting" or "error"
    saw,        \* sawDisconnect
    posts       \* posts[p]: "none", "sent", "accepted" or "failed"

buttonVars == <<button, saw, posts>>
consoleVars == <<processVars, streamVars, buttonVars>>

ConsoleInit ==
    /\ ProcessInit /\ StreamInit
    /\ button = "idle" /\ saw = FALSE
    /\ posts = [p \in Posts |-> "none"]

(***************************************************************************)
(* RebootButton's effect, after a step that may have changed the status.   *)
(***************************************************************************)
Watch ==
    /\ IF button # "rebooting" THEN UNCHANGED <<button, saw>>
       ELSE \/ status' # "open" /\ saw' = TRUE /\ UNCHANGED button
            \/ status' = "open" /\ saw /\ saw' = FALSE /\ button' = "idle"
            \/ status' = "open" /\ ~saw /\ UNCHANGED <<button, saw>>
    /\ UNCHANGED posts

(***************************************************************************)
(* Steps of the stream.  The process takes streams while it serves; its    *)
(* handlers return when it leaves, or for reasons of their own.            *)
(***************************************************************************)
StreamStep ==
    /\ \/ Open \/ (up = "serving" /\ StreamAccepted) \/ ResponseArrives \/ RequestFails
       \/ Hello \/ HelloSkipped \/ EventTooLong \/ HandlerReturns \/ LinkDies
       \/ StreamEnds \/ StallFires \/ NetChanges
    /\ Watch
    /\ UNCHANGED processVars

(***************************************************************************)
(* The button: enabled while the stream is open and nothing is awaited.    *)
(***************************************************************************)
Click(p) ==
    /\ status = "open" /\ button # "rebooting"
    /\ posts[p] = "none"
    /\ button' = "rebooting" /\ saw' = FALSE
    /\ posts' = [posts EXCEPT ![p] = "sent"]
    /\ UNCHANGED <<processVars, streamVars>>

(***************************************************************************)
(* The POST is accepted, or fails for one of many reasons; its answer is   *)
(* heard, or lost.  A failure is shown, whatever was shown before.         *)
(***************************************************************************)
PostAccepted(p) ==
    /\ posts[p] = "sent" /\ net
    /\ AcceptReboot
    /\ posts' = [posts EXCEPT ![p] = "accepted"]
    /\ UNCHANGED <<streamVars, button, saw>>

PostFails(p) ==
    /\ posts[p] \in {"sent", "accepted"}
    /\ posts' = [posts EXCEPT ![p] = "failed"]
    /\ UNCHANGED <<processVars, streamVars, button, saw>>

PostHeard(p) ==
    /\ posts[p] \in {"accepted", "failed"}
    /\ posts' = [posts EXCEPT ![p] = "none"]
    /\ IF posts[p] = "failed" THEN button' = "error" ELSE UNCHANGED button
    /\ UNCHANGED <<processVars, streamVars, saw>>

(***************************************************************************)
(* The process: others ask it to restart as well, it leaves, and when no   *)
(* handler is left it serves again or is gone.                             *)
(***************************************************************************)
ProcessStep ==
    /\ \/ AcceptReboot \/ Depart
       \/ (conn # "live" /\ (ServeAgain \/ Vanish))
    /\ UNCHANGED <<streamVars, buttonVars>>

ConsoleNext ==
    \/ StreamStep
    \/ ProcessStep
    \/ \E p \in Posts : Click(p) \/ PostAccepted(p) \/ PostFails(p) \/ PostHeard(p)

(***************************************************************************)
(* Timers fire, what arrived is read, answers come or fail, handlers of a  *)
(* leaving process return, and the process does as Process promises.  A    *)
(* stream that is asked for again and again is taken in the end: requests  *)
(* do not fail, nor connections die, every time (strong fairness).         *)
(***************************************************************************)
Fair(step) == step /\ Watch /\ UNCHANGED processVars

ConsoleSpec ==
    /\ ConsoleInit
    /\ [][ConsoleNext]_consoleVars
    /\ WF_consoleVars(Fair(Open)) /\ WF_consoleVars(Fair(StreamEnds)) /\ WF_consoleVars(Fair(StallFires))
    /\ SF_consoleVars(Fair(up = "serving" /\ StreamAccepted)) /\ SF_consoleVars(Fair(ResponseArrives))
    /\ WF_consoleVars(Fair(up # "serving" /\ HandlerReturns))
    /\ WF_consoleVars(asked /\ Depart /\ UNCHANGED <<streamVars, buttonVars>>)
    /\ WF_consoleVars(conn # "live" /\ (ServeAgain \/ Vanish) /\ UNCHANGED <<streamVars, buttonVars>>)
    /\ \A p \in Posts : WF_consoleVars(PostAccepted(p) \/ PostFails(p)) /\ WF_consoleVars(PostHeard(p))

-----------------------------------------------------------------------------
ConsoleTypeOK ==
    /\ up \in {"serving", "leaving", "gone"} /\ asked \in BOOLEAN
    /\ status \in {"connecting", "open", "reconnecting"}
    /\ fetch \in {"none", "asking", "reading"} /\ conn \in {"none", "live", "ended", "flood", "dead"}
    /\ reopen \in BOOLEAN /\ greeting \in {"awaited", "read", "skipped"} /\ net \in BOOLEAN
    /\ stallMs \in {Stall, 4 * Interval}
    /\ button \in {"idle", "rebooting", "error"} /\ saw \in BOOLEAN
    /\ posts \in [Posts -> {"none", "sent", "accepted", "failed"}]

(***************************************************************************)
(* The button does not wait for ever: where the process comes back, or the *)
(* POST fails, "Restarting..." ends, however the stream broke and whoever  *)
(* else asked for a restart, as long as restarts come to an end.  The      *)
(* restart must be seen as a disconnect to be seen at all (RebootButton's  *)
(* effect, connectStream's end of stream).                                 *)
(***************************************************************************)
ButtonComesBack ==
    <>[](net /\ up # "leaving") => (button = "rebooting" ~> (button # "rebooting" \/ up = "gone"))

(***************************************************************************)
(* A page whose server stays up and reachable is connected again and       *)
(* again, whatever happened to its stream before (connectStream).          *)
(***************************************************************************)
PageReconnects ==
    <>[](net /\ up = "serving") => []<>(status = "open")

(***************************************************************************)
(* The watchdog cuts no stream that is well, also where samples are rarer  *)
(* than its default and heartbeats come just as it would fire: the hello   *)
(* has told it the interval by then (setStallMs, STALL_MS).  Not so where  *)
(* the hello could not be marshalled and was skipped.                      *)
(***************************************************************************)
HealthyStreamIsKept ==
    [][fetch = "reading" /\ conn = "live" /\ net /\ greeting # "skipped"
         => fetch' = "reading"]_consoleVars
=============================================================================
