------------------------------ MODULE History ------------------------------
(***************************************************************************)
(* web/src/hooks/useHistory.ts and what answers it: the loads a mounted    *)
(* page starts and abandons.  The server refuses a request (token), turns  *)
(* it away because every history slot is taken, or serves it; for a peer   *)
(* it passes it on with a time limit (handleServerHistory, Client.History).*)
(*                                                                         *)
(* Points are worth a bit: whether the load they answer is the newest one. *)
(* The newest load is always of the selected range, so an answer of        *)
(* another range is one of an older load.                                  *)
(***************************************************************************)
EXTENDS Naturals, FiniteSets

CONSTANTS
    MaxLate     \* bound: a load is abandoned while fewer are on their way

ASSUME HistoryAssumption == MaxLate \in Nat

VARIABLES
    shown,      \* HistoryState
    wanted,     \* the last load of the mounted page; "none" when it is over
    late        \* abandoned loads whose answer the browser had already

historyVars == <<shown, wanted, late>>

Stages == {"none", "sent", "points", "failed", "unauthorized"}

(***************************************************************************)
(* settled: points # null; current: they answer the newest load.           *)
(***************************************************************************)
Nothing == [settled |-> FALSE, current |-> FALSE, stale |-> FALSE, error |-> FALSE]
NoLoad == [token |-> 0, stage |-> "none"]

HistoryInit == shown = Nothing /\ wanted = NoLoad /\ late = {}

-----------------------------------------------------------------------------
Answered(l) == l.stage \in {"points", "failed", "unauthorized"}

(***************************************************************************)
(* abort: a fetch under way rejects, which nobody looks at; one that was   *)
(* answered still runs its handlers.                                       *)
(***************************************************************************)
Abandon == late' = IF Answered(wanted) THEN late \cup {wanted} ELSE late

(***************************************************************************)
(* load: abort the last one, dim what is shown, ask anew.  The minute is   *)
(* over, or the user selected another range and the effect runs again.     *)
(***************************************************************************)
Load(token) ==
    /\ Abandon
    /\ wanted' = [token |-> token, stage |-> "sent"]
    /\ shown' = [shown EXCEPT !.current = FALSE, !.stale = shown.settled]

(***************************************************************************)
(* The page is mounted, with its first load, and unmounted.                *)
(***************************************************************************)
Mount(token) ==
    /\ wanted' = [token |-> token, stage |-> "sent"]
    /\ shown' = Nothing
    /\ UNCHANGED late

Unmount ==
    /\ Abandon
    /\ wanted' = NoLoad
    /\ shown' = Nothing

(***************************************************************************)
(* The browser hears of load l.                                            *)
(***************************************************************************)
Forgotten(l) ==
    IF l = wanted
    THEN wanted' = NoLoad /\ UNCHANGED late
    ELSE late' = late \ {l} /\ UNCHANGED wanted

Points(l) == [settled |-> TRUE, current |-> l = wanted, stale |-> FALSE, error |-> FALSE]

(* Mutant: any answer is shown. *)
PointsArriveAnyhow(l) ==
    /\ l.stage = "points"
    /\ Forgotten(l)
    /\ shown' = Points(l)

PointsArrive(l) ==
    /\ l.stage = "points"
    /\ Forgotten(l)
    /\ shown' = IF l = wanted THEN Points(l) ELSE shown

(* Mutant: a failed load leaves the chart dimmed. *)
LoadFailsDimmed(l) ==
    /\ l.stage \in {"failed", "unauthorized"}
    /\ Forgotten(l)
    /\ shown' = IF l = wanted
                THEN [shown EXCEPT !.settled = TRUE, !.error = TRUE] ELSE shown

(***************************************************************************)
(* A refused or failed load keeps what is shown, undimmed.                 *)
(***************************************************************************)
LoadFails(l) ==
    /\ l.stage \in {"failed", "unauthorized"}
    /\ Forgotten(l)
    /\ shown' = IF l = wanted
                THEN [shown EXCEPT !.settled = TRUE, !.stale = FALSE, !.error = TRUE]
                ELSE shown

(***************************************************************************)
(* The server: the token check first (verdict), then a slot, then points,  *)
(* of the ring and the store or of the peer, or an error.                  *)
(***************************************************************************)
LoadAnswered(verdict) ==
    /\ wanted.stage = "sent"
    /\ \E stage \in IF verdict = "ok" THEN {"points", "failed"} ELSE {verdict} :
           wanted' = [wanted EXCEPT !.stage = stage]
    /\ UNCHANGED <<shown, late>>
=============================================================================
