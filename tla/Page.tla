-------------------------------- MODULE Page --------------------------------
(***************************************************************************)
(* The dashboard as one browser tab: App (Gate) mounts a page in phase     *)
(* "ready" and unmounts it when it leaves that phase; the page loads       *)
(* history (History) with the stored token, and the answers of its loads   *)
(* raise the gate like those of any request.                               *)
(***************************************************************************)
EXTENDS Gate, History

vars == <<gateVars, historyVars>>

PageInit == GateInit /\ HistoryInit

(***************************************************************************)
(* App renders the page exactly in phase "ready".                          *)
(***************************************************************************)
Follow ==
    CASE phase # "ready" /\ phase' = "ready" -> Mount(stored)
      [] phase = "ready" /\ phase' # "ready" -> Unmount
      [] phase = "ready" <=> phase' = "ready" -> UNCHANGED historyVars

AppStep == GateNext /\ Follow

RestOfGate == <<stored, submitted, failed, boot, posts, accepts, server>>

(***************************************************************************)
(* useHistory's own steps, while the page is mounted.                      *)
(***************************************************************************)
HistoryStep ==
    /\ phase = "ready"
    /\ Cardinality(late) < MaxLate
    /\ Load(stored)
    /\ UNCHANGED gateVars

(***************************************************************************)
(* The answer of a load.  A 401 is reported before the hook looks at it,   *)
(* also when the load was abandoned; if it raises the gate, the page and   *)
(* with it the state of the hook are gone.                                 *)
(***************************************************************************)
LoadHeard(l) ==
    \/ PointsArrive(l) /\ UNCHANGED gateVars
    \/ l.stage = "failed" /\ LoadFails(l) /\ UNCHANGED gateVars
    \/ /\ l.stage = "unauthorized" /\ Report(l.token)
       /\ UNCHANGED RestOfGate
       /\ IF phase = "ready" /\ phase' # "ready"
          THEN /\ late' = late \ {l} /\ wanted' = NoLoad /\ shown' = Nothing
          ELSE LoadFails(l)

ServerStep ==
    /\ Answers
    /\ LoadAnswered(Verdict(wanted.token))
    /\ UNCHANGED gateVars

PageNext ==
    \/ AppStep
    \/ HistoryStep
    \/ \E l \in late \cup {wanted} : LoadHeard(l)
    \/ ServerStep

(***************************************************************************)
(* A server that is not silent answers, or the request fails; the answers  *)
(* are heard and the retry timer fires.  An attempt or a load may be       *)
(* replaced by the next before its answer is heard: answers are assumed to *)
(* come within the ten seconds, or the minute, often enough (strong        *)
(* fairness).  Nothing is assumed of a silent server, of the user and of   *)
(* the server's owner.                                                     *)
(***************************************************************************)
PageSpec ==
    /\ PageInit
    /\ [][PageNext]_vars
    /\ WF_vars(BootAnswered /\ Follow) /\ SF_vars(BootHeard /\ Follow)
    /\ WF_vars(Retry /\ Follow)
    /\ WF_vars(ServerStep) /\ SF_vars(LoadHeard(wanted))

-----------------------------------------------------------------------------
Loads == [token : Tokens, stage : Stages]

PageTypeOK ==
    /\ phase \in Phases
    /\ stored \in Tokens /\ accepts \in 1 .. MaxToken
    /\ submitted \in BOOLEAN /\ failed \in BOOLEAN
    /\ server \in {"up", "down", "silent"}
    /\ boot \in Requests /\ posts \subseteq Requests
    /\ shown \in [settled : BOOLEAN, current : BOOLEAN, stale : BOOLEAN, error : BOOLEAN]
    /\ wanted \in Loads /\ late \subseteq Loads

(***************************************************************************)
(* The gate is raised only when the stored token is not accepted: no late  *)
(* 401, of a POST that outlived its page or of an abandoned load, throws a *)
(* user out who has passed the gate with a new token (reportUnauthorized). *)
(***************************************************************************)
GateForAReason ==
    [][phase # "unauthorized" /\ phase' = "unauthorized" => stored # accepts]_vars

(***************************************************************************)
(* "That token wasn't accepted" is said of the stored token, after the     *)
(* user submitted it, and only when it is true (gateFailed, submittedRef). *)
(***************************************************************************)
RejectionIsTrue ==
    phase = "unauthorized" /\ failed => submitted /\ stored # accepts

(***************************************************************************)
(* Once the right token is stored and the server stays, the dashboard      *)
(* comes up and stays up, whatever is still under way with older tokens    *)
(* and however often the server was unreachable or silent before.          *)
(***************************************************************************)
RightTokenGetsIn ==
    <>[](stored = accepts /\ server = "up") => <>[](phase = "ready")

(***************************************************************************)
(* What the charts show neither dimmed nor with an error notice answers    *)
(* the newest load, hence the selected range: no answer to an abandoned    *)
(* range or an overtaken refresh replaces it (useHistory).                 *)
(***************************************************************************)
ShownIsCurrent ==
    phase = "ready" /\ shown.settled /\ ~shown.stale /\ ~shown.error
        => shown.current

(***************************************************************************)
(* A chart does not stay dimmed for as long as requests are answered or    *)
(* fail: neither a dead backend, a busy server nor a refresh that          *)
(* overtakes the last one leaves it so (useHistory).                       *)
(***************************************************************************)
DimmingEnds == <>[]Answers => []<>(~shown.stale)
=============================================================================
