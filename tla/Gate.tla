-------------------------------- MODULE Gate --------------------------------
(***************************************************************************)
(* web/src/App.tsx with the token functions of lib/api.ts: the boot        *)
(* request, the phases of the dashboard, the token gate, and requests that *)
(* outlive the page that sent them.                                        *)
(*                                                                         *)
(* A token is a number: the server accepts tokens 1, 2, ... one after the  *)
(* other, as its owner rotates them; 0 stands for no token and for a wrong *)
(* one.  A server without a token raises no gate and is left out.  One tab *)
(* is modelled; nothing else writes its local storage.                     *)
(***************************************************************************)
EXTENDS Naturals, FiniteSets

CONSTANTS
    MaxToken,   \* bound: tokens the server accepts in turn
    MaxPosts    \* bound: POSTs of pages under way at once

ASSUME GateAssumption == MaxToken \in Nat \ {0} /\ MaxPosts \in Nat

VARIABLES
    phase,      \* boot.phase: "loading", "unauthorized", "error" or "ready"
    stored,     \* the token in local storage
    submitted,  \* submittedRef
    failed,     \* gateFailed: the gate says that the token was not accepted
    boot,       \* the request of the current attempt
    posts,      \* POSTs (restart, test mail) nobody has heard the answer of
    accepts,    \* the token the server accepts
    server      \* "up", "down" (requests fail) or "silent" (it, or something on
                \* the way, swallows them: no request of the page has a timeout)

gateVars == <<phase, stored, submitted, failed, boot, posts, accepts, server>>

Phases == {"loading", "unauthorized", "error", "ready"}
Tokens == 0 .. MaxToken
Requests == [token : Tokens,
             answer : {"none", "ok", "unauthorized", "failed", "over"}]

(***************************************************************************)
(* authHeaders: a request carries the token that is stored when it is sent.*)
(***************************************************************************)
Request(token) == [token |-> token, answer |-> "none"]

(***************************************************************************)
(* withTokenAuth, or an error.  A request that was swallowed is answered,  *)
(* or fails, when the silence is over.                                     *)
(***************************************************************************)
Answers == server # "silent"

Verdict(token) ==
    IF server = "down" THEN "failed" ELSE IF token = accepts THEN "ok" ELSE "unauthorized"

GateInit ==
    /\ phase = "loading"
    /\ stored \in {0, 1} /\ accepts = 1
    /\ submitted = FALSE /\ failed = FALSE
    /\ boot = Request(stored)
    /\ posts = {}
    /\ server \in {"up", "down", "silent"}

-----------------------------------------------------------------------------
(* Mutant: every 401 raises the gate. *)
ReportAlways(token) == phase' = "unauthorized"

(***************************************************************************)
(* reportUnauthorized: the 401 of a request sent with a token that has     *)
(* been replaced since raises no gate.                                     *)
(***************************************************************************)
Report(token) ==
    IF token = stored THEN phase' = "unauthorized" ELSE UNCHANGED phase

(***************************************************************************)
(* updateServers: the overview's stream sets the phase it is mounted in.   *)
(* It outweighs a gate that is raised in the same rendering.               *)
(***************************************************************************)
UpdateServers == phase = "ready" /\ phase' = "ready"

(***************************************************************************)
(* The server answers the boot request; the page hears the answer.         *)
(***************************************************************************)
BootAnswered ==
    /\ boot.answer = "none" /\ Answers
    /\ boot' = [boot EXCEPT !.answer = Verdict(boot.token)]
    /\ UNCHANGED <<phase, stored, submitted, failed, posts, accepts, server>>

BootHeard ==
    /\ boot.answer \in {"ok", "unauthorized", "failed"}
    /\ boot' = [boot EXCEPT !.answer = "over"]
    /\ \/ boot.answer = "ok" /\ phase' = "ready" /\ failed' = FALSE
       \/ boot.answer = "unauthorized" /\ phase' = "unauthorized" /\ failed' = submitted
       \/ boot.answer = "failed" /\ phase' = "error" /\ UNCHANGED failed
    /\ UNCHANGED <<stored, submitted, posts, accepts, server>>

(* Mutant: only the button tries again, no timer does. *)
RetryNever == phase = "error" /\ UNCHANGED gateVars

(***************************************************************************)
(* In phase "error" the interval, or the button, starts another attempt; a *)
(* request still under way is aborted.                                     *)
(***************************************************************************)
Retry ==
    /\ phase = "error"
    /\ boot' = Request(stored)
    /\ UNCHANGED <<phase, stored, submitted, failed, posts, accepts, server>>

(* Mutant: a new attempt does not take back the last rejection. *)
SaveTokenStillFailed(token) ==
    /\ phase = "unauthorized"
    /\ stored' = token /\ submitted' = TRUE
    /\ boot' = Request(token)
    /\ UNCHANGED <<phase, failed, posts, accepts, server>>

(***************************************************************************)
(* saveToken.  The gate stays up until the attempt it starts is answered.  *)
(***************************************************************************)
SaveToken(token) ==
    /\ phase = "unauthorized"
    /\ stored' = token /\ submitted' = TRUE /\ failed' = FALSE
    /\ boot' = Request(token)
    /\ UNCHANGED <<phase, posts, accepts, server>>

(***************************************************************************)
(* The button "Forget access token": the token is removed and the page     *)
(* loaded anew, which ends everything it had under way.                    *)
(***************************************************************************)
Forget ==
    /\ phase = "ready" /\ stored # 0
    /\ stored' = 0 /\ submitted' = FALSE /\ failed' = FALSE
    /\ phase' = "loading"
    /\ boot' = Request(0)
    /\ posts' = {}
    /\ UNCHANGED <<accepts, server>>

(***************************************************************************)
(* rebootServer and sendTestAlertEmail: POSTs without an abort signal.     *)
(* They outlive the page, and their 401 may come when the gate has been    *)
(* passed with another token.                                              *)
(***************************************************************************)
PostSent ==
    /\ phase = "ready"
    /\ Cardinality(posts) < MaxPosts
    /\ posts' = posts \cup {Request(stored)}
    /\ UNCHANGED <<phase, stored, submitted, failed, boot, accepts, server>>

PostAnswered(post) ==
    /\ post.answer = "none" /\ Answers
    /\ posts' = (posts \ {post}) \cup {[post EXCEPT !.answer = Verdict(post.token)]}
    /\ UNCHANGED <<phase, stored, submitted, failed, boot, accepts, server>>

PostHeard(post) ==
    /\ post.answer # "none"
    /\ posts' = posts \ {post}
    /\ IF post.answer = "unauthorized"
       THEN Report(post.token) \/ UpdateServers
       ELSE UNCHANGED phase
    /\ UNCHANGED <<stored, submitted, failed, boot, accepts, server>>

(***************************************************************************)
(* The server is given another token, goes away, falls silent, comes back. *)
(***************************************************************************)
Rotate ==
    /\ accepts < MaxToken
    /\ accepts' = accepts + 1
    /\ UNCHANGED <<phase, stored, submitted, failed, boot, posts, server>>

ServerChanges ==
    /\ server' \in {"up", "down", "silent"} \ {server}
    /\ UNCHANGED <<phase, stored, submitted, failed, boot, posts, accepts>>

GateNext ==
    \/ BootAnswered \/ BootHeard \/ Retry
    \/ \E token \in 0 .. accepts : SaveToken(token)
    \/ Forget
    \/ PostSent
    \/ \E post \in posts : PostAnswered(post) \/ PostHeard(post)
    \/ Rotate \/ ServerChanges
=============================================================================
