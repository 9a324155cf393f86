----------------------------- MODULE PageProofs -----------------------------
(***************************************************************************)
(* The dashboard's tab for any number of tokens, POSTs and late answers.   *)
(* The argument: tokens only age.  Every request carries the token that    *)
(* was stored when it was sent, so none carries one the server has yet to  *)
(* get, and one that was refused is refused for good.                      *)
(***************************************************************************)
EXTENDS Page, TLAPS

(* What a request, sent with token and answered so, says of the token. *)
Aged(token, refused) == token <= accepts /\ (refused => token < accepts)

TokensAge ==
    /\ stored <= accepts
    /\ boot.token = stored
    /\ boot.answer = "unauthorized" => boot.token < accepts
    /\ \A post \in posts : Aged(post.token, post.answer = "unauthorized")
    /\ \A l \in late \cup {wanted} : Aged(l.token, l.stage = "unauthorized")

RejectedSince == failed => submitted /\ stored < accepts

(* A step of each kind, by name: the cases of the proofs below. *)
LEMMA StepCases ==
    ASSUME [PageNext]_vars
    PROVE  \/ BootAnswered /\ Follow
           \/ BootHeard /\ Follow
           \/ Retry /\ Follow
           \/ \E token \in 0 .. accepts : SaveToken(token) /\ Follow
           \/ Forget /\ Follow
           \/ PostSent /\ Follow
           \/ \E post \in posts : PostAnswered(post) /\ Follow
           \/ \E post \in posts : PostHeard(post) /\ Follow
           \/ Rotate /\ Follow
           \/ ServerChanges /\ Follow
           \/ HistoryStep
           \/ \E l \in late \cup {wanted} : LoadHeard(l)
           \/ ServerStep
           \/ UNCHANGED vars
  BY DEF PageNext, AppStep, GateNext

-----------------------------------------------------------------------------
(* Types: App's variables, then the hook's. *)

AppTypeOK ==
    /\ phase \in Phases
    /\ stored \in Tokens /\ accepts \in 1 .. MaxToken
    /\ submitted \in BOOLEAN /\ failed \in BOOLEAN
    /\ server \in {"up", "down", "silent"}
    /\ boot \in Requests /\ posts \subseteq Requests

HookTypeOK ==
    /\ shown \in [settled : BOOLEAN, current : BOOLEAN, stale : BOOLEAN, error : BOOLEAN]
    /\ wanted \in Loads /\ late \subseteq Loads

LEMMA TypesTogether == PageTypeOK <=> AppTypeOK /\ HookTypeOK
  BY DEF PageTypeOK, AppTypeOK, HookTypeOK

LEMMA NewRequest ==
    ASSUME NEW token \in Tokens
    PROVE  Request(token) \in Requests
  BY DEF Request, Requests

LEMMA VerdictType ==
    ASSUME NEW token
    PROVE  Verdict(token) \in {"ok", "unauthorized", "failed"}
  BY DEF Verdict

(***************************************************************************)
(* What the hook may do to its own variables, with a token that is one.    *)
(***************************************************************************)
HookMoves ==
    \/ UNCHANGED historyVars
    \/ Mount(stored) \/ Unmount \/ Load(stored)
    \/ LoadAnswered(Verdict(wanted.token))
    \/ \E l \in late \cup {wanted} :
          \/ PointsArrive(l) \/ LoadFails(l)
          \/ late' = late \ {l} /\ wanted' = NoLoad /\ shown' = Nothing

LEMMA HookSteps ==
    ASSUME [PageNext]_vars
    PROVE  HookMoves
<1>1. ASSUME Follow  PROVE HookMoves
  BY <1>1 DEF Follow, HookMoves
<1>2. CASE HistoryStep  BY <1>2 DEF HistoryStep, HookMoves
<1>3. ASSUME NEW l \in late \cup {wanted}, LoadHeard(l)
      PROVE  HookMoves
  BY <1>3 DEF LoadHeard, HookMoves
<1>4. CASE ServerStep  BY <1>4 DEF ServerStep, HookMoves
<1>5. CASE UNCHANGED vars  BY <1>5 DEF vars, HookMoves
<1> QED  BY StepCases, <1>1, <1>2, <1>3, <1>4, <1>5

LEMMA AppTypeStep ==
    ASSUME AppTypeOK, HookTypeOK, [PageNext]_vars
    PROVE  AppTypeOK'
<1> USE DEF AppTypeOK, Tokens, Phases
<1>1. CASE BootAnswered
  <2>1. boot' \in Requests
    BY <1>1, VerdictType DEF BootAnswered, Requests
  <2> QED  BY <1>1, <2>1 DEF BootAnswered
<1>2. CASE BootHeard
  <2>1. boot' \in Requests
    BY <1>2 DEF BootHeard, Requests
  <2> QED  BY <1>2, <2>1 DEF BootHeard
<1>3. CASE Retry
  <2>1. boot' \in Requests
    BY <1>3, NewRequest DEF Retry
  <2> QED  BY <1>3, <2>1 DEF Retry
<1>4. ASSUME NEW token \in 0 .. accepts, SaveToken(token)
      PROVE  AppTypeOK'
  <2>1. token \in Tokens
    BY GateAssumption
  <2>2. boot' \in Requests
    BY <1>4, <2>1, NewRequest DEF SaveToken
  <2> QED  BY <1>4, <2>1, <2>2 DEF SaveToken
<1>5. CASE Forget
  <2>1. 0 \in Tokens
    BY GateAssumption
  <2>2. boot' \in Requests
    BY <1>5, <2>1, NewRequest DEF Forget
  <2> QED  BY <1>5, <2>1, <2>2 DEF Forget
<1>6. CASE PostSent
  <2>1. posts' \subseteq Requests
    BY <1>6, NewRequest DEF PostSent
  <2> QED  BY <1>6, <2>1 DEF PostSent
<1>7. ASSUME NEW post \in posts, PostAnswered(post)
      PROVE  AppTypeOK'
  <2>1. [post EXCEPT !.answer = Verdict(post.token)] \in Requests
    BY VerdictType DEF Requests
  <2>2. posts' \subseteq Requests
    BY <1>7, <2>1 DEF PostAnswered
  <2> QED  BY <1>7, <2>2 DEF PostAnswered
<1>8. ASSUME NEW post \in posts, PostHeard(post)
      PROVE  AppTypeOK'
  BY <1>8 DEF PostHeard, Report, UpdateServers
<1>9. CASE Rotate  BY <1>9, GateAssumption DEF Rotate
<1>10. CASE ServerChanges  BY <1>10 DEF ServerChanges
<1>11. CASE HistoryStep  BY <1>11 DEF HistoryStep, gateVars
<1>12. ASSUME NEW l \in late \cup {wanted}, LoadHeard(l)
       PROVE  AppTypeOK'
  BY <1>12 DEF LoadHeard, Report, gateVars, RestOfGate
<1>13. CASE ServerStep  BY <1>13 DEF ServerStep, gateVars
<1>14. CASE UNCHANGED vars  BY <1>14 DEF vars, gateVars
<1> QED
  BY StepCases, <1>1, <1>2, <1>3, <1>4, <1>5, <1>6, <1>7, <1>8, <1>9, <1>10, <1>11, <1>12, <1>13, <1>14

LEMMA HookTypeStep ==
    ASSUME AppTypeOK, HookTypeOK, [PageNext]_vars
    PROVE  HookTypeOK'
<1> USE DEF HookTypeOK
<1>1. NoLoad \in Loads /\ Nothing \in
        [settled : BOOLEAN, current : BOOLEAN, stale : BOOLEAN, error : BOOLEAN]
  BY GateAssumption DEF NoLoad, Nothing, Loads, Tokens, Stages
<1>2. [token |-> stored, stage |-> "sent"] \in Loads
  BY DEF AppTypeOK, Loads, Stages
<1>3. ASSUME Abandon  PROVE late' \subseteq Loads
  BY <1>3 DEF Abandon
<1>4. CASE UNCHANGED historyVars  BY <1>4 DEF historyVars
<1>5. CASE Mount(stored)  BY <1>1, <1>2, <1>5 DEF Mount
<1>6. CASE Unmount  BY <1>1, <1>3, <1>6 DEF Unmount
<1>7. CASE Load(stored)  BY <1>2, <1>3, <1>7 DEF Load
<1>8. CASE LoadAnswered(Verdict(wanted.token))
  <2>1. wanted' \in Loads
    BY <1>8, VerdictType DEF LoadAnswered, Loads, Stages
  <2> QED  BY <1>8, <2>1 DEF LoadAnswered
<1>9. ASSUME NEW l \in late \cup {wanted}, Forgotten(l)
      PROVE  wanted' \in Loads /\ late' \subseteq Loads
  BY <1>1, <1>9 DEF Forgotten
<1>10. ASSUME NEW l \in late \cup {wanted}, PointsArrive(l)
       PROVE  HookTypeOK'
  BY <1>9, <1>10 DEF PointsArrive, Points
<1>11. ASSUME NEW l \in late \cup {wanted}, LoadFails(l)
       PROVE  HookTypeOK'
  BY <1>9, <1>11 DEF LoadFails
<1>12. ASSUME NEW l \in late \cup {wanted},
              late' = late \ {l}, wanted' = NoLoad, shown' = Nothing
       PROVE  HookTypeOK'
  BY <1>1, <1>12
<1> QED
  BY HookSteps, <1>4, <1>5, <1>6, <1>7, <1>8, <1>10, <1>11, <1>12 DEF HookMoves

(***************************************************************************)
(* Every variable of the tab keeps its type.                               *)
(***************************************************************************)
THEOREM TypeCorrect == PageSpec => []PageTypeOK
<1>1. ASSUME PageInit
      PROVE  PageTypeOK
  <2>1. stored \in Tokens /\ accepts \in 1 .. MaxToken
    BY <1>1, GateAssumption DEF PageInit, GateInit, Tokens
  <2>2. AppTypeOK
    BY <1>1, <2>1, NewRequest DEF PageInit, GateInit, AppTypeOK, Phases
  <2>3. HookTypeOK
    BY <1>1, GateAssumption
    DEF PageInit, HistoryInit, HookTypeOK, Loads, NoLoad, Nothing, Tokens, Stages
  <2> QED  BY <2>2, <2>3, TypesTogether
<1>2. PageTypeOK /\ [PageNext]_vars => PageTypeOK'
  BY TypesTogether, AppTypeStep, HookTypeStep
  DEF PageTypeOK, AppTypeOK, HookTypeOK
<1> QED  BY <1>1, <1>2, PTL DEF PageSpec

-----------------------------------------------------------------------------
(* Tokens only age. *)

(* The token stored is at most the one accepted, and was sent with the boot. *)
LEMMA StoredAges ==
    ASSUME AppTypeOK, stored <= accepts, boot.token = stored, [PageNext]_vars
    PROVE  /\ stored' <= accepts' /\ accepts <= accepts'
           /\ boot'.token = stored'
<1> USE DEF AppTypeOK, Tokens, Requests
<1>1. CASE BootAnswered  BY <1>1 DEF BootAnswered
<1>2. CASE BootHeard  BY <1>2 DEF BootHeard
<1>3. CASE Retry  BY <1>3 DEF Retry, Request
<1>4. ASSUME NEW token \in 0 .. accepts, SaveToken(token)
      PROVE  stored' <= accepts' /\ accepts <= accepts' /\ boot'.token = stored'
  BY <1>4 DEF SaveToken, Request
<1>5. CASE Forget  BY <1>5 DEF Forget, Request
<1>6. CASE Rotate  BY <1>6 DEF Rotate
<1>7. ASSUME UNCHANGED <<stored, boot, accepts>>
      PROVE  stored' <= accepts' /\ accepts <= accepts' /\ boot'.token = stored'
  BY <1>7
<1>8. CASE PostSent  BY <1>7, <1>8 DEF PostSent
<1>9. ASSUME NEW post \in posts, PostAnswered(post) \/ PostHeard(post)
      PROVE  UNCHANGED <<stored, boot, accepts>>
  BY <1>9 DEF PostAnswered, PostHeard
<1>10. CASE ServerChanges  BY <1>7, <1>10 DEF ServerChanges
<1>11. CASE HistoryStep \/ ServerStep  BY <1>7, <1>11 DEF HistoryStep, ServerStep, gateVars
<1>12. ASSUME NEW l \in late \cup {wanted}, LoadHeard(l)
       PROVE  UNCHANGED <<stored, boot, accepts>>
  BY <1>12 DEF LoadHeard, gateVars, RestOfGate
<1>13. CASE UNCHANGED vars  BY <1>7, <1>13 DEF vars, gateVars
<1> QED
  BY StepCases, <1>1, <1>2, <1>3, <1>4, <1>5, <1>6, <1>7, <1>8, <1>9, <1>10, <1>11, <1>12, <1>13

(* A refusal means that the server accepts a later token. *)
LEMMA RefusedIsOld ==
    ASSUME NEW token \in Nat, accepts \in Nat, token <= accepts,
           Verdict(token) = "unauthorized"
    PROVE  token < accepts
  BY DEF Verdict

LEMMA BootAges ==
    ASSUME AppTypeOK, stored <= accepts, boot.token = stored,
           boot.answer = "unauthorized" => boot.token < accepts,
           accepts' \in Nat, [PageNext]_vars
    PROVE  boot'.answer = "unauthorized" => boot'.token < accepts'
<1> USE DEF AppTypeOK, Tokens, Requests
<1>1. accepts <= accepts'
  BY StoredAges
<1>2. CASE BootAnswered
  BY <1>2, RefusedIsOld DEF BootAnswered
<1>3. CASE BootHeard  BY <1>3 DEF BootHeard
<1>4. CASE Retry  BY <1>4 DEF Retry, Request
<1>5. ASSUME NEW token \in 0 .. accepts, SaveToken(token)
      PROVE  boot'.answer = "none"
  BY <1>5 DEF SaveToken, Request
<1>6. CASE Forget  BY <1>6 DEF Forget, Request
<1>7. ASSUME UNCHANGED boot
      PROVE  boot'.answer = "unauthorized" => boot'.token < accepts'
  BY <1>1, <1>7
<1>8. CASE PostSent \/ Rotate \/ ServerChanges  BY <1>7, <1>8 DEF PostSent, Rotate, ServerChanges
<1>9. ASSUME NEW post \in posts, PostAnswered(post) \/ PostHeard(post)
      PROVE  UNCHANGED boot
  BY <1>9 DEF PostAnswered, PostHeard
<1>10. CASE HistoryStep \/ ServerStep  BY <1>7, <1>10 DEF HistoryStep, ServerStep, gateVars
<1>11. ASSUME NEW l \in late \cup {wanted}, LoadHeard(l)
       PROVE  UNCHANGED boot
  BY <1>11 DEF LoadHeard, gateVars, RestOfGate
<1>12. CASE UNCHANGED vars  BY <1>7, <1>12 DEF vars, gateVars
<1> QED
  BY StepCases, <1>2, <1>3, <1>4, <1>5, <1>6, <1>7, <1>8, <1>9, <1>10, <1>11, <1>12

LEMMA PostsAge ==
    ASSUME AppTypeOK, stored <= accepts, boot.token = stored,
           \A post \in posts : Aged(post.token, post.answer = "unauthorized"),
           accepts' \in Nat, [PageNext]_vars
    PROVE  \A post \in posts' : Aged(post.token, post.answer = "unauthorized")'
<1> USE DEF Aged
<1>1. accepts <= accepts'
  BY StoredAges
<1>2. ASSUME NEW post \in posts
      PROVE  Aged(post.token, post.answer = "unauthorized")'
  BY <1>1, <1>2 DEF AppTypeOK, Requests, Tokens
<1>3. CASE posts' \subseteq posts  BY <1>2, <1>3
<1>4. CASE PostSent
  <2>1. stored <= accepts'
    BY <1>1 DEF AppTypeOK, Tokens
  <2> QED  BY <1>2, <1>4, <2>1 DEF PostSent, Request
<1>5. ASSUME NEW post \in posts, PostAnswered(post)
      PROVE  \A other \in posts' : Aged(other.token, other.answer = "unauthorized")'
  <2>0. PICK verdict : verdict = Verdict(post.token)
    OBVIOUS
  <2> DEFINE answered == [post EXCEPT !.answer = verdict]
  <2>1. /\ answered.token = post.token /\ answered.answer = verdict
        /\ post.token \in Nat /\ accepts \in Nat /\ post.token <= accepts
    BY DEF AppTypeOK, Requests, Tokens
  <2>2. accepts' = accepts
    BY <1>5 DEF PostAnswered
  <2>3. answered.answer = "unauthorized" => answered.token < accepts
    BY <2>0, <2>1, RefusedIsOld
  <2>4. Aged(answered.token, answered.answer = "unauthorized")'
    BY <2>1, <2>2, <2>3
  <2>5. posts' = (posts \ {post}) \cup {answered}
    BY <1>5, <2>0 DEF PostAnswered
  <2> HIDE DEF answered
  <2> QED  BY <1>2, <2>4, <2>5
<1>6. CASE BootAnswered \/ BootHeard \/ Retry \/ Forget \/ Rotate \/ ServerChanges
  BY <1>3, <1>6 DEF BootAnswered, BootHeard, Retry, Forget, Rotate, ServerChanges
<1>7. ASSUME NEW token \in 0 .. accepts, SaveToken(token)
      PROVE  posts' \subseteq posts
  BY <1>7 DEF SaveToken
<1>8. ASSUME NEW post \in posts, PostHeard(post)
      PROVE  posts' \subseteq posts
  BY <1>8 DEF PostHeard
<1>9. CASE HistoryStep \/ ServerStep  BY <1>3, <1>9 DEF HistoryStep, ServerStep, gateVars
<1>10. ASSUME NEW l \in late \cup {wanted}, LoadHeard(l)
       PROVE  posts' \subseteq posts
  BY <1>10 DEF LoadHeard, gateVars, RestOfGate
<1>11. CASE UNCHANGED vars  BY <1>3, <1>11 DEF vars, gateVars
<1> QED
  BY StepCases, <1>3, <1>4, <1>5, <1>6, <1>7, <1>8, <1>9, <1>10, <1>11

LEMMA LoadsAge ==
    ASSUME AppTypeOK, HookTypeOK, stored <= accepts, boot.token = stored,
           \A l \in late \cup {wanted} : Aged(l.token, l.stage = "unauthorized"),
           accepts' \in Nat, [PageNext]_vars
    PROVE  \A l \in (late \cup {wanted})' : Aged(l.token, l.stage = "unauthorized")'
<1> USE DEF Aged
<1>1. accepts <= accepts'
  BY StoredAges
<1>2. ASSUME NEW l \in late \cup {wanted}
      PROVE  Aged(l.token, l.stage = "unauthorized")'
  BY <1>1, <1>2 DEF AppTypeOK, HookTypeOK, Loads, Tokens
<1>3. /\ 0 <= accepts' /\ NoLoad.token = 0 /\ NoLoad.stage # "unauthorized"
  BY DEF NoLoad
<1>4. Aged(NoLoad.token, NoLoad.stage = "unauthorized")'
  BY <1>3
<1>5. Aged(stored, FALSE)'  BY StoredAges
<1>6. stored <= accepts'
  BY <1>1 DEF AppTypeOK, Tokens
<1>7. ASSUME Abandon  PROVE late' \subseteq late \cup {wanted}
  BY <1>7 DEF Abandon
<1>8. CASE UNCHANGED historyVars  BY <1>2, <1>8 DEF historyVars
<1>9. ASSUME wanted' = [token |-> stored, stage |-> "sent"],
             late' \subseteq late \cup {wanted}
      PROVE  \A l \in (late \cup {wanted})' : Aged(l.token, l.stage = "unauthorized")'
  BY <1>2, <1>6, <1>9
<1>10. ASSUME wanted' \in {wanted, NoLoad}, late' \subseteq late \cup {wanted}
       PROVE  \A l \in (late \cup {wanted})' : Aged(l.token, l.stage = "unauthorized")'
  BY <1>2, <1>4, <1>10
<1>11. CASE Mount(stored)  BY <1>9, <1>11 DEF Mount
<1>12. CASE Unmount  BY <1>7, <1>10, <1>12 DEF Unmount
<1>13. CASE Load(stored)  BY <1>7, <1>9, <1>13 DEF Load
<1>14. ASSUME NEW l \in late \cup {wanted}, Forgotten(l)
       PROVE  wanted' \in {wanted, NoLoad} /\ late' \subseteq late \cup {wanted}
  BY <1>14 DEF Forgotten
<1>15. ASSUME NEW l \in late \cup {wanted},
              \/ PointsArrive(l) \/ LoadFails(l)
              \/ late' = late \ {l} /\ wanted' = NoLoad /\ shown' = Nothing
       PROVE  \A m \in (late \cup {wanted})' : Aged(m.token, m.stage = "unauthorized")'
  BY <1>10, <1>14, <1>15 DEF PointsArrive, LoadFails
<1>16. CASE ServerStep
  <2>1. PICK stage \in IF Verdict(wanted.token) = "ok" THEN {"points", "failed"}
                       ELSE {Verdict(wanted.token)} :
              wanted' = [wanted EXCEPT !.stage = stage]
    BY <1>16 DEF ServerStep, LoadAnswered
  <2>2. /\ wanted'.token = wanted.token /\ wanted'.stage = stage
        /\ wanted.token \in Nat /\ accepts \in Nat /\ wanted.token <= accepts
    BY <2>1 DEF HookTypeOK, Loads, AppTypeOK, Tokens
  <2>3. UNCHANGED <<late, accepts>>
    BY <1>16 DEF ServerStep, LoadAnswered, gateVars
  <2>4. stage = "unauthorized" => wanted.token < accepts
    BY <2>2, RefusedIsOld
  <2> QED  BY <1>2, <2>2, <2>3, <2>4
<1> QED
  <2>1. ServerStep \/ UNCHANGED historyVars \/ Mount(stored) \/ Unmount \/ Load(stored)
          \/ \E l \in late \cup {wanted} :
                \/ PointsArrive(l) \/ LoadFails(l)
                \/ late' = late \ {l} /\ wanted' = NoLoad /\ shown' = Nothing
    BY StepCases DEF Follow, HistoryStep, LoadHeard, vars
  <2> QED  BY <2>1, <1>8, <1>11, <1>12, <1>13, <1>15, <1>16

LEMMA TokensAgeHolds == PageSpec => []TokensAge
<1>1. ASSUME PageInit
      PROVE  TokensAge
  BY <1>1, GateAssumption
  DEF PageInit, GateInit, HistoryInit, TokensAge, Aged, Request, NoLoad
<1>2. ASSUME PageTypeOK, PageTypeOK', TokensAge, [PageNext]_vars
      PROVE  TokensAge'
  <2>1. /\ AppTypeOK /\ HookTypeOK /\ accepts' \in Nat
    BY <1>2, TypesTogether DEF PageTypeOK
  <2>2. stored' <= accepts' /\ boot'.token = stored'
    BY <1>2, <2>1, StoredAges DEF TokensAge
  <2>3. boot'.answer = "unauthorized" => boot'.token < accepts'
    BY <1>2, <2>1, BootAges DEF TokensAge
  <2>4. \A post \in posts' : Aged(post.token, post.answer = "unauthorized")'
    BY <1>2, <2>1, PostsAge DEF TokensAge
  <2>5. \A l \in (late \cup {wanted})' : Aged(l.token, l.stage = "unauthorized")'
    BY <1>2, <2>1, LoadsAge DEF TokensAge
  <2> QED  BY <2>2, <2>3, <2>4, <2>5 DEF TokensAge
<1> QED  BY <1>1, <1>2, TypeCorrect, PTL DEF PageSpec

(* A boot attempt that is refused was sent with the token still stored. *)
LEMMA RejectedSinceStep ==
    ASSUME AppTypeOK, TokensAge, RejectedSince, [PageNext]_vars
    PROVE  RejectedSince'
<1> USE DEF RejectedSince
<1>1. ASSUME UNCHANGED <<failed, submitted, stored>>
      PROVE  RejectedSince'
  <2>1. accepts <= accepts' /\ accepts' \in Nat
    <3>1. accepts' \in {accepts, accepts + 1}
      BY StepCases
      DEF BootAnswered, BootHeard, Retry, SaveToken, Forget, PostSent, PostAnswered,
          PostHeard, Rotate, ServerChanges, HistoryStep, LoadHeard, ServerStep, gateVars,
          RestOfGate, vars
    <3> QED  BY <3>1 DEF AppTypeOK
  <2> QED  BY <1>1, <2>1 DEF AppTypeOK, Tokens
<1>2. CASE BootHeard  BY <1>2 DEF BootHeard, TokensAge
<1>3. ASSUME NEW token \in 0 .. accepts, SaveToken(token)
      PROVE  ~failed'
  BY <1>3 DEF SaveToken
<1>4. CASE Forget  BY <1>4 DEF Forget
<1>5. CASE BootAnswered \/ Retry \/ PostSent \/ Rotate \/ ServerChanges
  BY <1>1, <1>5 DEF BootAnswered, Retry, PostSent, Rotate, ServerChanges
<1>6. ASSUME NEW post \in posts, PostAnswered(post) \/ PostHeard(post)
      PROVE  UNCHANGED <<failed, submitted, stored>>
  BY <1>6 DEF PostAnswered, PostHeard
<1>7. ASSUME NEW l \in late \cup {wanted}, LoadHeard(l)
      PROVE  UNCHANGED <<failed, submitted, stored>>
  BY <1>7 DEF LoadHeard, gateVars, RestOfGate
<1>8. CASE HistoryStep \/ ServerStep  BY <1>1, <1>8 DEF HistoryStep, ServerStep, gateVars
<1>9. CASE UNCHANGED vars  BY <1>1, <1>9 DEF vars, gateVars
<1> QED
  BY StepCases, <1>1, <1>2, <1>3, <1>4, <1>5, <1>6, <1>7, <1>8, <1>9

(***************************************************************************)
(* "That token wasn't accepted" is only said when the user submitted the   *)
(* token that is stored and the server does not accept it (App.tsx).       *)
(***************************************************************************)
THEOREM RejectionsAreTrue == PageSpec => []RejectionIsTrue
<1>1. PageInit => RejectedSince
  BY DEF PageInit, GateInit, RejectedSince
<1>2. PageTypeOK /\ TokensAge /\ RejectedSince /\ [PageNext]_vars => RejectedSince'
  BY RejectedSinceStep, TypesTogether
<1>3. PageTypeOK /\ RejectedSince => RejectionIsTrue
  BY DEF PageTypeOK, RejectedSince, RejectionIsTrue, Tokens
<1> QED  BY <1>1, <1>2, <1>3, TypeCorrect, TokensAgeHolds, PTL DEF PageSpec

(***************************************************************************)
(* The gate is raised only when the stored token is not accepted, however  *)
(* many requests with older tokens are still to be answered                *)
(* (reportUnauthorized, App's boot effect).                                *)
(***************************************************************************)
THEOREM GateRaisedForAReason == PageSpec => GateForAReason
<1>1. ASSUME PageTypeOK, TokensAge, [PageNext]_vars,
             phase # "unauthorized", phase' = "unauthorized"
      PROVE  stored # accepts
  <2> USE DEF TokensAge, Aged
  <2>1. stored \in Nat /\ accepts \in Nat
    BY <1>1 DEF PageTypeOK, Tokens
  <2>2. CASE BootHeard  BY <1>1, <2>1, <2>2 DEF BootHeard
  <2>3. ASSUME NEW post \in posts, PostHeard(post)
        PROVE  stored # accepts
    BY <1>1, <2>1, <2>3 DEF PostHeard, Report, UpdateServers
  <2>4. ASSUME NEW l \in late \cup {wanted}, LoadHeard(l)
        PROVE  stored # accepts
    BY <1>1, <2>1, <2>4 DEF LoadHeard, Report, gateVars
  <2>5. ~ \E token \in 0 .. accepts : SaveToken(token)
    BY <1>1 DEF SaveToken
  <2>6. ~UNCHANGED phase
    BY <1>1
  <2> QED
    BY StepCases, <1>1, <2>2, <2>3, <2>4, <2>5, <2>6
    DEF BootAnswered, Retry, Forget, PostSent, PostAnswered, Rotate, ServerChanges,
        HistoryStep, ServerStep, gateVars, vars
<1>2. PageTypeOK /\ TokensAge /\ [PageNext]_vars
        => [phase # "unauthorized" /\ phase' = "unauthorized" => stored # accepts]_vars
  BY <1>1
<1>3. PageSpec => [][PageNext]_vars
  BY PTL DEF PageSpec
<1> QED  BY <1>2, <1>3, TypeCorrect, TokensAgeHolds, PTL DEF GateForAReason

-----------------------------------------------------------------------------
(* What the charts show. *)

Undimmed == shown.settled /\ ~shown.stale /\ ~shown.error => shown.current

LEMMA UndimmedStep ==
    ASSUME HookTypeOK, Undimmed, [PageNext]_vars
    PROVE  Undimmed'
<1> USE DEF Undimmed, HookTypeOK
<1>1. CASE UNCHANGED shown  BY <1>1
<1>2. ASSUME shown' = Nothing  PROVE Undimmed'
  BY <1>2 DEF Nothing
<1>3. CASE Load(stored)
  BY <1>3 DEF Load
<1>4. ASSUME NEW l \in late \cup {wanted}, PointsArrive(l)
      PROVE  Undimmed'
  BY <1>4 DEF PointsArrive, Points
<1>5. ASSUME NEW l \in late \cup {wanted}, LoadFails(l)
      PROVE  Undimmed'
  BY <1>5 DEF LoadFails
<1> QED
  BY HookSteps, <1>1, <1>2, <1>3, <1>4, <1>5
  DEF HookMoves, Mount, Unmount, LoadAnswered, historyVars

(***************************************************************************)
(* Points that are neither dimmed nor under an error notice answer the     *)
(* newest load of the selected range (useHistory).                         *)
(***************************************************************************)
THEOREM ShownAnswersNewest == PageSpec => []ShownIsCurrent
<1>1. PageInit => Undimmed
  BY DEF PageInit, HistoryInit, Nothing, Undimmed
<1>2. PageTypeOK /\ Undimmed /\ [PageNext]_vars => Undimmed'
  BY UndimmedStep, TypesTogether
<1>3. Undimmed => ShownIsCurrent
  BY DEF Undimmed, ShownIsCurrent
<1> QED  BY <1>1, <1>2, <1>3, TypeCorrect, PTL DEF PageSpec
=============================================================================
