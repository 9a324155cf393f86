------------------------------- MODULE Alerts -------------------------------
(***************************************************************************)
(* internal/alerts: the notifier takes snapshots from a lossy channel of   *)
(* the collector, tracks one breach window per rule, and mails inline: a   *)
(* slow mail server blocks it while samples go on and are dropped.         *)
(*                                                                         *)
(* Time is the snapshots' own, one unit per sample.  A snapshot is, per    *)
(* rule, whether its metric is there and at or above the threshold.        *)
(***************************************************************************)
EXTENDS Naturals, Sequences, FiniteSets

CONSTANTS
    Rules,              \* keys of the enabled rules
    Optional,           \* those whose metric may be absent (a disk, a GPU)
    SubscriberBuffer,   \* capacity of the channel
    For,                \* how long a metric must stay at or above its threshold
    Cooldown,           \* minimum gap between two emails for the same rule
    RetryAfter,         \* retryAfter: the gap after a failed send
    MaxTick             \* bound: samples taken

ASSUME AlertsAssumption ==
    /\ IsFiniteSet(Rules) /\ Optional \subseteq Rules
    /\ SubscriberBuffer \in Nat \ {0}
    /\ For \in Nat /\ Cooldown \in Nat /\ RetryAfter \in Nat \ {0}
    /\ MaxTick \in Nat

VARIABLES
    clock,          \* samples taken; the newest has this TS
    queue,          \* snapshots in the channel, oldest first
    pc,             \* "ready" for a snapshot, or "sending" a mail
    now,            \* TS of the snapshot evaluated last
    since,          \* states[r].since, 0 while below
    nextAllowed,    \* states[r].nextAllowed
    due             \* the rules of the mail being sent

VARIABLES           \* history, read by the properties only
    below,          \* below[r]: TS of the recent samples with r below threshold
    dropped,        \* TS of the recent samples the channel was too full for
    start,          \* start[r]: TS of the first evaluated snapshot with r at or
                    \* above since the last one with it below, 0 for none
    breached,       \* the rules at or above in the snapshot evaluated last
    delivered,      \* delivered[r]: TS of the last mail that arrived, 0 for none
    sent, failed    \* the same for the last send reported to work, to fail

evalVars == <<now, since, nextAllowed, due>>
sampleHistory == <<below, dropped>>
ruleHistory == <<start, breached>>
sendHistory == <<delivered, sent, failed>>
vars == <<clock, queue, pc, evalVars, sampleHistory, ruleHistory, sendHistory>>

Readings == {"absent", "below", "above"}
Snapshots == [ts : 1 .. MaxTick, of : [Rules -> Readings]]

AlertsInit ==
    /\ clock = 0 /\ queue = <<>> /\ pc = "ready" /\ now = 0
    /\ since = [r \in Rules |-> 0]
    /\ nextAllowed = [r \in Rules |-> 0]
    /\ due = {}
    /\ below = [r \in Rules |-> {}] /\ dropped = {}
    /\ start = [r \in Rules |-> 0] /\ breached = {}
    /\ delivered = [r \in Rules |-> 0]
    /\ sent = [r \in Rules |-> 0] /\ failed = [r \in Rules |-> 0]

(***************************************************************************)
(* The samples a window that is still open can reach back to.              *)
(***************************************************************************)
Recent(ts) == {t \in ts : t + For >= now}

(***************************************************************************)
(* publish, as this subscriber sees it: a full channel loses the snapshot. *)
(***************************************************************************)
Publish ==
    /\ clock < MaxTick
    /\ clock' = clock + 1
    /\ \E of \in [Rules -> Readings] :
          /\ \A r \in Rules \ Optional : of[r] # "absent"
          /\ below' = [r \in Rules |->
                Recent(below[r]) \cup IF of[r] = "below" THEN {clock'} ELSE {}]
          /\ IF Len(queue) < SubscriberBuffer
             THEN /\ queue' = Append(queue, [ts |-> clock', of |-> of])
                  /\ dropped' = Recent(dropped)
             ELSE /\ dropped' = Recent(dropped) \cup {clock'}
                  /\ UNCHANGED queue
    /\ UNCHANGED <<pc, evalVars, ruleHistory, sendHistory>>

(* Mutant: a dip leaves the window open. *)
WindowStaysOpen(s, t, reading) == IF reading = "above" /\ s = 0 THEN t ELSE s

(***************************************************************************)
(* check, first part: a sample below the threshold resets the window, the  *)
(* first one at or above opens it.  A rule whose metric is not in the      *)
(* snapshot is not checked at all.                                         *)
(***************************************************************************)
Window(s, t, reading) ==
    CASE reading = "absent" -> s
      [] reading = "below"  -> 0
      [] reading = "above"  -> IF s = 0 THEN t ELSE s

(* Mutant: the cooldown is forgotten when the window reopens. *)
FiresOnNewBreach(r, snap, s) ==
    /\ snap.of[r] = "above"
    /\ snap.ts - s >= For
    /\ snap.ts >= nextAllowed[r] \/ s > sent[r]

(***************************************************************************)
(* Second part: the rule is due.                                           *)
(***************************************************************************)
Fires(r, snap, s) ==
    /\ snap.of[r] = "above"
    /\ snap.ts - s >= For
    /\ snap.ts >= nextAllowed[r]

(***************************************************************************)
(* Evaluate, up to the call of Send: one mail for all the rules due.       *)
(***************************************************************************)
Evaluate ==
    /\ pc = "ready"
    /\ queue # <<>>
    /\ LET snap == Head(queue) IN
       /\ now' = snap.ts
       /\ since' = [r \in Rules |-> Window(since[r], snap.ts, snap.of[r])]
       /\ due' = {r \in Rules : Fires(r, snap, since'[r])}
       /\ breached' = {r \in Rules : snap.of[r] = "above"}
       /\ start' = [r \in Rules |->
                      IF snap.of[r] = "below" THEN 0
                      ELSE IF start[r] = 0 /\ r \in breached' THEN snap.ts
                      ELSE start[r]]
    /\ queue' = Tail(queue)
    /\ pc' = IF due' = {} THEN "ready" ELSE "sending"
    /\ UNCHANGED <<clock, nextAllowed, sampleHistory, sendHistory>>

(* Mutant: a failed send is followed by the cooldown, too. *)
NextAllowedIgnoringError(ok) ==
    [r \in Rules |-> IF r \in due THEN now + Cooldown ELSE nextAllowed[r]]

(***************************************************************************)
(* Evaluate after Send: when each rule of the mail may be mailed again.    *)
(***************************************************************************)
NextAllowed(ok) ==
    [r \in Rules |->
       IF r \in due THEN now + (IF ok THEN Cooldown ELSE RetryAfter)
       ELSE nextAllowed[r]]

(***************************************************************************)
(* Send returns.  The mail may have arrived although an error is reported: *)
(* the server took it and the end of the conversation failed.              *)
(***************************************************************************)
SendReturns(arrived, ok) ==
    LET Note(f) == [r \in Rules |-> IF r \in due THEN now ELSE f[r]] IN
    /\ pc = "sending"
    /\ ok => arrived
    /\ nextAllowed' = NextAllowed(ok)
    /\ due' = {}
    /\ pc' = "ready"
    /\ delivered' = IF arrived THEN Note(delivered) ELSE delivered
    /\ sent' = IF ok THEN Note(sent) ELSE sent
    /\ failed' = IF ok THEN failed ELSE Note(failed)
    /\ UNCHANGED <<clock, queue, now, since, sampleHistory, ruleHistory>>

AlertsNext ==
    \/ Publish
    \/ Evaluate
    \/ \E arrived, ok \in BOOLEAN : SendReturns(arrived, ok)

AlertsSpec == AlertsInit /\ [][AlertsNext]_vars

-----------------------------------------------------------------------------
AlertsTypeOK ==
    /\ clock \in 0 .. MaxTick /\ now \in 0 .. clock
    /\ queue \in Seq(Snapshots) /\ Len(queue) <= SubscriberBuffer
    /\ pc \in {"ready", "sending"}
    /\ since \in [Rules -> 0 .. MaxTick]
    /\ nextAllowed \in [Rules -> Nat]
    /\ due \subseteq Rules
    /\ pc = "ready" <=> due = {}

(***************************************************************************)
(* Two mails that arrive for the same rule are Cooldown apart, whatever    *)
(* happened between them: dips that reset the window, metrics that came    *)
(* and went, other rules' mails.  Only when the first was reported as      *)
(* failed may the second follow after RetryAfter (Evaluate, check).        *)
(***************************************************************************)
DeliveriesApart ==
    [][\A r \in Rules :
         delivered'[r] # delivered[r] /\ delivered[r] # 0 =>
            delivered'[r] - delivered[r] >=
               IF sent[r] = delivered[r] THEN Cooldown ELSE RetryAfter]_vars

(***************************************************************************)
(* A rule that stays silent although its metric is at or above and was     *)
(* never seen below for long enough was mailed less than Cooldown ago, or  *)
(* failed to be less than RetryAfter ago: neither a failed send nor        *)
(* another rule's mail silences it for longer (Evaluate).                  *)
(***************************************************************************)
Silenced(last, gap) == last # 0 /\ (last = now \/ now - last < gap)

SilenceIsExplained ==
    pc = "ready" =>
        \A r \in breached :
            now - start[r] >= For
                => Silenced(sent[r], Cooldown) \/ Silenced(failed[r], RetryAfter)

(***************************************************************************)
(* The samples of the last For with r below.                               *)
(***************************************************************************)
Dips(r) == {t \in below[r] : now - For <= t /\ t <= now}

(***************************************************************************)
(* A mail about a rule means that its metric was below in no sample of the *)
(* last For, other than one lost to a full channel (check).                *)
(***************************************************************************)
MailMeansBreach == \A r \in due : Dips(r) \subseteq dropped
=============================================================================
