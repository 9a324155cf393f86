---------------------------- MODULE AlertsProofs ----------------------------
(***************************************************************************)
(* The notifier, for any rules, any size of its channel, any durations and *)
(* any number of samples.                                                  *)
(***************************************************************************)
EXTENDS Alerts, SequenceTheorems, TLAPS

LEMMA AlertsCases ==
    ASSUME [AlertsNext]_vars
    PROVE  \/ Publish
           \/ Evaluate
           \/ \E arrived \in BOOLEAN, ok \in BOOLEAN : SendReturns(arrived, ok)
           \/ UNCHANGED vars
  BY DEF AlertsNext

HistoryTypeOK ==
    /\ below \in [Rules -> SUBSET (1 .. clock)]
    /\ start \in [Rules -> 0 .. MaxTick] /\ breached \subseteq Rules
    /\ delivered \in [Rules -> 0 .. MaxTick]
    /\ sent \in [Rules -> 0 .. MaxTick] /\ failed \in [Rules -> 0 .. MaxTick]

AllTypes == AlertsTypeOK /\ HistoryTypeOK

(* The snapshot that is evaluated, and the channel without it. *)
LEMMA HeadOfQueue ==
    ASSUME AlertsTypeOK, queue # <<>>
    PROVE  /\ Head(queue) \in Snapshots /\ Head(queue) = queue[1]
           /\ Head(queue).ts \in 1 .. MaxTick /\ Head(queue).of \in [Rules -> Readings]
           /\ Len(queue) \in Nat \ {0} /\ 1 \in 1 .. Len(queue)
           /\ Tail(queue) \in Seq(Snapshots)
           /\ Len(Tail(queue)) = Len(queue) - 1
           /\ \A i \in 1 .. Len(Tail(queue)) :
                 Tail(queue)[i] = queue[i + 1] /\ i + 1 \in 1 .. Len(queue)
<1>1. queue \in Seq(Snapshots)  BY DEF AlertsTypeOK
<1>2. Head(queue) \in Snapshots /\ Head(queue) = queue[1]
  BY <1>1
<1>3. Len(queue) \in Nat \ {0} /\ 1 \in 1 .. Len(queue)
  BY <1>1
<1>4. /\ Tail(queue) \in Seq(Snapshots)
      /\ Len(Tail(queue)) = Len(queue) - 1
      /\ \A i \in 1 .. Len(Tail(queue)) : Tail(queue)[i] = queue[i + 1]
  BY <1>1
<1>5. \A i \in 1 .. Len(Tail(queue)) : i + 1 \in 1 .. Len(queue)
  BY <1>3, <1>4
<1> QED  BY <1>2, <1>3, <1>4, <1>5 DEF Snapshots

LEMMA TimesInQueue ==
    ASSUME AlertsTypeOK
    PROVE  \A i \in 1 .. Len(queue) : queue[i].ts \in Nat
<1>1. queue \in Seq(Snapshots)  BY DEF AlertsTypeOK
<1>2. \A i \in 1 .. Len(queue) : queue[i] \in Snapshots  BY <1>1
<1> QED  BY <1>2, AlertsAssumption DEF Snapshots

(* What a channel that takes a snapshot holds then. *)
LEMMA PublishedQueue ==
    ASSUME AlertsTypeOK, NEW snap \in Snapshots
    PROVE  /\ Append(queue, snap) \in Seq(Snapshots)
           /\ Len(Append(queue, snap)) = Len(queue) + 1 /\ Len(queue) \in Nat
           /\ Append(queue, snap)[Len(queue) + 1] = snap
           /\ \A i \in 1 .. Len(queue) : Append(queue, snap)[i] = queue[i]
  BY AppendProperties DEF AlertsTypeOK

LEMMA WindowType ==
    ASSUME NEW s \in 0 .. MaxTick, NEW t \in 1 .. MaxTick, NEW reading \in Readings
    PROVE  /\ Window(s, t, reading) \in 0 .. MaxTick
           /\ reading = "absent" => Window(s, t, reading) = s
           /\ reading = "below" => Window(s, t, reading) = 0
           /\ reading = "above" => Window(s, t, reading) = IF s = 0 THEN t ELSE s
<1>1. CASE reading = "absent"  BY <1>1 DEF Window
<1>2. CASE reading = "below"  BY <1>2, AlertsAssumption DEF Window
<1>3. CASE reading = "above"  BY <1>3, AlertsAssumption DEF Window
<1> QED  BY <1>1, <1>2, <1>3 DEF Readings

(***************************************************************************)
(* The channel: newer than what was evaluated, ascending, and no newer     *)
(* than the clock; a sample after the one evaluated last is in it, or was  *)
(* lost; and a snapshot in it says "below" where the sample was.           *)
(***************************************************************************)
QueueAscends ==
    /\ \A i \in 1 .. Len(queue) : now < queue[i].ts /\ queue[i].ts <= clock
    /\ \A i, j \in 1 .. Len(queue) : i < j => queue[i].ts < queue[j].ts

QueueIsTrue ==
    \A i \in 1 .. Len(queue) : \A r \in Rules :
        queue[i].ts \in below[r] => queue[i].of[r] = "below"

NoneMissing ==
    \A t \in now + 1 .. clock : t \in dropped \/ \E i \in 1 .. Len(queue) : queue[i].ts = t

(***************************************************************************)
(* A window is open since its start, and in none of the samples since then *)
(* was the metric below, but in lost ones.                                 *)
(***************************************************************************)
WindowIsTrue ==
    \A r \in Rules : since[r] # 0 =>
        /\ since[r] <= now
        /\ \A t \in below[r] : since[r] <= t /\ t <= now /\ t + For >= now => t \in dropped

LEMMA TypeAtFirst == AlertsInit => AllTypes
  BY AlertsAssumption DEF AlertsInit, AllTypes, AlertsTypeOK, HistoryTypeOK

LEMMA TypeStep ==
    ASSUME AllTypes, QueueAscends, [AlertsNext]_vars
    PROVE  AllTypes'
<1> USE DEF AllTypes
<1>a. /\ MaxTick \in Nat /\ SubscriberBuffer \in Nat /\ Cooldown \in Nat /\ RetryAfter \in Nat
      /\ clock \in Nat /\ now \in Nat /\ clock <= MaxTick /\ now <= clock
  BY AlertsAssumption DEF AlertsTypeOK
<1>1. CASE Publish
  <2>1. PICK of \in [Rules -> Readings] :
          /\ below' = [r \in Rules |->
                Recent(below[r]) \cup IF of[r] = "below" THEN {clock'} ELSE {}]
          /\ IF Len(queue) < SubscriberBuffer
             THEN queue' = Append(queue, [ts |-> clock', of |-> of])
             ELSE queue' = queue
    BY <1>1 DEF Publish
  <2>2. /\ clock' = clock + 1 /\ clock < MaxTick
        /\ UNCHANGED <<pc, now, since, nextAllowed, due, start, breached, delivered, sent, failed>>
    BY <1>1 DEF Publish, evalVars, ruleHistory, sendHistory
  <2> DEFINE snap == [ts |-> clock', of |-> of]
  <2>3. snap \in Snapshots /\ clock' \in 1 .. MaxTick
    BY <1>a, <2>2 DEF Snapshots
  <2> HIDE DEF snap
  <2>4. queue' \in Seq(Snapshots) /\ Len(queue') <= SubscriberBuffer
    <3>1. CASE Len(queue) < SubscriberBuffer
      <4>1. queue' = Append(queue, snap)
        BY <2>1, <3>1 DEF snap
      <4> QED  BY <1>a, <2>3, <3>1, <4>1, PublishedQueue
    <3>2. CASE ~(Len(queue) < SubscriberBuffer)
      BY <2>1, <3>2 DEF AlertsTypeOK
    <3> QED  BY <3>1, <3>2
  <2>5. AlertsTypeOK'
    BY <1>a, <2>2, <2>4 DEF AlertsTypeOK
  <2>6. below' \in [Rules -> SUBSET (1 .. clock')]
    <3>1. \A r \in Rules : Recent(below[r]) \subseteq 1 .. clock
      BY DEF HistoryTypeOK, Recent
    <3>2. 1 .. clock \subseteq 1 .. clock' /\ clock' \in 1 .. clock'
      BY <1>a, <2>2
    <3> QED  BY <2>1, <3>1, <3>2
  <2> QED  BY <2>2, <2>5, <2>6 DEF HistoryTypeOK
<1>2. CASE Evaluate
  <2> DEFINE snap == Head(queue)
  <2>1. /\ queue # <<>> /\ queue' = Tail(queue) /\ now' = snap.ts
        /\ since' = [r \in Rules |-> Window(since[r], snap.ts, snap.of[r])]
        /\ due' = {r \in Rules : Fires(r, snap, since'[r])}
        /\ breached' = {r \in Rules : snap.of[r] = "above"}
        /\ start' = [r \in Rules |->
                      IF snap.of[r] = "below" THEN 0
                      ELSE IF start[r] = 0 /\ r \in breached' THEN snap.ts
                      ELSE start[r]]
        /\ pc' = IF due' = {} THEN "ready" ELSE "sending"
        /\ UNCHANGED <<clock, nextAllowed, below, delivered, sent, failed>>
    BY <1>2 DEF Evaluate, sampleHistory, sendHistory
  <2>2. /\ snap.ts \in 1 .. MaxTick /\ snap.of \in [Rules -> Readings] /\ snap.ts <= clock
        /\ Tail(queue) \in Seq(Snapshots) /\ Len(Tail(queue)) <= SubscriberBuffer
    BY <1>a, <2>1, HeadOfQueue DEF QueueAscends, AlertsTypeOK
  <2> HIDE DEF snap
  <2>3. since' \in [Rules -> 0 .. MaxTick]
    BY <2>1, <2>2, WindowType DEF AlertsTypeOK
  <2>4. start' \in [Rules -> 0 .. MaxTick]
    BY <1>a, <2>1, <2>2 DEF HistoryTypeOK
  <2>5. now' \in 0 .. clock'
    BY <1>a, <2>1, <2>2
  <2>6. AlertsTypeOK'
    BY <2>1, <2>2, <2>3, <2>5 DEF AlertsTypeOK
  <2> QED  BY <2>1, <2>4, <2>6 DEF HistoryTypeOK
<1>3. ASSUME NEW arrived \in BOOLEAN, NEW ok \in BOOLEAN, SendReturns(arrived, ok)
      PROVE  AllTypes'
  <2> DEFINE Note(f) == [r \in Rules |-> IF r \in due THEN now ELSE f[r]]
  <2>1. /\ nextAllowed' = NextAllowed(ok) /\ due' = {} /\ pc' = "ready"
        /\ delivered' = (IF arrived THEN Note(delivered) ELSE delivered)
        /\ sent' = (IF ok THEN Note(sent) ELSE sent)
        /\ failed' = (IF ok THEN failed ELSE Note(failed))
        /\ UNCHANGED <<clock, queue, now, since, below, start, breached>>
    BY <1>3 DEF SendReturns, sampleHistory, ruleHistory
  <2>2. NextAllowed(ok) \in [Rules -> Nat]
    BY <1>a DEF NextAllowed, AlertsTypeOK
  <2>3. \A f \in [Rules -> 0 .. MaxTick] : Note(f) \in [Rules -> 0 .. MaxTick]
    BY <1>a
  <2> HIDE DEF Note
  <2>4. AlertsTypeOK'
    BY <2>1, <2>2 DEF AlertsTypeOK
  <2>5. HistoryTypeOK'
    BY <2>1, <2>3 DEF HistoryTypeOK
  <2> QED  BY <2>4, <2>5
<1>4. CASE UNCHANGED vars
  BY <1>4 DEF vars, evalVars, sampleHistory, ruleHistory, sendHistory, AlertsTypeOK, HistoryTypeOK
<1> QED  BY <1>1, <1>2, <1>3, <1>4, AlertsCases

-----------------------------------------------------------------------------
LEMMA QueueStep ==
    ASSUME AllTypes, QueueAscends, [AlertsNext]_vars
    PROVE  QueueAscends'
<1> USE DEF AllTypes
<1>a. clock \in Nat /\ now \in Nat /\ now <= clock
  BY AlertsAssumption DEF AlertsTypeOK
<1>0. ASSUME UNCHANGED <<now, queue, clock>>  PROVE QueueAscends'
  BY <1>0 DEF QueueAscends
<1>1. CASE Publish
  <2>1. PICK of \in [Rules -> Readings] :
          queue' = IF Len(queue) < SubscriberBuffer
                   THEN Append(queue, [ts |-> clock', of |-> of]) ELSE queue
    BY <1>1 DEF Publish
  <2>2. clock' = clock + 1 /\ clock < MaxTick /\ now' = now /\ MaxTick \in Nat
    BY <1>1, AlertsAssumption DEF Publish, evalVars
  <2> DEFINE snap == [ts |-> clock', of |-> of]
             n == Len(queue) + 1
  <2>3. snap \in Snapshots /\ snap.ts = clock'
    BY <1>a, <2>2 DEF Snapshots
  <2> HIDE DEF snap
  <2>4. CASE Len(queue) < SubscriberBuffer
    <3>1. /\ queue' = Append(queue, snap) /\ Len(queue) \in Nat
          /\ Len(queue') = n /\ queue'[n] = snap
          /\ \A i \in 1 .. Len(queue) : queue'[i] = queue[i]
      BY <2>1, <2>3, <2>4, PublishedQueue DEF snap
    <3>2. n \in Nat /\ n = Len(queue) + 1
      BY <3>1
    <3> HIDE DEF n
    <3>3. \A i \in 1 .. n : i = n \/ i \in 1 .. Len(queue)
      BY <3>1, <3>2
    <3>4. \A i \in 1 .. Len(queue) : queue[i].ts \in Nat
      BY TimesInQueue
    <3>5. \A i \in 1 .. n : now' < queue'[i].ts /\ queue'[i].ts <= clock'
      BY <1>a, <2>2, <2>3, <3>1, <3>3, <3>4 DEF QueueAscends
    <3>6. ASSUME NEW i \in 1 .. n, NEW j \in 1 .. n, i < j
          PROVE  queue'[i].ts < queue'[j].ts
      <4>1. i \in 1 .. Len(queue)
        BY <3>1, <3>2, <3>6
      <4>2. CASE j = n
        BY <1>a, <2>2, <2>3, <3>1, <3>4, <4>1, <4>2 DEF QueueAscends
      <4>3. CASE j \in 1 .. Len(queue)
        BY <3>1, <3>6, <4>1, <4>3 DEF QueueAscends
      <4> QED  BY <3>3, <4>2, <4>3
    <3> QED  BY <3>1, <3>5, <3>6 DEF QueueAscends
  <2>5. CASE ~(Len(queue) < SubscriberBuffer)
    <3>1. \A i \in 1 .. Len(queue) : queue[i].ts \in Nat
      BY TimesInQueue
    <3> QED  BY <1>a, <2>1, <2>2, <2>5, <3>1 DEF QueueAscends
  <2> QED  BY <2>4, <2>5
<1>2. CASE Evaluate
  <2>1. queue # <<>> /\ queue' = Tail(queue) /\ now' = Head(queue).ts /\ clock' = clock
    BY <1>2 DEF Evaluate
  <2>2. /\ Head(queue) = queue[1] /\ Len(queue) \in Nat \ {0} /\ 1 \in 1 .. Len(queue)
        /\ Len(queue') = Len(queue) - 1
        /\ \A i \in 1 .. Len(queue') : queue'[i] = queue[i + 1] /\ i + 1 \in 1 .. Len(queue)
    BY <2>1, HeadOfQueue
  <2>3. \A i \in 1 .. Len(queue') : now' < queue'[i].ts /\ queue'[i].ts <= clock'
    <3>1. \A i \in 1 .. Len(queue') : 1 < i + 1
      OBVIOUS
    <3> QED  BY <2>1, <2>2, <3>1 DEF QueueAscends
  <2>4. ASSUME NEW i \in 1 .. Len(queue'), NEW j \in 1 .. Len(queue'), i < j
        PROVE  queue'[i].ts < queue'[j].ts
    <3>1. i + 1 < j + 1
      BY <2>4
    <3> QED  BY <2>2, <3>1 DEF QueueAscends
  <2> QED  BY <2>3, <2>4 DEF QueueAscends
<1>3. ASSUME NEW arrived \in BOOLEAN, NEW ok \in BOOLEAN, SendReturns(arrived, ok)
      PROVE  QueueAscends'
  BY <1>0, <1>3 DEF SendReturns
<1>4. CASE UNCHANGED vars  BY <1>0, <1>4 DEF vars, evalVars
<1> QED  BY <1>1, <1>2, <1>3, <1>4, AlertsCases

LEMMA TrueStep ==
    ASSUME AllTypes, QueueAscends, QueueIsTrue, [AlertsNext]_vars
    PROVE  QueueIsTrue'
<1> USE DEF AllTypes
<1>a. clock \in Nat /\ now \in Nat /\ now <= clock
  BY AlertsAssumption DEF AlertsTypeOK
<1>0. ASSUME UNCHANGED <<queue, below>>  PROVE QueueIsTrue'
  BY <1>0 DEF QueueIsTrue
<1>1. CASE Publish
  <2>1. PICK of \in [Rules -> Readings] :
          /\ queue' = IF Len(queue) < SubscriberBuffer
                      THEN Append(queue, [ts |-> clock', of |-> of]) ELSE queue
          /\ below' = [r \in Rules |->
                Recent(below[r]) \cup IF of[r] = "below" THEN {clock'} ELSE {}]
    BY <1>1 DEF Publish
  <2>2. clock' = clock + 1 /\ clock < MaxTick /\ MaxTick \in Nat
    BY <1>1, AlertsAssumption DEF Publish
  <2> DEFINE snap == [ts |-> clock', of |-> of]
             n == Len(queue) + 1
  <2>3. snap \in Snapshots /\ snap.ts = clock' /\ snap.of = of
    BY <1>a, <2>2 DEF Snapshots
  <2> HIDE DEF snap
  <2>4. ASSUME NEW i \in 1 .. Len(queue), NEW r \in Rules, queue[i].ts \in below'[r]
        PROVE  queue[i].of[r] = "below"
    <3>1. queue[i].ts # clock'
      <4>1. queue[i].ts \in Nat /\ queue[i].ts <= clock
        BY TimesInQueue DEF QueueAscends
      <4> QED  BY <1>a, <2>2, <4>1
    <3>2. queue[i].ts \in below[r]
      BY <2>1, <2>4, <3>1 DEF Recent
    <3> QED  BY <3>2 DEF QueueIsTrue
  <2>5. ASSUME NEW r \in Rules, clock' \in below'[r]  PROVE of[r] = "below"
    <3>1. clock' \notin below[r]
      BY <1>a, <2>2 DEF HistoryTypeOK
    <3> QED  BY <2>1, <2>5, <3>1 DEF Recent
  <2>6. CASE Len(queue) < SubscriberBuffer
    <3>1. /\ Len(queue) \in Nat /\ queue' = Append(queue, snap)
          /\ Len(queue') = n /\ queue'[n] = snap
          /\ \A i \in 1 .. Len(queue) : queue'[i] = queue[i]
      BY <2>1, <2>3, <2>6, PublishedQueue DEF snap
    <3>2. \A i \in 1 .. Len(queue') : i = n \/ i \in 1 .. Len(queue)
      BY <3>1
    <3> HIDE DEF n
    <3> QED  BY <2>3, <2>4, <2>5, <3>1, <3>2 DEF QueueIsTrue
  <2>7. CASE ~(Len(queue) < SubscriberBuffer)
    BY <2>1, <2>4, <2>7 DEF QueueIsTrue
  <2> QED  BY <2>6, <2>7
<1>2. CASE Evaluate
  <2>1. queue # <<>> /\ queue' = Tail(queue) /\ below' = below
    BY <1>2 DEF Evaluate, sampleHistory
  <2> QED  BY <2>1, HeadOfQueue DEF QueueIsTrue
<1>3. ASSUME NEW arrived \in BOOLEAN, NEW ok \in BOOLEAN, SendReturns(arrived, ok)
      PROVE  QueueIsTrue'
  BY <1>0, <1>3 DEF SendReturns, sampleHistory
<1>4. CASE UNCHANGED vars  BY <1>0, <1>4 DEF vars, sampleHistory
<1> QED  BY <1>1, <1>2, <1>3, <1>4, AlertsCases

(* A sample between the two evaluated last is in no channel any more. *)
LEMMA MissingStep ==
    ASSUME AllTypes, QueueAscends, NoneMissing, [AlertsNext]_vars
    PROVE  NoneMissing'
<1> USE DEF AllTypes
<1>a. clock \in Nat /\ now \in Nat /\ now <= clock /\ For \in Nat
  BY AlertsAssumption DEF AlertsTypeOK
<1>0. ASSUME UNCHANGED <<now, clock, dropped, queue>>  PROVE NoneMissing'
  BY <1>0 DEF NoneMissing
<1>1. CASE Publish
  <2>1. PICK of \in [Rules -> Readings] :
          IF Len(queue) < SubscriberBuffer
          THEN /\ queue' = Append(queue, [ts |-> clock', of |-> of])
               /\ dropped' = Recent(dropped)
          ELSE /\ dropped' = Recent(dropped) \cup {clock'}
               /\ queue' = queue
    BY <1>1 DEF Publish
  <2>2. clock' = clock + 1 /\ clock < MaxTick /\ now' = now /\ MaxTick \in Nat
    BY <1>1, AlertsAssumption DEF Publish, evalVars
  <2> SUFFICES ASSUME NEW t \in now + 1 .. clock'
               PROVE  t \in dropped' \/ \E i \in 1 .. Len(queue') : queue'[i].ts = t
    BY <2>2 DEF NoneMissing
  <2> DEFINE snap == [ts |-> clock', of |-> of]
             n == Len(queue) + 1
  <2>3. snap \in Snapshots /\ snap.ts = clock'
    BY <1>a, <2>2 DEF Snapshots
  <2> HIDE DEF snap
  <2>4. t \in dropped => t \in dropped'
    BY <1>a, <2>1 DEF Recent
  <2>5. t = clock' \/ t \in now + 1 .. clock
    BY <1>a, <2>2
  <2>6. CASE Len(queue) < SubscriberBuffer
    <3>1. /\ Len(queue) \in Nat /\ queue' = Append(queue, snap)
          /\ Len(queue') = n /\ queue'[n] = snap
          /\ \A i \in 1 .. Len(queue) : queue'[i] = queue[i]
      BY <2>1, <2>3, <2>6, PublishedQueue DEF snap
    <3>2. n \in 1 .. Len(queue') /\ \A i \in 1 .. Len(queue) : i \in 1 .. Len(queue')
      BY <3>1
    <3> HIDE DEF n
    <3> QED  BY <2>3, <2>4, <2>5, <3>1, <3>2 DEF NoneMissing
  <2>7. CASE ~(Len(queue) < SubscriberBuffer)
    BY <2>1, <2>4, <2>5, <2>7 DEF NoneMissing
  <2> QED  BY <2>6, <2>7
<1>2. CASE Evaluate
  <2>1. /\ queue # <<>> /\ queue' = Tail(queue) /\ now' = Head(queue).ts
        /\ clock' = clock /\ dropped' = dropped
    BY <1>2 DEF Evaluate, sampleHistory
  <2>2. /\ Head(queue) = queue[1] /\ 1 \in 1 .. Len(queue) /\ Len(queue) \in Nat \ {0}
        /\ Head(queue).ts \in Nat
        /\ Len(queue') = Len(queue) - 1
        /\ \A i \in 1 .. Len(queue') : queue'[i] = queue[i + 1]
    BY <2>1, HeadOfQueue
  <2> SUFFICES ASSUME NEW t \in now' + 1 .. clock
               PROVE  t \in dropped \/ \E i \in 1 .. Len(queue') : queue'[i].ts = t
    BY <2>1 DEF NoneMissing
  <2>3. now < now' /\ now' \in Nat
    BY <2>1, <2>2 DEF QueueAscends
  <2>4. t \in now + 1 .. clock /\ t # now'
    <3>1. \A m, n \in Nat : m < n /\ t \in n + 1 .. clock => t \in m + 1 .. clock /\ t # n
      BY <1>a
    <3> QED  BY <1>a, <2>3, <3>1
  <2>5. CASE \E i \in 1 .. Len(queue) : queue[i].ts = t
    <3>1. PICK i \in 1 .. Len(queue) : queue[i].ts = t
      BY <2>5
    <3>2. i # 1
      BY <2>1, <2>2, <2>4, <3>1
    <3>3. i - 1 \in 1 .. Len(queue') /\ (i - 1) + 1 = i
      BY <2>2, <3>2
    <3> QED  BY <2>2, <3>1, <3>3
  <2> QED  BY <2>4, <2>5 DEF NoneMissing
<1>3. ASSUME NEW arrived \in BOOLEAN, NEW ok \in BOOLEAN, SendReturns(arrived, ok)
      PROVE  NoneMissing'
  BY <1>0, <1>3 DEF SendReturns, sampleHistory
<1>4. CASE UNCHANGED vars  BY <1>0, <1>4 DEF vars, evalVars, sampleHistory
<1> QED  BY <1>1, <1>2, <1>3, <1>4, AlertsCases

LEMMA WindowStep ==
    ASSUME AllTypes, QueueAscends, QueueIsTrue, NoneMissing, WindowIsTrue, [AlertsNext]_vars
    PROVE  WindowIsTrue'
<1> USE DEF AllTypes
<1>a. clock \in Nat /\ now \in Nat /\ now <= clock /\ For \in Nat
  BY AlertsAssumption DEF AlertsTypeOK
<1>0. ASSUME UNCHANGED <<since, now, below, dropped>>  PROVE WindowIsTrue'
  BY <1>0 DEF WindowIsTrue
<1>1. CASE Publish
  <2>1. PICK of \in [Rules -> Readings] :
          /\ below' = [r \in Rules |->
                Recent(below[r]) \cup IF of[r] = "below" THEN {clock'} ELSE {}]
          /\ Recent(dropped) \subseteq dropped'
    BY <1>1 DEF Publish
  <2>2. clock' = clock + 1 /\ UNCHANGED <<now, since>>
    BY <1>1 DEF Publish, evalVars
  <2> SUFFICES ASSUME NEW r \in Rules, since[r] # 0
               PROVE  /\ since[r] <= now
                      /\ \A t \in below'[r] :
                            since[r] <= t /\ t <= now /\ t + For >= now => t \in dropped'
    BY <2>2 DEF WindowIsTrue
  <2>3. since[r] <= now
    BY DEF WindowIsTrue
  <2>4. ASSUME NEW t \in below'[r], since[r] <= t, t <= now, t + For >= now
        PROVE  t \in dropped'
    <3>1. t # clock'
      BY <1>a, <2>2, <2>4
    <3>2. t \in below[r]
      BY <2>1, <3>1 DEF Recent
    <3>3. t \in dropped
      BY <2>4, <3>2 DEF WindowIsTrue
    <3> QED  BY <2>1, <2>4, <3>3 DEF Recent
  <2> QED  BY <2>3, <2>4
<1>2. CASE Evaluate
  <2> DEFINE snap == Head(queue)
  <2>1. /\ queue # <<>> /\ now' = snap.ts
        /\ since' = [r \in Rules |-> Window(since[r], snap.ts, snap.of[r])]
        /\ UNCHANGED <<clock, below, dropped>>
    BY <1>2 DEF Evaluate, sampleHistory
  <2>2. /\ snap = queue[1] /\ 1 \in 1 .. Len(queue) /\ Len(queue) \in Nat \ {0}
        /\ snap.ts \in 1 .. MaxTick /\ snap.of \in [Rules -> Readings]
        /\ now < snap.ts /\ snap.ts <= clock
    BY <2>1, HeadOfQueue DEF QueueAscends
  <2> SUFFICES ASSUME NEW r \in Rules, since'[r] # 0
               PROVE  /\ since'[r] <= snap.ts
                      /\ \A t \in below[r] :
                            since'[r] <= t /\ t <= snap.ts /\ t + For >= snap.ts
                                => t \in dropped
    BY <2>1 DEF WindowIsTrue
  <2>3. /\ snap.of[r] # "below"
        /\ since'[r] = since[r] \/ (since[r] = 0 /\ since'[r] = snap.ts)
        /\ since[r] \in Nat /\ since'[r] \in Nat
    <3>1. since[r] \in 0 .. MaxTick /\ snap.of[r] \in Readings
      BY <2>2 DEF AlertsTypeOK
    <3>2. since'[r] = Window(since[r], snap.ts, snap.of[r])
      BY <2>1
    <3> QED  BY <2>2, <3>1, <3>2, WindowType DEF Readings
  <2>4. since'[r] <= snap.ts
    BY <1>a, <2>2, <2>3 DEF WindowIsTrue
  <2>5. ASSUME NEW t \in below[r], since'[r] <= t, t <= snap.ts, t + For >= snap.ts
        PROVE  t \in dropped
    <3>1. t \in 1 .. clock
      BY DEF HistoryTypeOK
    <3>2. t # snap.ts
      BY <2>2, <2>3 DEF QueueIsTrue
    <3>3. CASE t <= now
      <4>1. since'[r] = since[r]
        BY <1>a, <2>2, <2>3, <2>5, <3>1, <3>3
      <4>2. t + For >= now
        BY <1>a, <2>2, <2>5, <3>1
      <4> QED  BY <2>5, <3>3, <4>1, <4>2 DEF WindowIsTrue
    <3>4. CASE ~(t <= now)
      <4>1. t \in now + 1 .. clock /\ t < snap.ts
        BY <1>a, <2>2, <2>5, <3>1, <3>2, <3>4
      <4>2. ASSUME NEW i \in 1 .. Len(queue)  PROVE queue[i].ts # t
        <5>1. CASE i = 1  BY <2>2, <4>1, <5>1
        <5>2. CASE i # 1
          <6>1. 1 < i  BY <5>2
          <6>2. snap.ts < queue[i].ts /\ queue[i].ts \in Nat
            BY <2>2, <6>1, TimesInQueue DEF QueueAscends
          <6> QED  BY <2>2, <4>1, <6>2
        <5> QED  BY <5>1, <5>2
      <4> QED  BY <4>1, <4>2 DEF NoneMissing
    <3> QED  BY <3>3, <3>4
  <2> QED  BY <2>4, <2>5
<1>3. ASSUME NEW arrived \in BOOLEAN, NEW ok \in BOOLEAN, SendReturns(arrived, ok)
      PROVE  WindowIsTrue'
  BY <1>0, <1>3 DEF SendReturns, sampleHistory
<1>4. CASE UNCHANGED vars  BY <1>0, <1>4 DEF vars, evalVars, sampleHistory
<1> QED  BY <1>1, <1>2, <1>3, <1>4, AlertsCases

-----------------------------------------------------------------------------
(***************************************************************************)
(* What the rules of a mail have in common: in the snapshot evaluated last *)
(* they were at or above, long enough, and allowed again; and they are all *)
(* of those.  The start the history keeps is the window's.                 *)
(***************************************************************************)
Ripe(r) == now - since[r] >= For /\ now >= nextAllowed[r]

DueIsRipe ==
    /\ start = since
    /\ \A r \in breached : since[r] # 0
    /\ pc = "sending" => due = {r \in breached : Ripe(r)}

(***************************************************************************)
(* When a rule may be mailed again: it was never mailed, or that is a      *)
(* cooldown after the last mail that was reported sent, or a retry after   *)
(* the last that was reported to fail.                                     *)
(***************************************************************************)
PauseIsExplained ==
    \A r \in Rules :
        \/ nextAllowed[r] = 0
        \/ sent[r] # 0 /\ nextAllowed[r] = sent[r] + Cooldown
        \/ failed[r] # 0 /\ nextAllowed[r] = failed[r] + RetryAfter

(* It is not before the gap after the last mail that arrived is over. *)
Gap(r) == IF sent[r] = delivered[r] THEN Cooldown ELSE RetryAfter

PauseIsLong ==
    \A r \in Rules :
        /\ sent[r] <= now
        /\ r \in due => sent[r] < now
        /\ delivered[r] # 0 => nextAllowed[r] >= delivered[r] + Gap(r)

(* A mail is about exactly the rules that are ripe. *)
LEMMA EvaluatedDue ==
    ASSUME Evaluate
    PROVE  due' = {r \in breached' : Ripe(r)'}
  BY DEF Evaluate, Fires, Ripe

LEMMA DueStep ==
    ASSUME AllTypes, QueueAscends, DueIsRipe, [AlertsNext]_vars
    PROVE  DueIsRipe'
<1> USE DEF AllTypes
<1>0. ASSUME UNCHANGED <<start, since, breached, pc, due, now, nextAllowed>>
      PROVE  DueIsRipe'
  BY <1>0 DEF DueIsRipe, Ripe
<1>1. CASE Publish
  BY <1>0, <1>1 DEF Publish, evalVars, ruleHistory
<1>2. CASE Evaluate
  <2> DEFINE snap == Head(queue)
  <2>1. /\ queue # <<>> /\ now' = snap.ts /\ nextAllowed' = nextAllowed
        /\ since' = [r \in Rules |-> Window(since[r], snap.ts, snap.of[r])]
        /\ breached' = {r \in Rules : snap.of[r] = "above"}
        /\ start' = [r \in Rules |->
                      IF snap.of[r] = "below" THEN 0
                      ELSE IF start[r] = 0 /\ r \in breached' THEN snap.ts
                      ELSE start[r]]
    BY <1>2 DEF Evaluate
  <2>2. snap.ts \in 1 .. MaxTick /\ snap.of \in [Rules -> Readings]
    BY <2>1, HeadOfQueue
  <2> HIDE DEF snap
  <2>3. ASSUME NEW r \in Rules
        PROVE  start'[r] = since'[r] /\ (r \in breached' => since'[r] # 0)
    <3>1. since[r] \in 0 .. MaxTick /\ snap.of[r] \in Readings /\ start[r] = since[r]
      BY <2>2 DEF AlertsTypeOK, DueIsRipe
    <3>2. since'[r] = Window(since[r], snap.ts, snap.of[r])
      BY <2>1
    <3>3. r \in breached' <=> snap.of[r] = "above"
      BY <2>1
    <3>4. start'[r] = IF snap.of[r] = "below" THEN 0
                      ELSE IF start[r] = 0 /\ r \in breached' THEN snap.ts
                      ELSE start[r]
      BY <2>1
    <3>5. /\ snap.of[r] = "absent" => since'[r] = since[r]
          /\ snap.of[r] = "below" => since'[r] = 0
          /\ snap.of[r] = "above" => since'[r] = IF since[r] = 0 THEN snap.ts ELSE since[r]
      BY <2>2, <3>1, <3>2, WindowType
    <3>6. snap.ts # 0
      BY <2>2
    <3> QED  BY <3>1, <3>3, <3>4, <3>5, <3>6 DEF Readings
  <2>4. start' = since'
    BY <2>1, <2>3
  <2>5. \A r \in breached' : since'[r] # 0
    BY <2>1, <2>3
  <2> QED  BY <1>2, <2>4, <2>5, EvaluatedDue DEF DueIsRipe
<1>3. ASSUME NEW arrived \in BOOLEAN, NEW ok \in BOOLEAN, SendReturns(arrived, ok)
      PROVE  DueIsRipe'
  BY <1>3 DEF SendReturns, ruleHistory, DueIsRipe
<1>4. CASE UNCHANGED vars  BY <1>0, <1>4 DEF vars, evalVars, ruleHistory
<1> QED  BY <1>1, <1>2, <1>3, <1>4, AlertsCases

LEMMA PauseTypes ==
    ASSUME AllTypes, NEW r \in Rules
    PROVE  /\ now \in Nat /\ nextAllowed[r] \in Nat /\ sent[r] \in Nat
           /\ failed[r] \in Nat /\ delivered[r] \in Nat
           /\ Cooldown \in Nat /\ RetryAfter \in Nat
<1>1. sent[r] \in 0 .. MaxTick /\ failed[r] \in 0 .. MaxTick /\ delivered[r] \in 0 .. MaxTick
  BY DEF AllTypes, HistoryTypeOK
<1>2. now \in 0 .. clock /\ clock \in 0 .. MaxTick /\ nextAllowed[r] \in Nat
  BY DEF AllTypes, AlertsTypeOK
<1> QED  BY <1>1, <1>2, AlertsAssumption

(* What SendReturns does for one rule. *)
LEMMA Returned ==
    ASSUME AllTypes, NEW arrived \in BOOLEAN, NEW ok \in BOOLEAN, SendReturns(arrived, ok),
           NEW r \in Rules
    PROVE  /\ due' = {} /\ now' = now
           /\ ok => arrived
           /\ r \in due =>
                /\ nextAllowed'[r] = now + IF ok THEN Cooldown ELSE RetryAfter
                /\ delivered'[r] = IF arrived THEN now ELSE delivered[r]
                /\ sent'[r] = IF ok THEN now ELSE sent[r]
                /\ failed'[r] = IF ok THEN failed[r] ELSE now
           /\ r \notin due =>
                /\ nextAllowed'[r] = nextAllowed[r]
                /\ delivered'[r] = delivered[r]
                /\ sent'[r] = sent[r] /\ failed'[r] = failed[r]
<1> DEFINE Note(f) == [q \in Rules |-> IF q \in due THEN now ELSE f[q]]
<1>1. /\ nextAllowed' = NextAllowed(ok) /\ due' = {} /\ now' = now
      /\ delivered' = (IF arrived THEN Note(delivered) ELSE delivered)
      /\ sent' = (IF ok THEN Note(sent) ELSE sent)
      /\ failed' = (IF ok THEN failed ELSE Note(failed))
      /\ ok => arrived
  BY DEF SendReturns
<1>2. \A f : Note(f)[r] = IF r \in due THEN now ELSE f[r]
  OBVIOUS
<1>3. nextAllowed'[r] = IF r \in due THEN now + (IF ok THEN Cooldown ELSE RetryAfter)
                        ELSE nextAllowed[r]
  BY <1>1 DEF NextAllowed
<1> HIDE DEF Note
<1>4. delivered'[r] = IF arrived /\ r \in due THEN now ELSE delivered[r]
  BY <1>1, <1>2
<1>5. sent'[r] = IF ok /\ r \in due THEN now ELSE sent[r]
  BY <1>1, <1>2
<1>6. failed'[r] = IF ~ok /\ r \in due THEN now ELSE failed[r]
  BY <1>1, <1>2
<1> QED  BY <1>1, <1>3, <1>4, <1>5, <1>6

LEMMA PauseStep ==
    ASSUME AllTypes, QueueAscends, DueIsRipe, PauseIsExplained, PauseIsLong, [AlertsNext]_vars
    PROVE  PauseIsExplained' /\ PauseIsLong'
<1> DEFINE Good == PauseIsExplained' /\ PauseIsLong'
<1>0. ASSUME UNCHANGED <<now, nextAllowed, due, delivered, sent, failed>>  PROVE Good
  BY <1>0 DEF PauseIsExplained, PauseIsLong, Gap
<1>1. CASE Publish  BY <1>0, <1>1 DEF Publish, evalVars, sendHistory
<1>2. CASE Evaluate
  <2>1. /\ queue # <<>> /\ now' = Head(queue).ts
        /\ UNCHANGED <<nextAllowed, delivered, sent, failed>>
    BY <1>2 DEF Evaluate, sendHistory
  <2>2. now < now' /\ now' \in Nat
    <3>1. Head(queue) = queue[1] /\ 1 \in 1 .. Len(queue)
      BY <2>1, HeadOfQueue DEF AllTypes
    <3> QED  BY <2>1, <3>1, TimesInQueue DEF QueueAscends, AllTypes
  <2>3. PauseIsExplained'
    BY <2>1 DEF PauseIsExplained
  <2>4. ASSUME NEW r \in Rules
        PROVE  /\ sent[r] < now'
               /\ delivered[r] # 0 => nextAllowed[r] >= delivered[r] + Gap(r)
    BY <2>2, PauseTypes DEF PauseIsLong
  <2>5. PauseIsLong'
    BY <2>1, <2>2, <2>4, PauseTypes DEF PauseIsLong, Gap
  <2> QED  BY <2>3, <2>5
<1>3. ASSUME NEW arrived \in BOOLEAN, NEW ok \in BOOLEAN, SendReturns(arrived, ok)
      PROVE  Good
  <2>1. pc = "sending"
    BY <1>3 DEF SendReturns
  <2>2. ASSUME NEW r \in Rules
        PROVE  /\ \/ nextAllowed'[r] = 0
                  \/ sent'[r] # 0 /\ nextAllowed'[r] = sent'[r] + Cooldown
                  \/ failed'[r] # 0 /\ nextAllowed'[r] = failed'[r] + RetryAfter
               /\ sent'[r] <= now' /\ r \notin due'
               /\ delivered'[r] # 0 => nextAllowed'[r] >= delivered'[r] + Gap(r)'
    <3>1. /\ now \in Nat /\ nextAllowed[r] \in Nat /\ sent[r] \in Nat
          /\ failed[r] \in Nat /\ delivered[r] \in Nat
          /\ Cooldown \in Nat /\ RetryAfter \in Nat
      BY PauseTypes
    <3>2. /\ \/ nextAllowed[r] = 0
             \/ sent[r] # 0 /\ nextAllowed[r] = sent[r] + Cooldown
             \/ failed[r] # 0 /\ nextAllowed[r] = failed[r] + RetryAfter
          /\ sent[r] <= now
          /\ r \in due => sent[r] < now
          /\ delivered[r] # 0 =>
                nextAllowed[r] >= delivered[r] + IF sent[r] = delivered[r] THEN Cooldown
                                                 ELSE RetryAfter
      BY DEF PauseIsExplained, PauseIsLong, Gap
    <3>3. CASE r \notin due
      BY <1>3, <3>1, <3>2, <3>3, Returned DEF Gap
    <3>4. CASE r \in due
      <4>1. /\ due' = {} /\ now' = now /\ (ok => arrived)
            /\ nextAllowed'[r] = now + IF ok THEN Cooldown ELSE RetryAfter
            /\ delivered'[r] = IF arrived THEN now ELSE delivered[r]
            /\ sent'[r] = IF ok THEN now ELSE sent[r]
            /\ failed'[r] = IF ok THEN failed[r] ELSE now
        BY <1>3, <3>4, Returned
      <4>2. now >= nextAllowed[r] /\ sent[r] < now
        BY <2>1, <3>2, <3>4 DEF DueIsRipe, Ripe
      <4> QED  BY <3>1, <3>2, <4>1, <4>2 DEF Gap
    <3> QED  BY <3>3, <3>4
  <2> QED  BY <2>2 DEF PauseIsExplained, PauseIsLong
<1>4. CASE UNCHANGED vars  BY <1>0, <1>4 DEF vars, evalVars, sendHistory
<1> HIDE DEF Good
<1> QED  BY <1>1, <1>2, <1>3, <1>4, AlertsCases DEF Good

(* Who may not be mailed yet was mailed, or failed to be, lately. *)
LEMMA PausedIsSilenced ==
    ASSUME AllTypes, PauseIsExplained, NEW r \in Rules, ~(now >= nextAllowed[r])
    PROVE  Silenced(sent[r], Cooldown) \/ Silenced(failed[r], RetryAfter)
  BY PauseTypes DEF PauseIsExplained, Silenced

LEMMA SilenceStep ==
    ASSUME AllTypes, AllTypes', DueIsRipe, DueIsRipe', PauseIsExplained, PauseIsExplained',
           PauseIsLong, SilenceIsExplained, [AlertsNext]_vars
    PROVE  SilenceIsExplained'
<1>0. ASSUME UNCHANGED <<pc, breached, now, start, sent, failed>>
      PROVE  SilenceIsExplained'
  BY <1>0 DEF SilenceIsExplained, Silenced
<1>1. CASE Publish  BY <1>0, <1>1 DEF Publish, evalVars, ruleHistory, sendHistory
<1>2. CASE Evaluate
  <2> SUFFICES ASSUME pc' = "ready", NEW r \in breached', now' - start'[r] >= For
               PROVE  (Silenced(sent[r], Cooldown) \/ Silenced(failed[r], RetryAfter))'
    BY DEF SilenceIsExplained
  <2>1. r \notin due'
    BY DEF AllTypes, AlertsTypeOK
  <2>2. ~Ripe(r)'
    BY <1>2, <2>1, EvaluatedDue
  <2>3. ~(now >= nextAllowed[r])'
    BY <2>2 DEF Ripe, DueIsRipe
  <2>4. r \in Rules
    BY DEF AllTypes, HistoryTypeOK
  <2>5. /\ now' \in Nat /\ nextAllowed'[r] \in Nat /\ sent'[r] \in Nat /\ failed'[r] \in Nat
        /\ Cooldown \in Nat /\ RetryAfter \in Nat
    <3>1. sent'[r] \in 0 .. MaxTick /\ failed'[r] \in 0 .. MaxTick
      BY <2>4 DEF AllTypes, HistoryTypeOK
    <3>2. now' \in 0 .. clock' /\ clock' \in 0 .. MaxTick /\ nextAllowed'[r] \in Nat
      BY <2>4 DEF AllTypes, AlertsTypeOK
    <3> QED  BY <3>1, <3>2, AlertsAssumption
  <2> QED  BY <2>3, <2>4, <2>5 DEF PauseIsExplained, Silenced
<1>3. ASSUME NEW arrived \in BOOLEAN, NEW ok \in BOOLEAN, SendReturns(arrived, ok)
      PROVE  SilenceIsExplained'
  <2>1. /\ pc = "sending" /\ now' = now /\ breached' = breached /\ start' = start
        /\ start = since
    BY <1>3 DEF SendReturns, ruleHistory, DueIsRipe
  <2> SUFFICES ASSUME NEW r \in breached, now - since[r] >= For
               PROVE  (Silenced(sent[r], Cooldown) \/ Silenced(failed[r], RetryAfter))'
    BY <2>1 DEF SilenceIsExplained
  <2>2. r \in Rules
    BY DEF AllTypes, HistoryTypeOK
  <2>3. CASE r \in due
    <3>1. sent'[r] = now \/ failed'[r] = now
      BY <1>3, <2>2, <2>3, Returned
    <3>2. now # 0
      BY <2>2, <2>3, PauseTypes DEF PauseIsLong
    <3> QED  BY <2>1, <3>1, <3>2 DEF Silenced
  <2>4. CASE r \notin due
    <3>1. ~(now >= nextAllowed[r])
      BY <2>1, <2>4 DEF DueIsRipe, Ripe
    <3>2. sent'[r] = sent[r] /\ failed'[r] = failed[r]
      BY <1>3, <2>2, <2>4, Returned
    <3> QED  BY <2>1, <2>2, <3>1, <3>2, PausedIsSilenced DEF Silenced
  <2> QED  BY <2>3, <2>4
<1>4. CASE UNCHANGED vars
  BY <1>0, <1>4 DEF vars, evalVars, ruleHistory, sendHistory
<1> QED  BY <1>1, <1>2, <1>3, <1>4, AlertsCases

-----------------------------------------------------------------------------
AlertsInv ==
    /\ AllTypes /\ QueueAscends /\ QueueIsTrue /\ NoneMissing /\ WindowIsTrue
    /\ DueIsRipe /\ PauseIsExplained /\ PauseIsLong /\ SilenceIsExplained

LEMMA AlertsInvHolds == AlertsSpec => []AlertsInv
<1>1. AlertsInit => AlertsInv
  <2> SUFFICES ASSUME AlertsInit  PROVE AlertsInv
    OBVIOUS
  <2>1. AllTypes
    BY TypeAtFirst
  <2>2. /\ queue = <<>> /\ now = 0 /\ clock = 0 /\ pc = "ready" /\ breached = {} /\ due = {}
        /\ start = since
    BY DEF AlertsInit
  <2>3. QueueAscends /\ QueueIsTrue /\ NoneMissing
    BY <2>2 DEF QueueAscends, QueueIsTrue, NoneMissing
  <2>4. WindowIsTrue
    BY DEF AlertsInit, WindowIsTrue
  <2>5. DueIsRipe /\ SilenceIsExplained
    BY <2>2 DEF DueIsRipe, SilenceIsExplained
  <2>6. PauseIsExplained /\ PauseIsLong
    BY <2>2 DEF AlertsInit, PauseIsExplained, PauseIsLong
  <2> QED  BY <2>1, <2>3, <2>4, <2>5, <2>6 DEF AlertsInv
<1>2. ASSUME AlertsInv, [AlertsNext]_vars  PROVE AlertsInv'
  <2>1. AllTypes'
    BY <1>2, TypeStep DEF AlertsInv
  <2>2. QueueAscends' /\ QueueIsTrue' /\ NoneMissing' /\ WindowIsTrue'
    BY <1>2, QueueStep, TrueStep, MissingStep, WindowStep DEF AlertsInv
  <2>3. DueIsRipe' /\ PauseIsExplained' /\ PauseIsLong'
    BY <1>2, DueStep, PauseStep DEF AlertsInv
  <2>4. SilenceIsExplained'
    BY <1>2, <2>1, <2>3, SilenceStep DEF AlertsInv
  <2> QED  BY <2>1, <2>2, <2>3, <2>4 DEF AlertsInv
<1>3. AlertsInv /\ [AlertsNext]_vars => AlertsInv'
  BY <1>2
<1> QED  BY <1>1, <1>3, PTL DEF AlertsSpec

(***************************************************************************)
(* The notifier's state keeps its type and its channel its size, for any   *)
(* rules and durations (Notifier).                                         *)
(***************************************************************************)
THEOREM AlertsTypeCorrect == AlertsSpec => []AlertsTypeOK
<1>1. AlertsInv => AlertsTypeOK
  BY DEF AlertsInv, AllTypes
<1> QED  BY <1>1, AlertsInvHolds, PTL

(***************************************************************************)
(* A mail about a rule means a whole For without a sample below that       *)
(* reached the notifier, for any rules, any For and any channel (check).   *)
(***************************************************************************)
THEOREM MailsMeanBreach == AlertsSpec => []MailMeansBreach
<1>1. ASSUME AlertsInv, NEW r \in due, NEW t \in Dips(r)  PROVE t \in dropped
  <2>1. pc = "sending" /\ r \in Rules
    BY <1>1 DEF AlertsInv, AllTypes, AlertsTypeOK
  <2>2. r \in breached /\ now - since[r] >= For /\ since[r] # 0
    BY <1>1, <2>1 DEF AlertsInv, DueIsRipe, Ripe
  <2>3. t \in below[r] /\ now - For <= t /\ t <= now
    BY <1>1 DEF Dips
  <2>4. /\ now \in Nat /\ since[r] \in Nat /\ t \in Nat /\ For \in Nat
    BY <1>1, <2>1, <2>3, AlertsAssumption DEF AlertsInv, AllTypes, AlertsTypeOK, HistoryTypeOK
  <2>5. since[r] <= t /\ t + For >= now
    BY <2>2, <2>3, <2>4
  <2> QED  BY <1>1, <2>1, <2>2, <2>3, <2>5 DEF AlertsInv, WindowIsTrue
<1>2. AlertsInv => MailMeansBreach
  BY <1>1 DEF MailMeansBreach
<1> QED  BY <1>2, AlertsInvHolds, PTL

(***************************************************************************)
(* A rule that should be mailed and is not was mailed, or failed to be,    *)
(* lately, for any rules and durations: no other rule's mail and no failed *)
(* send silences it for longer (Evaluate).                                 *)
(***************************************************************************)
THEOREM SilenceHasReason == AlertsSpec => []SilenceIsExplained
<1>1. AlertsInv => SilenceIsExplained
  BY DEF AlertsInv
<1> QED  BY <1>1, AlertsInvHolds, PTL

(***************************************************************************)
(* Two mails that arrive for one rule are a cooldown apart, or, if the     *)
(* first was reported as failed, a retry, for any rules and durations      *)
(* (Evaluate, check).                                                      *)
(***************************************************************************)
THEOREM MailsAreApart == AlertsSpec => DeliveriesApart
<1>1. ASSUME AlertsInv, [AlertsNext]_vars, NEW r \in Rules,
             delivered'[r] # delivered[r], delivered[r] # 0
      PROVE  delivered'[r] - delivered[r] >=
                IF sent[r] = delivered[r] THEN Cooldown ELSE RetryAfter
  <2>1. \E arrived \in BOOLEAN, ok \in BOOLEAN : SendReturns(arrived, ok)
    BY <1>1, AlertsCases DEF Publish, Evaluate, vars, sendHistory
  <2>2. PICK arrived \in BOOLEAN, ok \in BOOLEAN : SendReturns(arrived, ok)
    BY <2>1
  <2>3. r \in due /\ delivered'[r] = now
    BY <1>1, <2>2, Returned DEF AlertsInv
  <2>4. now >= nextAllowed[r]
    BY <2>2, <2>3, <1>1 DEF SendReturns, AlertsInv, DueIsRipe, Ripe
  <2>5. nextAllowed[r] >= delivered[r] + Gap(r)
    BY <1>1 DEF AlertsInv, PauseIsLong
  <2> QED  BY <1>1, <2>3, <2>4, <2>5, PauseTypes DEF AlertsInv, Gap
<1>2. AlertsInv /\ [AlertsNext]_vars
        => [\A r \in Rules :
              delivered'[r] # delivered[r] /\ delivered[r] # 0 =>
                 delivered'[r] - delivered[r] >=
                    IF sent[r] = delivered[r] THEN Cooldown ELSE RetryAfter]_vars
  BY <1>1
<1> QED  BY <1>2, AlertsInvHolds, PTL DEF AlertsSpec, DeliveriesApart
=============================================================================
