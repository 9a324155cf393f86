--------------------------- MODULE CollectorProofs ---------------------------
(***************************************************************************)
(* Proofs about Collector, for every ring size, channel capacity, number   *)
(* of subscriptions and of samples, and about LiveStream, the collector    *)
(* with the event streams it feeds, for every number of connections.       *)
(***************************************************************************)
EXTENDS LiveStream, RingProofs

(* The parts of CollectorTypeOK the channel steps need. *)
LEMMA OfferType ==
    ASSUME NEW ch \in Channels, Len(ch.buf) <= SubscriberBuffer,
           NEW snap \in Snapshots
    PROVE  /\ Offer(ch, snap) \in Channels
           /\ Len(Offer(ch, snap).buf) <= SubscriberBuffer
           /\ Offer(ch, snap).closed = ch.closed
<1>1. CASE Len(ch.buf) < SubscriberBuffer
  <2>1. /\ Append(ch.buf, snap) \in Seq(Snapshots)
        /\ Len(Append(ch.buf, snap)) = Len(ch.buf) + 1
        /\ Len(ch.buf) \in Nat
    BY DEF Channels
  <2> QED BY <1>1, <2>1, CollectorAssumption DEF Offer, Channels
<1>2. CASE ~(Len(ch.buf) < SubscriberBuffer)
  BY <1>2 DEF Offer
<1> QED BY <1>1, <1>2

LEMMA TypeInit == CollectorInit => CollectorTypeOK
<1> SUFFICES ASSUME CollectorInit PROVE CollectorTypeOK
  OBVIOUS
<1>1. ring \in Rings(0 .. MaxTick)
  BY CapAssumption, CollectorAssumption
  DEF CollectorInit, EmptyRing, Rings, Slots
<1>2. /\ chan \in [SubIds -> Channels]
      /\ \A id \in SubIds : Len(chan[id].buf) <= SubscriberBuffer
  <2>1. <<>> \in Seq(Snapshots) /\ Len(<<>>) = 0
    OBVIOUS
  <2> QED BY <2>1, CollectorAssumption DEF CollectorInit, Channels
<1>3. /\ latest \in 0 .. MaxTick /\ sampled \in BOOLEAN
      /\ nextSub \in 0 .. MaxSubs /\ subs \subseteq SubIds
      /\ run \in {"first", "loop", "returned"}
      /\ stopped \in BOOLEAN /\ ctxDone \in BOOLEAN
  <2>1. 0 \in 0 .. MaxTick /\ 0 \in 0 .. MaxSubs
    BY CollectorAssumption
  <2>2. /\ latest = 0 /\ nextSub = 0 /\ subs = {} /\ run = "first"
        /\ sampled = FALSE /\ stopped = FALSE /\ ctxDone = FALSE
    BY DEF CollectorInit
  <2> QED BY <2>1, <2>2, Zenon
<1> QED BY <1>1, <1>2, <1>3 DEF CollectorTypeOK

LEMMA TypeStep ==
    CollectorTypeOK /\ [CollectorNext]_collectorVars => CollectorTypeOK'
<1> SUFFICES ASSUME CollectorTypeOK, [CollectorNext]_collectorVars
             PROVE  CollectorTypeOK'
  OBVIOUS
<1>1. CASE Sample
  <2>1. latest + 1 \in Snapshots /\ latest + 1 \in 0 .. MaxTick
    BY <1>1, CollectorAssumption DEF Sample, CollectorTypeOK, Snapshots
  <2>2. ring' \in Rings(0 .. MaxTick)
    BY <1>1, <2>1, PushType DEF Sample, Publish, CollectorTypeOK
  <2>3. /\ chan' \in [SubIds -> Channels]
        /\ \A id \in SubIds : Len(chan'[id].buf) <= SubscriberBuffer
    BY <1>1, <2>1, OfferType DEF Sample, Publish, CollectorTypeOK
  <2> QED BY <1>1, <2>1, <2>2, <2>3 DEF Sample, Publish, CollectorTypeOK
<1>2. ASSUME NEW ids \in SUBSET SubIds, Unregister(ids),
             ring' \in Rings(0 .. MaxTick),
             UNCHANGED <<latest, sampled, nextSub>>,
             stopped' \in BOOLEAN, ctxDone' \in BOOLEAN,
             run' \in {"first", "loop", "returned"}
      PROVE  CollectorTypeOK'
  <2>1. /\ chan' \in [SubIds -> Channels]
        /\ \A id \in SubIds : Len(chan'[id].buf) <= SubscriberBuffer
    BY <1>2 DEF Unregister, CollectorTypeOK, Channels
  <2> QED BY <1>2, <2>1 DEF Unregister, CollectorTypeOK
<1>3. CASE Return
  BY <1>2, <1>3 DEF Return, CollectorTypeOK
<1>4. CASE Subscribe
  <2>1. nextSub \in SubIds /\ nextSub' \in 0 .. MaxSubs
    BY <1>4, CollectorAssumption DEF Subscribe, CollectorTypeOK, SubIds
  <2>2. /\ chan' \in [SubIds -> Channels]
        /\ \A id \in SubIds : Len(chan'[id].buf) <= SubscriberBuffer
    BY <1>4, <2>1 DEF Subscribe, CollectorTypeOK, Channels
  <2>3. subs' \subseteq SubIds
    BY <1>4, <2>1 DEF Subscribe, CollectorTypeOK
  <2> QED BY <1>4, <2>1, <2>2, <2>3 DEF Subscribe, CollectorTypeOK
<1>5. ASSUME NEW id \in SubIds, Cancel(id) PROVE CollectorTypeOK'
  BY <1>2, <1>5 DEF Cancel, CollectorTypeOK
<1>6. ASSUME NEW id \in SubIds, Receive(id) PROVE CollectorTypeOK'
  <2>1. /\ chan[id] \in Channels
        /\ Len(chan[id].buf) <= SubscriberBuffer
        /\ chan[id].buf \in Seq(Snapshots)
    BY DEF CollectorTypeOK, Channels
  <2>2. /\ Tail(chan[id].buf) \in Seq(Snapshots)
        /\ Len(Tail(chan[id].buf)) <= SubscriberBuffer
    BY <1>6, <2>1, CollectorAssumption DEF Receive
  <2>3. /\ chan' \in [SubIds -> Channels]
        /\ \A i \in SubIds : Len(chan'[i].buf) <= SubscriberBuffer
    BY <1>6, <2>1, <2>2 DEF Receive, CollectorTypeOK, Channels
  <2> QED BY <1>6, <2>3 DEF Receive, CollectorTypeOK
<1>7. CASE CancelContext
  BY <1>7 DEF CancelContext, CollectorTypeOK
<1>8. CASE UNCHANGED collectorVars
  BY <1>8 DEF collectorVars, CollectorTypeOK
<1> QED BY <1>1, <1>3, <1>4, <1>5, <1>6, <1>7, <1>8 DEF CollectorNext

(* THEOREM: the collector's state keeps its type: the ring never leaves its *)
(* slots and no channel holds more than its capacity (Collector, all steps).*)
THEOREM TypeCorrect == CollectorSpec => []CollectorTypeOK
  BY TypeInit, TypeStep, PTL DEF CollectorSpec

-----------------------------------------------------------------------------
(***************************************************************************)
(* The registration invariant.  OpenIffRegistered alone is not inductive:  *)
(* Subscribe is safe because a channel not issued yet was never touched,   *)
(* and what a stopped collector hands out is closed and never registered.  *)
(***************************************************************************)
Untouched == \A id \in SubIds : id >= nextSub =>
    id \notin subs /\ ~chan[id].closed /\ chan[id].buf = <<>>
Registration == OpenIffRegistered /\ Untouched

LEMMA RegistrationInit == CollectorInit => Registration
  BY DEF CollectorInit, Registration, OpenIffRegistered, Untouched, SubIds

(* Unregistering registered ids, and changing nothing else of registration, *)
(* keeps it: the step of Return and of Cancel.                              *)
LEMMA UnregisterKeeps ==
    ASSUME CollectorTypeOK, Registration, NEW ids \in SUBSET subs,
           Unregister(ids), nextSub' = nextSub,
           stopped' = stopped \/ ids = subs
    PROVE  Registration'
<1>1. \A id \in SubIds :
         /\ chan'[id].buf = chan[id].buf
         /\ chan'[id].closed = (id \in ids \/ chan[id].closed)
  BY DEF Unregister, CollectorTypeOK, Channels
<1>2. OpenIffRegistered' /\ Untouched'
  BY <1>1 DEF Unregister, Registration, OpenIffRegistered, Untouched
<1> QED BY <1>2 DEF Registration

LEMMA RegistrationStep ==
    CollectorTypeOK /\ Registration /\ [CollectorNext]_collectorVars
        => Registration'
<1> SUFFICES ASSUME CollectorTypeOK, Registration, [CollectorNext]_collectorVars
             PROVE  Registration'
  OBVIOUS
<1>1. CASE Sample
  <2>1. \A id \in SubIds :
           /\ chan'[id].closed = chan[id].closed
           /\ id \notin subs => chan'[id].buf = chan[id].buf
    BY <1>1 DEF Sample, Publish, Offer, CollectorTypeOK, Channels
  <2> QED BY <1>1, <2>1 DEF Sample, Publish, Registration,
                            OpenIffRegistered, Untouched
<1>2. CASE Return
  BY <1>2, UnregisterKeeps DEF Return
<1>3. CASE Subscribe
  <2>1. nextSub \in SubIds /\ nextSub \in Nat
    BY <1>3, CollectorAssumption DEF Subscribe, CollectorTypeOK, SubIds
  <2>2. \A id \in SubIds :
           /\ chan'[id].buf = chan[id].buf
           /\ chan'[id].closed = (chan[id].closed \/ (stopped /\ id = nextSub))
    <3>1. CASE stopped
      <4>1. chan' = [chan EXCEPT ![nextSub].closed = TRUE]
        BY <1>3, <3>1 DEF Subscribe
      <4> QED BY <2>1, <3>1, <4>1 DEF CollectorTypeOK, Channels
    <3>2. CASE ~stopped
      <4>1. chan' = chan
        BY <1>3, <3>2 DEF Subscribe
      <4> QED BY <3>2, <4>1 DEF CollectorTypeOK, Channels
    <3> QED BY <3>1, <3>2
  <2>3. subs' = IF stopped THEN subs ELSE subs \cup {nextSub}
    BY <1>3 DEF Subscribe
  <2>4. \A id \in SubIds : id \in Nat
    BY CollectorAssumption DEF SubIds
  <2>5. nextSub' = nextSub + 1 /\ stopped' = stopped
    BY <1>3 DEF Subscribe
  <2>6. ASSUME NEW id \in SubIds, id < nextSub'
        PROVE  chan'[id].closed <=> id \notin subs'
    <3>1. CASE id = nextSub
      <4>1. ~chan[id].closed /\ id \notin subs
        BY <2>1, <3>1 DEF Registration, Untouched
      <4> QED BY <2>2, <2>3, <3>1, <4>1
    <3>2. CASE id # nextSub
      <4>1. id < nextSub
        BY <2>1, <2>4, <2>5, <2>6, <3>2
      <4>2. chan[id].closed <=> id \notin subs
        BY <4>1 DEF Registration, OpenIffRegistered
      <4>3. chan'[id].closed = chan[id].closed /\ (id \in subs' <=> id \in subs)
        BY <2>2, <2>3, <3>2 DEF CollectorTypeOK, Channels
      <4> QED BY <4>2, <4>3
    <3> QED BY <3>1, <3>2
  <2>7. ASSUME NEW id \in SubIds, id >= nextSub'
        PROVE  id \notin subs' /\ ~chan'[id].closed /\ chan'[id].buf = <<>>
    <3>1. id # nextSub /\ id >= nextSub
      BY <2>1, <2>4, <2>5, <2>7
    <3> QED BY <2>2, <2>3, <3>1 DEF Registration, Untouched
  <2>8. stopped' => subs' = {}
    BY <2>3, <2>5 DEF Registration, OpenIffRegistered
  <2> QED BY <2>6, <2>7, <2>8 DEF Registration, OpenIffRegistered, Untouched
<1>4. ASSUME NEW id \in SubIds, Cancel(id) PROVE Registration'
  <2>1. {id} \cap subs \in SUBSET subs
    OBVIOUS
  <2> QED BY <1>4, <2>1, UnregisterKeeps DEF Cancel
<1>5. ASSUME NEW id \in SubIds, Receive(id) PROVE Registration'
  <2>1. \A i \in SubIds :
           /\ chan'[i].closed = chan[i].closed
           /\ i # id => chan'[i].buf = chan[i].buf
    BY <1>5 DEF Receive, CollectorTypeOK, Channels
  <2>2. chan[id].buf # <<>>
    BY <1>5 DEF Receive
  <2> QED BY <1>5, <2>1, <2>2 DEF Receive, Registration, OpenIffRegistered,
                                  Untouched
<1>6. CASE CancelContext
  BY <1>6 DEF CancelContext, Registration, OpenIffRegistered, Untouched
<1>7. CASE UNCHANGED collectorVars
  BY <1>7 DEF collectorVars, Registration, OpenIffRegistered, Untouched
<1> QED BY <1>1, <1>2, <1>3, <1>4, <1>5, <1>6, <1>7 DEF CollectorNext

LEMMA RegistrationHolds == CollectorSpec => []Registration
  BY RegistrationInit, RegistrationStep, TypeCorrect, PTL DEF CollectorSpec

(* THEOREM: no publish, shutdown or cancel ever meets a closed channel, and  *)
(* a stopped collector has nobody registered, in whatever order Subscribe,   *)
(* its cancel funcs and shutdown run.                                        *)
THEOREM NoSendOnClosed == CollectorSpec => []OpenIffRegistered
<1>1. Registration => OpenIffRegistered
  BY DEF Registration
<1> QED BY <1>1, RegistrationHolds, PTL

(* THEOREM: a subscription that races the shutdown is closed by it or handed *)
(* out closed: a stopped collector leaves no reader waiting.                 *)
THEOREM ShutdownReachesAll == CollectorSpec => []NoneLeftOpen
<1>1. Registration => NoneLeftOpen
  BY DEF Registration, OpenIffRegistered, NoneLeftOpen
<1> QED BY <1>1, RegistrationHolds, PTL

-----------------------------------------------------------------------------
(***************************************************************************)
(* Order in the channels.  It is inductive as it stands, with the type.    *)
(***************************************************************************)
LEMMA OfferInOrder ==
    ASSUME NEW ch \in Channels, NEW n \in 0 .. MaxTick, n + 1 \in Snapshots,
           \A i, j \in 1 .. Len(ch.buf) : i < j => ch.buf[i] < ch.buf[j],
           \A i \in 1 .. Len(ch.buf) : ch.buf[i] <= n,
           NEW b, b = Offer(ch, n + 1).buf
    PROVE  /\ \A i, j \in 1 .. Len(b) : i < j => b[i] < b[j]
           /\ \A i \in 1 .. Len(b) : b[i] <= n + 1
<1>0. ch.buf \in Seq(Snapshots) /\ Len(ch.buf) \in Nat /\ MaxTick \in Nat
  BY CollectorAssumption DEF Channels
<1>a. \A i \in 1 .. Len(ch.buf) : ch.buf[i] \in Nat
  BY <1>0 DEF Snapshots
<1>1. CASE Len(ch.buf) < SubscriberBuffer
  <2>1. b = Append(ch.buf, n + 1)
    BY <1>1 DEF Offer, Channels
  <2>2. /\ Len(b) = Len(ch.buf) + 1
        /\ \A i \in 1 .. Len(ch.buf) : b[i] = ch.buf[i]
        /\ b[Len(ch.buf) + 1] = n + 1
    <3> DEFINE e == n + 1
    <3>1. e \in Snapshots /\ b = Append(ch.buf, e)
      BY <2>1
    <3> HIDE DEF e
    <3>2. /\ Len(b) = Len(ch.buf) + 1
          /\ \A i \in 1 .. Len(ch.buf) : b[i] = ch.buf[i]
          /\ b[Len(ch.buf) + 1] = e
      BY <1>0, <3>1, AppendProperties
    <3> QED  BY <3>2 DEF e
  <2>3. ASSUME NEW i \in 1 .. Len(b) PROVE b[i] <= n + 1
    <3>1. CASE i = Len(ch.buf) + 1
      BY <2>2, <3>1
    <3>2. CASE i \in 1 .. Len(ch.buf)
      <4>1. b[i] = ch.buf[i] /\ ch.buf[i] <= n /\ ch.buf[i] \in Nat
        BY <1>a, <2>2, <3>2
      <4> QED BY <4>1
    <3> QED BY <1>0, <2>2, <3>1, <3>2
  <2>4. ASSUME NEW i \in 1 .. Len(b), NEW j \in 1 .. Len(b), i < j
        PROVE  b[i] < b[j]
    <3>1. i \in 1 .. Len(ch.buf) /\ b[i] = ch.buf[i] /\ ch.buf[i] <= n
      BY <1>0, <2>2, <2>4
    <3>2. CASE j = Len(ch.buf) + 1
      BY <1>a, <2>2, <3>1, <3>2
    <3>3. CASE j \in 1 .. Len(ch.buf)
      BY <2>2, <2>4, <3>1, <3>3
    <3> QED BY <1>0, <2>2, <3>2, <3>3
  <2> QED BY <2>3, <2>4
<1>2. CASE ~(Len(ch.buf) < SubscriberBuffer)
  BY <1>0, <1>a, <1>2 DEF Offer
<1> QED BY <1>1, <1>2

LEMMA InOrderInit == CollectorInit => InOrder
  BY DEF CollectorInit, InOrder

LEMMA InOrderStep ==
    CollectorTypeOK /\ InOrder /\ [CollectorNext]_collectorVars => InOrder'
<1> SUFFICES ASSUME CollectorTypeOK, InOrder, [CollectorNext]_collectorVars,
                    NEW id \in SubIds, NEW b, b = chan'[id].buf
             PROVE  /\ \A i, j \in 1 .. Len(b) : i < j => b[i] < b[j]
                    /\ \A i \in 1 .. Len(b) : b[i] <= latest'
  BY DEF InOrder
<1> DEFINE a == chan[id].buf
<1>0. /\ chan[id] \in Channels /\ a \in Seq(Snapshots) /\ Len(a) \in Nat
      /\ latest \in 0 .. MaxTick /\ latest \in Nat
      /\ \A i, j \in 1 .. Len(a) : i < j => a[i] < a[j]
      /\ \A i \in 1 .. Len(a) : a[i] <= latest /\ a[i] \in Nat
  <2>1. chan[id] \in Channels /\ a \in Seq(Snapshots) /\ Len(a) \in Nat
    BY DEF CollectorTypeOK, Channels
  <2>2. latest \in 0 .. MaxTick /\ latest \in Nat
    BY CollectorAssumption DEF CollectorTypeOK
  <2>3. \A i \in 1 .. Len(a) : a[i] \in Nat
    BY <2>1, CollectorAssumption DEF Snapshots
  <2>4. /\ \A i, j \in 1 .. Len(a) : i < j => a[i] < a[j]
        /\ \A i \in 1 .. Len(a) : a[i] <= latest
    BY DEF InOrder
  <2> QED BY <2>1, <2>2, <2>3, <2>4
<1>1. CASE Sample
  <2>1. /\ latest' = latest + 1 /\ latest + 1 \in Snapshots
        /\ chan'[id] = IF id \in subs THEN Offer(chan[id], latest + 1)
                       ELSE chan[id]
    BY <1>0, <1>1, CollectorAssumption DEF Sample, Publish, Snapshots
  <2>2. CASE id \in subs
    BY <1>0, <2>1, <2>2, OfferInOrder
  <2>3. CASE id \notin subs
    <3>1. b = a
      BY <2>1, <2>3
    <3>2. \A i \in 1 .. Len(a) : a[i] <= latest + 1
      BY <1>0
    <3> QED BY <1>0, <2>1, <3>1, <3>2
  <2> QED BY <2>2, <2>3
<1>2. ASSUME b = a, latest' = latest
      PROVE  /\ \A i, j \in 1 .. Len(b) : i < j => b[i] < b[j]
             /\ \A i \in 1 .. Len(b) : b[i] <= latest'
  BY <1>0, <1>2
<1>3. ASSUME NEW ids, Unregister(ids) PROVE b = a
  BY <1>0, <1>3 DEF Unregister, Channels
<1>4. CASE Return
  BY <1>2, <1>3, <1>4 DEF Return
<1>5. CASE Subscribe
  <2>1. b = a /\ latest' = latest
    BY <1>5 DEF Subscribe, CollectorTypeOK, Channels
  <2> QED BY <1>2, <2>1
<1>6. ASSUME NEW k \in SubIds, Cancel(k) PROVE b = a /\ latest' = latest
  BY <1>3, <1>6 DEF Cancel
<1>7. ASSUME NEW k \in SubIds, Receive(k)
      PROVE  /\ \A i, j \in 1 .. Len(b) : i < j => b[i] < b[j]
             /\ \A i \in 1 .. Len(b) : b[i] <= latest'
  <2>1. latest' = latest /\ (b = a \/ (a # <<>> /\ b = Tail(a)))
    BY <1>7 DEF Receive, CollectorTypeOK, Channels
  <2>2. CASE a # <<>> /\ b = Tail(a)
    <3>1. /\ Len(b) = Len(a) - 1
          /\ \A i \in 1 .. Len(b) : b[i] = a[i + 1]
      BY <1>0, <2>2
    <3>2. \A i \in 1 .. Len(b) : i + 1 \in 1 .. Len(a)
      BY <1>0, <3>1
    <3>3. ASSUME NEW i \in 1 .. Len(b), NEW j \in 1 .. Len(b), i < j
          PROVE  b[i] < b[j]
      <4>1. i + 1 < j + 1
        BY <1>0, <3>1, <3>3
      <4> QED BY <1>0, <3>1, <3>2, <4>1
    <3>4. ASSUME NEW i \in 1 .. Len(b) PROVE b[i] <= latest'
      BY <1>0, <2>1, <3>1, <3>2
    <3> QED BY <3>3, <3>4
  <2> QED BY <1>2, <2>1, <2>2
<1>8. CASE CancelContext
  BY <1>2, <1>8 DEF CancelContext
<1>9. CASE UNCHANGED collectorVars
  BY <1>2, <1>9 DEF collectorVars
<1> QED BY <1>1, <1>2, <1>4, <1>5, <1>6, <1>7, <1>8, <1>9 DEF CollectorNext

(* THEOREM: what waits in a channel is in the order of sampling, without     *)
(* repeats, and never newer than the latest snapshot (publish).              *)
THEOREM DeliveredInOrder == CollectorSpec => []InOrder
  BY InOrderInit, InOrderStep, TypeCorrect, PTL DEF CollectorSpec

-----------------------------------------------------------------------------
(***************************************************************************)
(* The ring as history: only Sample writes it, and PushAppends says what a *)
(* write does to the contents.                                             *)
(***************************************************************************)
LEMMA OnlySampleWrites ==
    [CollectorNext]_collectorVars => Sample \/ UNCHANGED <<ring, latest>>
  BY DEF CollectorNext, Return, Subscribe, Cancel, Receive, CancelContext,
         collectorVars

LEMMA RecentInit == CollectorInit => RecentIsNewest
  BY CapAssumption DEF CollectorInit, RecentIsNewest, EmptyRing, Contents

LEMMA RecentStep ==
    CollectorTypeOK /\ RecentIsNewest /\ [CollectorNext]_collectorVars
        => RecentIsNewest'
<1> SUFFICES ASSUME CollectorTypeOK, RecentIsNewest, Sample
             PROVE  RecentIsNewest'
  BY OnlySampleWrites DEF RecentIsNewest
<1> DEFINE c == Contents(ring)
           n == ring.count
           app == Append(c, latest + 1)
<1>1. /\ ring \in Rings(0 .. MaxTick) /\ latest \in Nat /\ Cap \in Nat \ {0}
      /\ latest + 1 \in 0 .. MaxTick /\ n \in 0 .. Cap
  BY CapAssumption, CollectorAssumption DEF CollectorTypeOK, Sample, Rings
<1>2. /\ n = IF latest < Cap THEN latest ELSE Cap
      /\ c = [i \in 1 .. n |-> latest - n + i]
  BY DEF RecentIsNewest
<1>3. /\ latest' = latest + 1
      /\ ring' = Push(ring, latest + 1)
      /\ ring'.count = IF n < Cap THEN n + 1 ELSE n
  BY DEF Sample, Publish, Push
<1>4. Contents(ring)' = Newest(app, Cap)
  BY <1>1, <1>3, PushAppends
<1>5. c \in Seq(0 .. MaxTick) /\ Len(c) = n
  BY <1>1, ContentsType
<1>6. /\ Len(app) = n + 1
      /\ app = [i \in 1 .. n + 1 |-> latest - n + i]
  <2>1. /\ Len(app) = n + 1 /\ DOMAIN app = 1 .. n + 1
        /\ app[n + 1] = latest + 1
        /\ \A i \in 1 .. n : app[i] = c[i]
        /\ app \in Seq(0 .. MaxTick)
    BY <1>1, <1>5
  <2> HIDE DEF app
  <2>2. \A i \in 1 .. n + 1 : app[i] = latest - n + i
    <3> SUFFICES ASSUME NEW i \in 1 .. n + 1 PROVE app[i] = latest - n + i
      OBVIOUS
    <3>1. CASE i = n + 1
      BY <1>1, <2>1, <3>1
    <3>2. CASE i \in 1 .. n
      BY <1>2, <2>1, <3>2
    <3> QED BY <1>1, <3>1, <3>2
  <2>3. app = [i \in 1 .. n + 1 |-> app[i]]
    BY <2>1
  <2> QED BY <2>1, <2>2, <2>3
<1> HIDE DEF c, app, n
<1>7. ring'.count = IF latest' < Cap THEN latest' ELSE Cap
  BY <1>1, <1>2, <1>3
<1>8. Contents(ring)' = [i \in 1 .. ring'.count |-> latest' - ring'.count + i]
  <2>1. CASE n < Cap
    <3>1. Newest(app, Cap) = app /\ ring'.count = n + 1
      BY <1>1, <1>3, <1>6, <2>1 DEF Newest
    <3>2. \A i \in 1 .. n + 1 : latest' - (n + 1) + i = latest - n + i
      BY <1>1, <1>3
    <3> QED BY <1>4, <1>6, <3>1, <3>2
  <2>2. CASE n = Cap
    <3>1. ring'.count = Cap
      BY <1>1, <1>3, <2>2
    <3>2. Newest(app, Cap) = [i \in 1 .. Cap |-> app[1 + i]]
      <4>1. Len(app) = Cap + 1 /\ ~(Len(app) <= Cap)
        BY <1>1, <1>6, <2>2
      <4>2. \A i \in 1 .. Cap : Len(app) - Cap + i = 1 + i
        BY <1>1, <4>1
      <4> QED BY <4>1, <4>2, Zenon DEF Newest
    <3>3. \A i \in 1 .. Cap : app[1 + i] = latest' - Cap + i
      BY <1>1, <1>3, <1>6, <2>2
    <3> QED BY <1>4, <3>1, <3>2, <3>3
  <2> QED BY <1>1, <2>1, <2>2
<1> QED BY <1>7, <1>8 DEF RecentIsNewest

(* THEOREM: Recent returns exactly the newest samples, contiguous and oldest *)
(* first, as many as fit, however often the ring wrapped around.             *)
THEOREM RecentCorrect == CollectorSpec => []RecentIsNewest
  BY RecentInit, RecentStep, TypeCorrect, PTL DEF CollectorSpec

-----------------------------------------------------------------------------
(***************************************************************************)
(* Refinement: every step of the collector is one of the lossy broadcast,  *)
(* or leaves log, boxes and open subscribers as they are.                  *)
(***************************************************************************)
LEMMA BroadcastInit == CollectorInit => Feed!Init
  BY CapAssumption DEF CollectorInit, Feed!Init, EmptyRing, Contents

LEMMA BroadcastStep ==
    CollectorTypeOK /\ Registration /\ [CollectorNext]_collectorVars
        => [Feed!Next]_(Feed!vars)
<1> SUFFICES ASSUME CollectorTypeOK, Registration, [CollectorNext]_collectorVars
             PROVE  [Feed!Next]_(Feed!vars)
  OBVIOUS
<1> DEFINE log == Contents(ring)
           box == [id \in SubIds |-> chan[id].buf]
           Same == UNCHANGED <<ring, chan, subs>>
<1>1. CASE Sample
  <2>1. /\ latest + 1 \in Snapshots /\ latest + 1 \in 0 .. MaxTick
        /\ ring \in Rings(0 .. MaxTick)
    BY <1>1, CollectorAssumption DEF Sample, CollectorTypeOK, Snapshots
  <2> PICK m \in Snapshots : m = latest + 1
    BY <2>1
  <2>2. log' = Newest(Append(log, m), Cap)
    BY <1>1, <2>1, PushAppends DEF Sample, Publish
  <2>3. box' = [id \in SubIds |->
                  IF id \in subs /\ Len(box[id]) < SubscriberBuffer
                  THEN Append(box[id], m) ELSE box[id]]
    BY <1>1 DEF Sample, Publish, Offer, CollectorTypeOK, Channels
  <2>4. subs' = subs
    BY <1>1 DEF Sample
  <2>5. Feed!Post(m)
    BY <2>2, <2>3, <2>4 DEF Feed!Post, Feed!Trim, Newest
  <2> QED BY <2>5 DEF Feed!Next
<1>2. ASSUME NEW ids \in SUBSET subs, Unregister(ids), UNCHANGED ring
      PROVE  Feed!Next
  <2>1. box' = box
    BY <1>2 DEF Unregister, CollectorTypeOK, Channels
  <2>2. Feed!Shut(ids)
    BY <1>2, <2>1 DEF Feed!Shut, Unregister
  <2> QED BY <2>2 DEF Feed!Next, CollectorTypeOK
<1>3. CASE Return
  BY <1>2, <1>3 DEF Return
<1>4. CASE Subscribe
  <2>1. nextSub \in SubIds /\ nextSub >= nextSub
    BY <1>4, CollectorAssumption DEF Subscribe, CollectorTypeOK, SubIds
  <2>2. box' = box /\ log' = log
    <3>1. ring' = ring
      BY <1>4 DEF Subscribe
    <3>2. ASSUME NEW id \in SubIds PROVE chan'[id].buf = chan[id].buf
      <4>1. chan[id] \in Channels /\ chan \in [SubIds -> Channels]
        BY DEF CollectorTypeOK
      <4>2. CASE chan' = chan
        BY <4>2
      <4>3. CASE chan' = [chan EXCEPT ![nextSub].closed = TRUE]
        BY <4>1, <4>3 DEF Channels
      <4> QED BY <1>4, <4>2, <4>3 DEF Subscribe
    <3> QED BY <3>1, <3>2
  <2>3. CASE stopped
    <3>1. subs' = subs
      BY <1>4, <2>3 DEF Subscribe
    <3> QED BY <2>2, <3>1 DEF Feed!vars
  <2>4. CASE ~stopped
    <3>1. nextSub \notin subs /\ box[nextSub] = <<>>
      BY <2>1 DEF Registration, Untouched
    <3>2. subs' = subs \cup {nextSub}
      BY <1>4, <2>4 DEF Subscribe
    <3>3. Feed!Join(nextSub)
      BY <2>2, <3>1, <3>2 DEF Feed!Join
    <3> QED BY <2>1, <3>3 DEF Feed!Next
  <2> QED BY <2>3, <2>4
<1>5. ASSUME NEW id \in SubIds, Cancel(id) PROVE Feed!Next
  <2>1. {id} \cap subs \in SUBSET subs
    OBVIOUS
  <2> QED BY <1>2, <1>5, <2>1 DEF Cancel
<1>6. ASSUME NEW id \in SubIds, Receive(id) PROVE Feed!Next
  <2>1. /\ box[id] # <<>>
        /\ box' = [box EXCEPT ![id] = Tail(@)]
    BY <1>6 DEF Receive, CollectorTypeOK, Channels
  <2>2. Feed!Take(id)
    BY <1>6, <2>1 DEF Feed!Take, Receive
  <2> QED BY <2>2 DEF Feed!Next
<1>7. CASE CancelContext \/ UNCHANGED collectorVars
  BY <1>7 DEF CancelContext, collectorVars, Feed!vars
<1> QED BY <1>1, <1>3, <1>4, <1>5, <1>6, <1>7 DEF CollectorNext

(* THEOREM: ring arithmetic, locks and channels implement the abstract lossy *)
(* broadcast: readers get a contiguous newest log and ordered mailboxes, and *)
(* a reader loses a message only when its own mailbox is full.               *)
THEOREM Implements == CollectorSpec => ImplementsBroadcast
  BY BroadcastInit, BroadcastStep, TypeCorrect, RegistrationHolds, PTL
  DEF CollectorSpec, ImplementsBroadcast, Feed!Spec

-----------------------------------------------------------------------------
(***************************************************************************)
(* LiveStream: the collector with the handlers it serves.  First what the  *)
(* collector's own invariants become there: every step of LiveStream is a  *)
(* step of the collector, or leaves it alone.                              *)
(***************************************************************************)

(* Which handler has which channel: none is read by two. *)
OwnChannel ==
    \A k \in Conns :
        /\ sub[k] # NoSub => sub[k] < nextSub
        /\ \A j \in Conns : sub[k] # NoSub /\ sub[j] = sub[k] => j = k

(* Where a handler is, and what it has written by then. *)
Phase(k) ==
    /\ pc[k] \in {"unused", "accepted", "subscribed"} => sent[k] = <<>>
    /\ pc[k] \in {"unused", "accepted"} <=> sub[k] = NoSub
    /\ pc[k] = "write" /\ msg[k].hello => sent[k] = <<>>
    /\ ~msg[k].hello => Len(msg[k].snaps) = 1
    /\ \A i \in 1 .. Len(sent[k]) :
          /\ sent[k][i].hello => i = 1
          /\ ~sent[k][i].hello => Len(sent[k][i].snaps) = 1
Phases == \A k \in Conns : Phase(k)

CollectorInv == CollectorTypeOK /\ Registration /\ InOrder /\ RecentIsNewest
LiveBase == CollectorInv /\ LiveTypeOK /\ OwnChannel /\ Phases

(* The steps by name. *)
LEMMA LiveCases ==
    ASSUME [LiveNext]_vars
    PROVE  \/ CollectorSamples \/ CollectorReturns \/ ServerIsTold
           \/ \E k \in Conns : \/ HandlerSubscribes(k) \/ HandlerReadsRecent(k)
                               \/ HandlerWrites(k) \/ HandlerSkips(k) \/ HandlerReceives(k)
                               \/ HandlerLeaves(k) \/ BrowserConnects(k)
           \/ BrowserReads \/ BrowserLetsGo
           \/ UNCHANGED vars
  BY DEF LiveNext, HandlerStep

(* A handler that may leave holds a channel that was issued. *)
LEMMA HoldsChannel ==
    ASSUME LiveBase, NEW k \in Conns, pc[k] \in {"subscribed", "write", "loop"}
    PROVE  sub[k] \in SubIds /\ sub[k] < nextSub
<1>1. sub[k] # NoSub
  BY DEF LiveBase, Phases, Phase
<1> QED  BY <1>1 DEF LiveBase, LiveTypeOK, OwnChannel

LEMMA CollectorMoves ==
    ASSUME LiveBase, [LiveNext]_vars
    PROVE  [CollectorNext]_collectorVars
<1>1. CASE CollectorSamples \/ CollectorReturns \/ ServerIsTold
  BY <1>1 DEF CollectorSamples, CollectorReturns, ServerIsTold, CollectorNext
<1>2. ASSUME NEW k \in Conns, HandlerSubscribes(k)  PROVE CollectorNext
  BY <1>2 DEF HandlerSubscribes, CollectorNext
<1>3. ASSUME NEW k \in Conns, HandlerReceives(k)  PROVE CollectorNext
  BY <1>3 DEF HandlerReceives, CollectorNext
<1>4. ASSUME NEW k \in Conns, HandlerLeaves(k)  PROVE CollectorNext
  <2>1. sub[k] \in SubIds
    BY <1>4, HoldsChannel DEF HandlerLeaves, MayLeave
  <2> QED  BY <1>4, <2>1 DEF HandlerLeaves, CollectorNext
<1>5. ASSUME NEW k \in Conns, HandlerReadsRecent(k) \/ HandlerWrites(k) \/ HandlerSkips(k) \/ BrowserConnects(k)
      PROVE  UNCHANGED collectorVars
  BY <1>5 DEF HandlerReadsRecent, HandlerWrites, HandlerSkips, BrowserConnects
<1>6. CASE BrowserReads \/ BrowserLetsGo \/ UNCHANGED vars
  BY <1>6 DEF BrowserReads, BrowserLetsGo, vars
<1> QED  BY LiveCases, <1>1, <1>2, <1>3, <1>4, <1>5, <1>6

LEMMA CollectorInvStep ==
    ASSUME CollectorInv, [CollectorNext]_collectorVars
    PROVE  CollectorInv'
  BY TypeStep, RegistrationStep, InOrderStep, RecentStep DEF CollectorInv

(* What a hello carries are snapshots, oldest first up to the latest. *)
LEMMA RecentSnapshots ==
    ASSUME CollectorInv
    PROVE  /\ Contents(ring) \in Seq(Snapshots)
           /\ Contents(ring) = <<>> <=> latest = 0
           /\ Contents(ring) # <<>> => Contents(ring)[Len(Contents(ring))] = latest
<1> DEFINE c == Contents(ring)
           n == ring.count
<1>1. ring \in Rings(0 .. MaxTick) /\ latest \in 0 .. MaxTick /\ MaxTick \in Nat
  BY CollectorAssumption DEF CollectorInv, CollectorTypeOK
<1>2. c \in Seq(0 .. MaxTick) /\ Len(c) = n /\ n \in 0 .. Cap
  BY <1>1, ContentsType DEF Rings
<1>3. /\ n = IF latest < Cap THEN latest ELSE Cap
      /\ c = [i \in 1 .. n |-> latest - n + i]
  BY DEF CollectorInv, RecentIsNewest
<1> HIDE DEF c, n
<1>4. ASSUME NEW i \in 1 .. n  PROVE c[i] \in Snapshots
  <2>1. c[i] = latest - n + i
    BY <1>3
  <2>2. n <= latest /\ n \in Nat /\ latest \in Nat
    BY <1>1, <1>2, <1>3, CapAssumption
  <2>3. latest - n + i \in 1 .. MaxTick
    BY <1>1, <2>2
  <2> QED  BY <2>1, <2>3 DEF Snapshots
<1>5. c \in Seq(Snapshots)
  BY <1>2, <1>4
<1>6. c = <<>> <=> latest = 0
  BY <1>1, <1>2, <1>3, CapAssumption
<1>7. c # <<>> => c[Len(c)] = latest
  BY <1>1, <1>2, <1>3, CapAssumption
<1> QED  BY <1>5, <1>6, <1>7 DEF c

LEMMA MsgTypes ==
    /\ \A seq \in Seq(Snapshots) : Hello(seq) \in Msgs
    /\ \A s \in Snapshots : Snapshot(s) \in Msgs /\ Len(Snapshot(s).snaps) = 1
  BY DEF Hello, Snapshot, Msgs

(* What waits in a channel is a snapshot, and taking it leaves snapshots. *)
LEMMA HeadWaits ==
    ASSUME LiveBase, NEW k \in Conns, HandlerReceives(k)
    PROVE  /\ Head(chan[sub[k]].buf) \in Snapshots
           /\ chan[sub[k]].buf \in Seq(Snapshots)
           /\ chan'[sub[k]].buf = Tail(chan[sub[k]].buf)
           /\ \A id \in SubIds \ {sub[k]} : chan'[id] = chan[id]
<1>1. sub[k] \in SubIds /\ chan[sub[k]].buf # <<>>
      /\ chan' = [chan EXCEPT ![sub[k]].buf = Tail(@)]
  BY DEF HandlerReceives, Receive
<1>2. chan \in [SubIds -> Channels] /\ chan[sub[k]].buf \in Seq(Snapshots)
  BY <1>1 DEF LiveBase, CollectorInv, CollectorTypeOK, Channels
<1> QED  BY <1>1, <1>2 DEF Channels

(* The message a browser reads. *)
LEMMA ReadMessage ==
    ASSUME LiveBase, BrowserReads
    PROVE  /\ cur \in Conns
           /\ got[cur] + 1 \in 1 .. Len(sent[cur])
           /\ sent[cur][got[cur] + 1] \in Msgs
           /\ ~sent[cur][got[cur] + 1].hello =>
                 /\ sent[cur][got[cur] + 1].snaps \in Seq(Snapshots)
                 /\ Len(sent[cur][got[cur] + 1].snaps) = 1
                 /\ sent[cur][got[cur] + 1].snaps[1] \in Snapshots
<1>1. cur \in Conns /\ got[cur] < Len(sent[cur]) /\ got[cur] \in Nat
      /\ sent[cur] \in Seq(Msgs)
  BY DEF LiveBase, LiveTypeOK, BrowserReads
<1>2. got[cur] + 1 \in 1 .. Len(sent[cur])
  BY <1>1
<1>3. sent[cur][got[cur] + 1] \in Msgs
  BY <1>1, <1>2
<1>4. ~sent[cur][got[cur] + 1].hello => Len(sent[cur][got[cur] + 1].snaps) = 1
  BY <1>1, <1>2 DEF LiveBase, Phases, Phase
<1> QED  BY <1>1, <1>2, <1>3, <1>4 DEF Msgs

(* Appending the message a handler holds to what it has sent. *)
LEMMA Written ==
    ASSUME LiveBase, NEW k \in Conns, HandlerWrites(k)
    PROVE  /\ sent' \in [Conns -> Seq(Msgs)]
           /\ Len(sent'[k]) = Len(sent[k]) + 1
           /\ sent'[k][Len(sent[k]) + 1] = msg[k]
           /\ \A i \in 1 .. Len(sent[k]) : sent'[k][i] = sent[k][i]
           /\ \A j \in Conns \ {k} : sent'[j] = sent[j]
           /\ Len(sent[k]) \in Nat
<1>1. sent \in [Conns -> Seq(Msgs)] /\ msg[k] \in Msgs
      /\ sent' = [sent EXCEPT ![k] = Append(@, msg[k])]
  BY DEF LiveBase, LiveTypeOK, HandlerWrites
<1>2. sent'[k] = Append(sent[k], msg[k]) /\ sent[k] \in Seq(Msgs)
  BY <1>1
<1>3. /\ Append(sent[k], msg[k]) \in Seq(Msgs)
      /\ Len(Append(sent[k], msg[k])) = Len(sent[k]) + 1
      /\ Append(sent[k], msg[k])[Len(sent[k]) + 1] = msg[k]
      /\ \A i \in 1 .. Len(sent[k]) : Append(sent[k], msg[k])[i] = sent[k][i]
      /\ Len(sent[k]) \in Nat
  BY <1>1, <1>2
<1> QED  BY <1>1, <1>2, <1>3

LEMMA LiveTypeStep ==
    ASSUME LiveBase, [LiveNext]_vars, CollectorTypeOK'
    PROVE  LiveTypeOK'
<1> USE DEF LiveTypeOK, history
<1>0. LiveTypeOK /\ CollectorInv
  BY DEF LiveBase
<1>1. CASE CollectorSamples
  <2>1. latest' \in Snapshots /\ lost' \in [SubIds -> SUBSET Snapshots]
    <3>1. latest' = latest + 1 /\ latest < MaxTick /\ latest \in 0 .. MaxTick
      BY <1>0, <1>1 DEF CollectorSamples, Sample, Publish, CollectorTypeOK
    <3>2. latest' \in Snapshots
      BY <3>1, CollectorAssumption DEF Snapshots
    <3> QED  BY <1>0, <1>1, <3>2 DEF CollectorSamples
  <2> QED  BY <1>0, <1>1, <2>1 DEF CollectorSamples, handlerVars, browserVars
<1>2. CASE CollectorReturns \/ ServerIsTold
  BY <1>0, <1>2 DEF CollectorReturns, ServerIsTold, handlerVars, browserVars
<1>3. ASSUME NEW k \in Conns, HandlerSubscribes(k)  PROVE LiveTypeOK'
  <2>1. nextSub \in SubIds
    BY <1>0, <1>3, CollectorAssumption DEF HandlerSubscribes, Subscribe, CollectorTypeOK, SubIds
  <2>2. latest \in 0 .. MaxTick
    BY <1>0 DEF CollectorInv, CollectorTypeOK
  <2> QED  BY <1>0, <1>3, <2>1, <2>2 DEF HandlerSubscribes, browserVars
<1>4. ASSUME NEW k \in Conns, HandlerReadsRecent(k)  PROVE LiveTypeOK'
  <2>1. Hello(Contents(ring)) \in Msgs
    BY <1>0, RecentSnapshots, MsgTypes
  <2> QED  BY <1>0, <1>4, <2>1 DEF HandlerReadsRecent, browserVars
<1>5. ASSUME NEW k \in Conns, HandlerWrites(k)  PROVE LiveTypeOK'
  <2>1. ASSUME NEW j \in Conns
        PROVE  got[j] <= Len(sent'[j]) /\ Len(sent'[j]) - got[j] <= WireCap
    <3>1. Len(sent[k]) - got[k] < WireCap /\ got[k] \in Nat /\ got[k] <= Len(sent[k])
      BY <1>0, <1>5 DEF HandlerWrites
    <3>2. CASE j = k
      BY <1>5, <3>1, <3>2, Written, LiveAssumption
    <3>3. CASE j # k
      BY <1>0, <1>5, <3>3, Written
    <3> QED  BY <3>2, <3>3
  <2> QED  BY <1>0, <1>5, <2>1, Written DEF HandlerWrites, browserVars
<1>12. ASSUME NEW k \in Conns, HandlerSkips(k)  PROVE LiveTypeOK'
  BY <1>0, <1>12 DEF HandlerSkips, browserVars
<1>6. ASSUME NEW k \in Conns, HandlerReceives(k)  PROVE LiveTypeOK'
  <2>1. Snapshot(Head(chan[sub[k]].buf)) \in Msgs
    BY <1>6, HeadWaits, MsgTypes
  <2> QED  BY <1>0, <1>6, <2>1 DEF HandlerReceives, browserVars
<1>7. ASSUME NEW k \in Conns, HandlerLeaves(k)  PROVE LiveTypeOK'
  BY <1>0, <1>7 DEF HandlerLeaves, browserVars
<1>8. ASSUME NEW k \in Conns, BrowserConnects(k)  PROVE LiveTypeOK'
  BY <1>0, <1>8 DEF BrowserConnects
<1>9. CASE BrowserReads
  <2>0. cur \in Conns /\ got[cur] + 1 \in 1 .. Len(sent[cur])
    BY <1>9, ReadMessage
  <2>1. view' \in Seq(Snapshots) /\ Len(view') <= ViewCap
    <3> DEFINE m == sent[cur][got[cur] + 1]
    <3>1. m \in Msgs /\ (~m.hello => m.snaps[1] \in Snapshots)
      BY <1>9, ReadMessage
    <3>2. view' = IF m.hello THEN Newest(m.snaps, ViewCap) ELSE PushView(m.snaps[1])
      BY <1>9 DEF BrowserReads
    <3> HIDE DEF m
    <3>3. ViewCap \in Nat /\ view \in Seq(Snapshots)
      BY <1>0, LiveAssumption
    <3>4. CASE m.hello
      <4>1. m.snaps \in Seq(Snapshots)
        BY <3>1 DEF Msgs
      <4>2. Newest(m.snaps, ViewCap) \in Seq(Snapshots) /\ Len(Newest(m.snaps, ViewCap)) \in 0 .. ViewCap
        BY <3>3, <4>1, NewestType
      <4> QED  BY <3>2, <3>3, <3>4, <4>2
    <3>5. CASE ~m.hello
      <4>1. Append(view, m.snaps[1]) \in Seq(Snapshots)
        BY <3>1, <3>3, <3>5
      <4>2. /\ PushView(m.snaps[1]) \in Seq(Snapshots)
            /\ Len(PushView(m.snaps[1])) \in 0 .. ViewCap
        BY <3>3, <4>1, NewestType DEF PushView
      <4> QED  BY <3>2, <3>3, <3>5, <4>2
    <3> QED  BY <3>4, <3>5
  <2>2. /\ got' \in [Conns -> Nat]
        /\ \A k \in Conns : got'[k] <= Len(sent[k]) /\ Len(sent[k]) - got'[k] <= WireCap
    <3>1. got' = [got EXCEPT ![cur] = got[cur] + 1] /\ got \in [Conns -> Nat]
      BY <1>0, <1>9 DEF BrowserReads
    <3>2. ASSUME NEW k \in Conns
          PROVE  got'[k] <= Len(sent[k]) /\ Len(sent[k]) - got'[k] <= WireCap
      <4>1. Len(sent[k]) \in Nat /\ got[k] \in Nat /\ Len(sent[k]) - got[k] <= WireCap
            /\ got[k] <= Len(sent[k]) /\ WireCap \in Nat
        BY <1>0, LiveAssumption
      <4>2. got'[k] = IF k = cur THEN got[k] + 1 ELSE got[k]
        BY <2>0, <3>1
      <4> QED  BY <2>0, <4>1, <4>2
    <3> QED  BY <2>0, <3>1, <3>2
  <2> QED  BY <1>0, <1>9, <2>1, <2>2 DEF BrowserReads, handlerVars
<1>10. CASE BrowserLetsGo
  BY <1>0, <1>10 DEF BrowserLetsGo, handlerVars
<1>11. CASE UNCHANGED vars
  BY <1>0, <1>11 DEF vars, handlerVars, browserVars
<1> QED  BY LiveCases, <1>1, <1>2, <1>3, <1>4, <1>5, <1>6, <1>7, <1>8, <1>9, <1>10, <1>11, <1>12

(* What the step of another leaves as it was for connection j. *)
Same(j) == pc'[j] = pc[j] /\ sub'[j] = sub[j] /\ msg'[j] = msg[j] /\ sent'[j] = sent[j]

LEMMA OthersStay ==
    ASSUME LiveBase, NEW k \in Conns, NEW j \in Conns \ {k},
           \/ HandlerSubscribes(k) \/ HandlerReadsRecent(k) \/ HandlerWrites(k) \/ HandlerSkips(k)
           \/ HandlerReceives(k) \/ HandlerLeaves(k) \/ BrowserConnects(k)
    PROVE  Same(j)
<1>1. LiveTypeOK
  BY DEF LiveBase
<1> QED
  BY <1>1 DEF LiveTypeOK, Same, HandlerSubscribes, HandlerReadsRecent, HandlerWrites, HandlerSkips,
              HandlerReceives, HandlerLeaves, BrowserConnects

LEMMA AllStay ==
    ASSUME \/ CollectorSamples \/ CollectorReturns \/ ServerIsTold
           \/ BrowserReads \/ BrowserLetsGo \/ UNCHANGED vars,
           NEW j \in Conns
    PROVE  Same(j)
  BY DEF Same, CollectorSamples, CollectorReturns, ServerIsTold, BrowserReads,
         BrowserLetsGo, vars, handlerVars

LEMMA PhasesStep ==
    ASSUME LiveBase, [LiveNext]_vars
    PROVE  Phases'
<1>0. LiveTypeOK /\ Phases
  BY DEF LiveBase
<1>1. ASSUME NEW j \in Conns, Same(j)  PROVE Phase(j)'
  <2>1. Phase(j)
    BY <1>0 DEF Phases
  <2> QED  BY <1>1, <2>1 DEF Phase, Same
<1>2. ASSUME NEW k \in Conns,
             \/ HandlerSubscribes(k) \/ HandlerReadsRecent(k) \/ HandlerWrites(k) \/ HandlerSkips(k)
             \/ HandlerReceives(k) \/ HandlerLeaves(k) \/ BrowserConnects(k),
             Phase(k)'
      PROVE  Phases'
  BY <1>1, <1>2, OthersStay DEF Phases
<1>3. ASSUME NEW k \in Conns, HandlerSubscribes(k)  PROVE Phase(k)'
  <2>1. nextSub # NoSub /\ pc[k] = "accepted" /\ Phase(k)
    BY <1>0, <1>3, CollectorAssumption
    DEF HandlerSubscribes, Subscribe, NoSub, Phases, LiveBase, CollectorInv, CollectorTypeOK
  <2>2. pc'[k] = "subscribed" /\ sub'[k] = nextSub /\ msg' = msg /\ sent' = sent
    BY <1>0, <1>3 DEF HandlerSubscribes, LiveTypeOK
  <2> QED  BY <2>1, <2>2 DEF Phase
<1>4. ASSUME NEW k \in Conns, HandlerReadsRecent(k)  PROVE Phase(k)'
  <2>1. pc[k] = "subscribed" /\ Phase(k)
    BY <1>0, <1>4 DEF HandlerReadsRecent, Phases
  <2>2. pc'[k] = "write" /\ sub' = sub /\ msg'[k].hello /\ sent' = sent
    BY <1>0, <1>4 DEF HandlerReadsRecent, LiveTypeOK, Hello
  <2> QED  BY <2>1, <2>2 DEF Phase
<1>5. ASSUME NEW k \in Conns, HandlerWrites(k)  PROVE Phase(k)'
  <2>1. pc[k] = "write" /\ Phase(k) /\ sent[k] \in Seq(Msgs)
    BY <1>0, <1>5 DEF HandlerWrites, Phases, LiveTypeOK
  <2>2. pc'[k] = "loop" /\ sub' = sub /\ msg' = msg
    BY <1>0, <1>5 DEF HandlerWrites, LiveTypeOK
  <2>3. /\ Len(sent'[k]) = Len(sent[k]) + 1
        /\ sent'[k][Len(sent[k]) + 1] = msg[k]
        /\ \A i \in 1 .. Len(sent[k]) : sent'[k][i] = sent[k][i]
        /\ Len(sent[k]) \in Nat
    BY <1>5, Written
  <2>4. ASSUME NEW i \in 1 .. Len(sent'[k])
        PROVE  /\ sent'[k][i].hello => i = 1
               /\ ~sent'[k][i].hello => Len(sent'[k][i].snaps) = 1
    <3>1. CASE i \in 1 .. Len(sent[k])
      BY <2>1, <2>3, <3>1 DEF Phase
    <3>2. CASE i = Len(sent[k]) + 1
      <4>1. sent[k] = <<>> => i = 1
        BY <2>1, <2>3, <3>2
      <4> QED  BY <2>1, <2>3, <3>2, <4>1 DEF Phase
    <3> QED  BY <2>3, <3>1, <3>2
  <2> QED  BY <2>1, <2>2, <2>4 DEF Phase
<1>10. ASSUME NEW k \in Conns, HandlerSkips(k)  PROVE Phase(k)'
  <2>1. pc[k] = "write" /\ Phase(k)
    BY <1>0, <1>10 DEF HandlerSkips, Phases
  <2>2. pc'[k] = "loop" /\ sub' = sub /\ msg' = msg /\ sent' = sent
    BY <1>0, <1>10 DEF HandlerSkips, LiveTypeOK
  <2> QED  BY <2>1, <2>2 DEF Phase
<1>6. ASSUME NEW k \in Conns, HandlerReceives(k)  PROVE Phase(k)'
  <2>1. pc[k] = "loop" /\ Phase(k)
    BY <1>0, <1>6 DEF HandlerReceives, Phases
  <2>2. /\ pc'[k] = "write" /\ sub' = sub /\ sent' = sent
        /\ ~msg'[k].hello /\ Len(msg'[k].snaps) = 1
    BY <1>0, <1>6 DEF HandlerReceives, LiveTypeOK, Snapshot
  <2> QED  BY <2>1, <2>2 DEF Phase
<1>7. ASSUME NEW k \in Conns, HandlerLeaves(k)  PROVE Phase(k)'
  <2>1. pc[k] \in {"write", "loop"} /\ Phase(k)
    BY <1>0, <1>7 DEF HandlerLeaves, MayLeave, Phases
  <2>2. pc'[k] = "done" /\ sub' = sub /\ msg' = msg /\ sent' = sent
    BY <1>0, <1>7 DEF HandlerLeaves, LiveTypeOK
  <2> QED  BY <2>1, <2>2 DEF Phase
<1>8. ASSUME NEW k \in Conns, BrowserConnects(k)  PROVE Phase(k)'
  <2>1. pc[k] = "unused" /\ Phase(k)
    BY <1>0, <1>8 DEF BrowserConnects, Phases
  <2>2. pc'[k] = "accepted" /\ sub' = sub /\ msg' = msg /\ sent' = sent
    BY <1>0, <1>8 DEF BrowserConnects, LiveTypeOK
  <2> QED  BY <2>1, <2>2 DEF Phase
<1>9. CASE \/ CollectorSamples \/ CollectorReturns \/ ServerIsTold
           \/ BrowserReads \/ BrowserLetsGo \/ UNCHANGED vars
  BY <1>1, <1>9, AllStay DEF Phases
<1> QED  BY LiveCases, <1>2, <1>3, <1>4, <1>5, <1>6, <1>7, <1>8, <1>9, <1>10

LEMMA OwnChannelStep ==
    ASSUME LiveBase, [LiveNext]_vars
    PROVE  OwnChannel'
<1>0. LiveTypeOK /\ OwnChannel /\ nextSub \in Nat /\ nextSub <= MaxSubs /\ MaxSubs \in Nat
  BY CollectorAssumption DEF LiveBase, CollectorInv, CollectorTypeOK
<1>1. ASSUME UNCHANGED <<sub, nextSub>>  PROVE OwnChannel'
  BY <1>0, <1>1 DEF OwnChannel
<1>2. ASSUME NEW k \in Conns, HandlerSubscribes(k)  PROVE OwnChannel'
  <2>1. /\ nextSub' = nextSub + 1
        /\ \A j \in Conns : sub'[j] = IF j = k THEN nextSub ELSE sub[j]
    BY <1>0, <1>2 DEF HandlerSubscribes, Subscribe, LiveTypeOK
  <2>2. \A j \in Conns : sub[j] # NoSub => sub[j] < nextSub /\ sub[j] \in Nat
    BY <1>0 DEF OwnChannel, LiveTypeOK, SubIds
  <2>3. ASSUME NEW j \in Conns, sub'[j] # NoSub  PROVE sub'[j] < nextSub'
    BY <1>0, <2>1, <2>2, <2>3
  <2>4. ASSUME NEW i \in Conns, NEW j \in Conns, sub'[i] # NoSub, sub'[j] = sub'[i]
        PROVE  j = i
    <3>1. CASE i = k /\ j # k
      BY <1>0, <2>1, <2>2, <2>4, <3>1
    <3>2. CASE j = k /\ i # k
      BY <1>0, <2>1, <2>2, <2>4, <3>2
    <3>3. CASE j # k /\ i # k
      BY <1>0, <2>1, <2>4, <3>3 DEF OwnChannel
    <3> QED  BY <3>1, <3>2, <3>3
  <2> QED  BY <2>3, <2>4 DEF OwnChannel, NoSub
<1>3. CASE CollectorSamples \/ CollectorReturns \/ ServerIsTold
  BY <1>1, <1>3 DEF CollectorSamples, CollectorReturns, ServerIsTold, Sample, Return,
                    CancelContext, handlerVars
<1>4. ASSUME NEW k \in Conns, HandlerReadsRecent(k) \/ HandlerWrites(k) \/ HandlerSkips(k) \/ BrowserConnects(k)
      PROVE  OwnChannel'
  BY <1>1, <1>4 DEF HandlerReadsRecent, HandlerWrites, HandlerSkips, BrowserConnects, collectorVars
<1>5. ASSUME NEW k \in Conns, HandlerReceives(k) \/ HandlerLeaves(k)  PROVE OwnChannel'
  BY <1>1, <1>5 DEF HandlerReceives, HandlerLeaves, Receive, Cancel
<1>6. CASE BrowserReads \/ BrowserLetsGo \/ UNCHANGED vars
  BY <1>1, <1>6 DEF BrowserReads, BrowserLetsGo, vars, collectorVars, handlerVars
<1> QED  BY LiveCases, <1>2, <1>3, <1>4, <1>5, <1>6

LEMMA LiveBaseInit == LiveInit => LiveBase
<1> SUFFICES ASSUME LiveInit  PROVE LiveBase
  OBVIOUS
<1>1. CollectorInv
  BY TypeInit, RegistrationInit, InOrderInit, RecentInit DEF LiveInit, CollectorInv
<1>2. /\ pc = [k \in Conns |-> "unused"] /\ sub = [k \in Conns |-> NoSub]
      /\ msg = [k \in Conns |-> NoMsg] /\ sent = [k \in Conns |-> <<>>]
      /\ got = [k \in Conns |-> 0] /\ alive = [k \in Conns |-> FALSE]
      /\ cur = 0 /\ view = <<>> /\ lost = [id \in SubIds |-> {}]
      /\ from = [k \in Conns |-> 0]
  BY DEF LiveInit
<1>3. NoMsg \in Msgs /\ NoMsg.hello /\ <<>> \in Seq(Msgs) /\ <<>> \in Seq(Snapshots)
      /\ Len(<<>>) = 0 /\ WireCap \in Nat /\ ViewCap \in Nat
  <2>1. <<>> \in Seq(Msgs) /\ <<>> \in Seq(Snapshots) /\ Len(<<>>) = 0
    OBVIOUS
  <2>2. NoMsg \in Msgs /\ NoMsg.hello
    BY <2>1, MsgTypes DEF NoMsg, Hello
  <2> QED  BY <2>1, <2>2, LiveAssumption
<1>8. 0 \in 0 .. MaxTick
  BY CollectorAssumption
<1>4. CollectorTypeOK
  BY <1>1 DEF CollectorInv
<1>5. LiveTypeOK
  BY <1>2, <1>3, <1>4, <1>8 DEF LiveTypeOK
<1>6. OwnChannel
  BY <1>2 DEF OwnChannel
<1>7. Phases
  BY <1>2, <1>3 DEF Phases, Phase
<1> QED  BY <1>1, <1>5, <1>6, <1>7 DEF LiveBase

LEMMA LiveBaseStep ==
    ASSUME LiveBase, [LiveNext]_vars
    PROVE  LiveBase'
<1>1. CollectorInv'
  BY CollectorMoves, CollectorInvStep DEF LiveBase
<1>2. CollectorTypeOK'
  BY <1>1 DEF CollectorInv
<1> QED  BY <1>1, <1>2, LiveTypeStep, PhasesStep, OwnChannelStep DEF LiveBase

LEMMA LiveBaseHolds == LiveSpec => []LiveBase
<1>1. LiveBase /\ [LiveNext]_vars => LiveBase'
  BY LiveBaseStep
<1> QED  BY <1>1, LiveBaseInit, PTL DEF LiveSpec

(* What a step does to the channel of connection j that neither publishes   *)
(* nor takes from it: the buffer stays, and no id of j is registered anew.  *)
LEMMA ChannelStays ==
    ASSUME LiveBase, [LiveNext]_vars, NEW j \in Conns, sub[j] # NoSub,
           ~CollectorSamples, ~HandlerReceives(j)
    PROVE  /\ chan'[sub[j]].buf = chan[sub[j]].buf
           /\ sub[j] \in subs' => sub[j] \in subs
           /\ latest' = latest /\ lost' = lost
<1> USE DEF history
<1>0. /\ chan \in [SubIds -> Channels] /\ nextSub \in Nat
      /\ sub[j] \in SubIds /\ sub[j] < nextSub /\ sub[j] \in Nat
  BY CollectorAssumption
  DEF LiveBase, CollectorInv, CollectorTypeOK, LiveTypeOK, OwnChannel, SubIds
<1>1. ASSUME NEW ids, Unregister(ids)
      PROVE  chan'[sub[j]].buf = chan[sub[j]].buf /\ (sub[j] \in subs' => sub[j] \in subs)
  BY <1>0, <1>1 DEF Unregister, Channels
<1>2. CASE CollectorReturns
  BY <1>1, <1>2 DEF CollectorReturns, Return
<1>3. CASE ServerIsTold
  BY <1>3 DEF ServerIsTold, CancelContext
<1>4. ASSUME NEW k \in Conns, HandlerSubscribes(k)
      PROVE  /\ chan'[sub[j]].buf = chan[sub[j]].buf
             /\ sub[j] \in subs' => sub[j] \in subs
             /\ latest' = latest /\ lost' = lost
  <2>1. chan' = chan \/ chan' = [chan EXCEPT ![nextSub].closed = TRUE]
    BY <1>4 DEF HandlerSubscribes, Subscribe
  <2>2. subs' = subs \/ subs' = subs \cup {nextSub}
    BY <1>4 DEF HandlerSubscribes, Subscribe
  <2>3. chan'[sub[j]].buf = chan[sub[j]].buf
    BY <1>0, <2>1 DEF Channels
  <2>4. sub[j] # nextSub
    BY <1>0
  <2> QED  BY <1>4, <2>2, <2>3, <2>4 DEF HandlerSubscribes, Subscribe
<1>5. ASSUME NEW k \in Conns, HandlerReadsRecent(k) \/ HandlerWrites(k) \/ HandlerSkips(k) \/ BrowserConnects(k)
      PROVE  UNCHANGED <<chan, subs, latest, lost>>
  BY <1>5 DEF HandlerReadsRecent, HandlerWrites, HandlerSkips, BrowserConnects, collectorVars
<1>6. ASSUME NEW k \in Conns, HandlerReceives(k)
      PROVE  /\ chan'[sub[j]].buf = chan[sub[j]].buf
             /\ UNCHANGED <<subs, latest, lost>>
  <2>1. k # j
    BY <1>6
  <2>2. sub[k] # sub[j]
    BY <2>1 DEF LiveBase, OwnChannel
  <2> QED  BY <1>0, <1>6, <2>2, HeadWaits DEF HandlerReceives, Receive
<1>7. ASSUME NEW k \in Conns, HandlerLeaves(k)
      PROVE  /\ chan'[sub[j]].buf = chan[sub[j]].buf
             /\ sub[j] \in subs' => sub[j] \in subs
             /\ latest' = latest /\ lost' = lost
  BY <1>1, <1>7 DEF HandlerLeaves, Cancel
<1>8. CASE BrowserReads \/ BrowserLetsGo \/ UNCHANGED vars
  BY <1>8 DEF BrowserReads, BrowserLetsGo, vars, collectorVars
<1> QED  BY LiveCases, <1>2, <1>3, <1>4, <1>5, <1>6, <1>7, <1>8

(* What a publication does to a channel: it is appended, or lost to a full  *)
(* one; a channel that is not registered is left alone.                     *)
LEMMA ChannelGrows ==
    ASSUME LiveBase, CollectorSamples, NEW id \in SubIds
    PROVE  /\ latest \in Nat /\ latest' = latest + 1
           /\ chan[id].buf \in Seq(Snapshots)
           /\ subs' = subs
           /\ \/ chan'[id].buf = Append(chan[id].buf, latest + 1) /\ lost'[id] = lost[id]
              \/ chan'[id].buf = chan[id].buf /\ lost'[id] = lost[id] /\ id \notin subs
              \/ chan'[id].buf = chan[id].buf /\ lost'[id] = lost[id] \cup {latest + 1}
<1>1. chan[id] \in Channels /\ latest \in Nat /\ chan[id].buf \in Seq(Snapshots)
      /\ Len(chan[id].buf) \in Nat
  BY CollectorAssumption DEF LiveBase, CollectorInv, CollectorTypeOK, Channels
<1>2. /\ latest' = latest + 1 /\ subs' = subs
      /\ chan'[id] = IF id \in subs THEN Offer(chan[id], latest + 1) ELSE chan[id]
      /\ lost'[id] = IF id \in subs /\ Len(chan[id].buf) >= SubscriberBuffer
                     THEN lost[id] \cup {latest + 1} ELSE lost[id]
  BY DEF CollectorSamples, Sample, Publish
<1>3. CASE id \in subs /\ Len(chan[id].buf) < SubscriberBuffer
  <2>1. chan'[id].buf = Append(chan[id].buf, latest + 1)
    BY <1>1, <1>2, <1>3 DEF Offer, Channels
  <2> QED  BY <1>1, <1>2, <1>3, <2>1, CollectorAssumption
<1>4. CASE id \in subs /\ ~(Len(chan[id].buf) < SubscriberBuffer)
  BY <1>1, <1>2, <1>4, CollectorAssumption DEF Offer
<1>5. CASE id \notin subs
  BY <1>1, <1>2, <1>5
<1> QED  BY <1>1, <1>2, <1>3, <1>4, <1>5

-----------------------------------------------------------------------------
(***************************************************************************)
(* Order along a whole stream.  What was written is older than what is     *)
(* being written, and that than what waits in the channel, all of it no    *)
(* newer than the latest sample.                                           *)
(***************************************************************************)
Buf(k) == chan[sub[k]].buf
Writing(k) == pc[k] = "write" /\ ~msg[k].hello
Reading(k) == pc[k] \in {"write", "loop"}

Ordered(k) ==
    /\ \A i, j \in Events(k) : i < j => sent[k][i].snaps[1] < sent[k][j].snaps[1]
    /\ \A i \in Events(k) :
          /\ sent[k][i].snaps[1] <= latest
          /\ Writing(k) => sent[k][i].snaps[1] < msg[k].snaps[1]
          /\ Reading(k) => \A n \in 1 .. Len(Buf(k)) : sent[k][i].snaps[1] < Buf(k)[n]
    /\ Writing(k) => /\ msg[k].snaps[1] <= latest
                     /\ \A n \in 1 .. Len(Buf(k)) : msg[k].snaps[1] < Buf(k)[n]
AllOrdered == \A k \in Conns : Ordered(k)

(* The parts of a stream are snapshots, so numbers. *)
LEMMA FlowTypes ==
    ASSUME LiveBase, NEW k \in Conns
    PROVE  /\ latest \in Nat /\ Len(sent[k]) \in Nat
           /\ \A i \in Events(k) :
                 sent[k][i].snaps[1] \in Nat /\ sent[k][i].snaps[1] \in Snapshots
           /\ ~msg[k].hello => msg[k].snaps[1] \in Nat /\ msg[k].snaps[1] \in Snapshots
           /\ Writing(k) => ~msg[k].hello
           /\ sub[k] # NoSub => /\ Buf(k) \in Seq(Snapshots) /\ Len(Buf(k)) \in Nat
                                /\ \A n \in 1 .. Len(Buf(k)) : Buf(k)[n] \in Nat
                                /\ \A n \in 1 .. Len(Buf(k)) : Buf(k)[n] <= latest
                                /\ \A i, j \in 1 .. Len(Buf(k)) :
                                      i < j => Buf(k)[i] < Buf(k)[j]
<1>0. /\ latest \in Nat /\ sent[k] \in Seq(Msgs) /\ msg[k] \in Msgs
      /\ Phase(k) /\ InOrder /\ sub[k] \in SubIds \cup {NoSub}
      /\ Snapshots \subseteq Nat
      /\ chan \in [SubIds -> Channels]
  BY CollectorAssumption
  DEF LiveBase, LiveTypeOK, CollectorInv, CollectorTypeOK, Phases, Snapshots
<1>1. ASSUME NEW i \in Events(k)
      PROVE  sent[k][i].snaps[1] \in Snapshots
  <2>1. i \in 1 .. Len(sent[k]) /\ ~sent[k][i].hello
    BY <1>1 DEF Events
  <2>2. sent[k][i] \in Msgs /\ Len(sent[k][i].snaps) = 1
    BY <1>0, <2>1 DEF Phase
  <2> QED  BY <2>2 DEF Msgs
<1>2. ~msg[k].hello => msg[k].snaps[1] \in Snapshots
  BY <1>0 DEF Phase, Msgs
<1>3. Writing(k) => ~msg[k].hello
  BY DEF Writing
<1>4. ASSUME sub[k] # NoSub
      PROVE  /\ Buf(k) \in Seq(Snapshots) /\ Len(Buf(k)) \in Nat
             /\ \A n \in 1 .. Len(Buf(k)) : Buf(k)[n] \in Nat
             /\ \A n \in 1 .. Len(Buf(k)) : Buf(k)[n] <= latest
             /\ \A i, j \in 1 .. Len(Buf(k)) : i < j => Buf(k)[i] < Buf(k)[j]
  <2>1. sub[k] \in SubIds
    BY <1>0, <1>4
  <2>2. Buf(k) \in Seq(Snapshots) /\ Len(Buf(k)) \in Nat
    BY <1>0, <2>1 DEF Buf, Channels
  <2>3. \A n \in 1 .. Len(Buf(k)) : Buf(k)[n] \in Snapshots
    BY <2>2
  <2> QED  BY <1>0, <2>1, <2>2, <2>3 DEF InOrder, Buf
<1>5. Len(sent[k]) \in Nat /\ latest \in Nat
  BY <1>0
<1>6. /\ \A i \in Events(k) : sent[k][i].snaps[1] \in Nat
      /\ ~msg[k].hello => msg[k].snaps[1] \in Nat
  BY <1>1, <1>2, CollectorAssumption DEF Snapshots
<1> QED  BY <1>1, <1>2, <1>3, <1>4, <1>5, <1>6

(* A step that leaves a stream alone keeps it in order. *)
LEMMA OrderedFrame ==
    ASSUME NEW k \in Conns, Ordered(k), sent'[k] = sent[k], latest' = latest,
           Writing(k)' => Writing(k) /\ msg'[k] = msg[k],
           Reading(k)' => Reading(k) /\ Buf(k)' = Buf(k)
    PROVE  Ordered(k)'
<1>1. (Writing(k)' => Reading(k)') /\ Events(k)' = Events(k)
  BY DEF Writing, Reading, Events
<1> QED  BY <1>1 DEF Ordered

LEMMA OrderedSample ==
    ASSUME LiveBase, NEW k \in Conns, Ordered(k), CollectorSamples
    PROVE  Ordered(k)'
<1>1. /\ latest \in Nat /\ latest' = latest + 1
      /\ sent' = sent /\ msg' = msg /\ pc' = pc /\ sub' = sub
      /\ Writing(k)' = Writing(k) /\ Reading(k)' = Reading(k) /\ Events(k)' = Events(k)
  BY FlowTypes
  DEF CollectorSamples, Sample, Publish, handlerVars, Writing, Reading, Events
<1>2. ASSUME Reading(k)
      PROVE  \A n \in 1 .. Len(Buf(k)') :
                \/ n \in 1 .. Len(Buf(k)) /\ Buf(k)'[n] = Buf(k)[n]
                \/ Buf(k)'[n] = latest + 1
  <2>1. sub[k] \in SubIds /\ sub[k] # NoSub
    BY <1>2, HoldsChannel DEF Reading, LiveBase, Phases, Phase
  <2>2. Buf(k) \in Seq(Snapshots) /\ (Buf(k)' = Buf(k) \/ Buf(k)' = Append(Buf(k), latest + 1))
    BY <1>1, <2>1, ChannelGrows DEF Buf
  <2>3. \A n \in 1 .. Len(Append(Buf(k), latest + 1)) :
           \/ n \in 1 .. Len(Buf(k)) /\ Append(Buf(k), latest + 1)[n] = Buf(k)[n]
           \/ Append(Buf(k), latest + 1)[n] = latest + 1
    BY <2>2
  <2> QED  BY <2>2, <2>3
<1>3. Writing(k) => Reading(k)
  BY DEF Writing, Reading
<1>4. /\ \A i \in Events(k) : sent[k][i].snaps[1] \in Nat
      /\ Writing(k) => msg[k].snaps[1] \in Nat
  BY FlowTypes
<1>5. Writing(k) => /\ msg[k].snaps[1] <= latest'
                    /\ \A n \in 1 .. Len(Buf(k)') : msg[k].snaps[1] < Buf(k)'[n]
  BY <1>1, <1>2, <1>3, <1>4 DEF Ordered
<1>6. ASSUME NEW i \in Events(k)
      PROVE  /\ sent[k][i].snaps[1] <= latest'
             /\ Writing(k) => sent[k][i].snaps[1] < msg[k].snaps[1]
             /\ Reading(k) => \A n \in 1 .. Len(Buf(k)') : sent[k][i].snaps[1] < Buf(k)'[n]
  BY <1>1, <1>2, <1>4 DEF Ordered
<1> QED  BY <1>1, <1>5, <1>6 DEF Ordered

(* The message a handler wrote goes to the end of the stream. *)
LEMMA OrderedWrite ==
    ASSUME LiveBase, NEW k \in Conns, Ordered(k), HandlerWrites(k)
    PROVE  Ordered(k)'
<1> DEFINE n == Len(sent[k])
<1>1. /\ Len(sent'[k]) = n + 1 /\ sent'[k][n + 1] = msg[k]
      /\ \A i \in 1 .. n : sent'[k][i] = sent[k][i]
      /\ n \in Nat
  BY Written
<1>2. /\ pc[k] = "write" /\ pc'[k] = "loop" /\ latest' = latest /\ Buf(k)' = Buf(k)
      /\ msg' = msg
  BY DEF HandlerWrites, LiveBase, LiveTypeOK, collectorVars, Buf
<1>3. ~Writing(k)' /\ Reading(k) /\ (Writing(k) <=> ~msg[k].hello)
  BY <1>2 DEF Writing, Reading
<1>4. /\ \A i \in Events(k)' : i \in Events(k) \/ (i = n + 1 /\ Writing(k))
      /\ Events(k) \subseteq 1 .. n
  BY <1>1, <1>3 DEF Events
<1>5. ASSUME NEW i \in Events(k)'
      PROVE  /\ sent'[k][i].snaps[1] <= latest
             /\ \A b \in 1 .. Len(Buf(k)) : sent'[k][i].snaps[1] < Buf(k)[b]
             /\ \A j \in Events(k)' :
                   i < j => sent'[k][i].snaps[1] < sent'[k][j].snaps[1]
  <2>1. CASE i \in Events(k)
    <3>1. sent'[k][i] = sent[k][i] /\ i < n + 1
      BY <1>1, <1>4, <2>1
    <3>2. ASSUME NEW j \in Events(k)', i < j
          PROVE  sent[k][i].snaps[1] < sent'[k][j].snaps[1]
      <4>1. CASE j \in Events(k)
        BY <1>1, <1>4, <2>1, <3>2, <4>1 DEF Ordered
      <4>2. CASE j = n + 1 /\ Writing(k)
        BY <1>1, <2>1, <4>2 DEF Ordered
      <4> QED  BY <1>4, <4>1, <4>2
    <3> QED  BY <1>3, <2>1, <3>1, <3>2 DEF Ordered
  <2>2. CASE i = n + 1 /\ Writing(k)
    <3>1. \A j \in Events(k)' : ~(i < j)
      BY <1>1, <1>4, <2>2
    <3> QED  BY <1>1, <2>2, <3>1 DEF Ordered
  <2> QED  BY <1>4, <2>1, <2>2
<1> QED  BY <1>2, <1>3, <1>5 DEF Ordered

(* The oldest waiting snapshot becomes the message being written. *)
LEMMA OrderedReceive ==
    ASSUME LiveBase, NEW k \in Conns, Ordered(k), HandlerReceives(k)
    PROVE  Ordered(k)'
<1>1. /\ pc[k] = "loop" /\ pc'[k] = "write" /\ sub' = sub /\ sent' = sent
      /\ latest' = latest /\ Buf(k) # <<>> /\ sub[k] # NoSub
      /\ msg'[k].snaps[1] = Head(Buf(k))
  BY DEF HandlerReceives, Receive, LiveBase, LiveTypeOK, Buf, Snapshot, Phases, Phase
<1>2. Buf(k)' = Tail(Buf(k)) /\ Buf(k) \in Seq(Snapshots)
  BY <1>1, HeadWaits DEF Buf
<1>3. /\ Len(Buf(k)') = Len(Buf(k)) - 1 /\ Len(Buf(k)) \in Nat /\ Len(Buf(k)) >= 1
      /\ Head(Buf(k)) = Buf(k)[1]
      /\ \A n \in 1 .. Len(Buf(k)') : Buf(k)'[n] = Buf(k)[n + 1]
  BY <1>1, <1>2
<1>4. /\ \A i, j \in 1 .. Len(Buf(k)) : i < j => Buf(k)[i] < Buf(k)[j]
      /\ \A i \in 1 .. Len(Buf(k)) : Buf(k)[i] <= latest
  BY <1>1, FlowTypes
<1>5. Reading(k) /\ sent'[k] = sent[k] /\ Events(k)' = Events(k)
  BY <1>1 DEF Reading, Events
<1>6. \A i \in Events(k) : \A n \in 1 .. Len(Buf(k)) : sent[k][i].snaps[1] < Buf(k)[n]
  BY <1>5 DEF Ordered
<1>7. msg'[k].snaps[1] = Buf(k)[1] /\ 1 \in 1 .. Len(Buf(k))
  BY <1>1, <1>3
<1>8. \A n \in 1 .. Len(Buf(k)') : n + 1 \in 1 .. Len(Buf(k)) /\ 1 < n + 1
  BY <1>3
<1>9. /\ msg'[k].snaps[1] <= latest'
      /\ \A n \in 1 .. Len(Buf(k)') : msg'[k].snaps[1] < Buf(k)'[n]
  BY <1>1, <1>3, <1>4, <1>7, <1>8
<1>10. \A i \in Events(k)' :
          /\ sent'[k][i].snaps[1] <= latest'
          /\ sent'[k][i].snaps[1] < msg'[k].snaps[1]
          /\ \A n \in 1 .. Len(Buf(k)') : sent'[k][i].snaps[1] < Buf(k)'[n]
  BY <1>1, <1>3, <1>5, <1>6, <1>7, <1>8 DEF Ordered
<1> QED  BY <1>5, <1>9, <1>10 DEF Ordered

LEMMA OrderedStep ==
    ASSUME LiveBase, AllOrdered, [LiveNext]_vars
    PROVE  AllOrdered'
<1> SUFFICES ASSUME NEW k \in Conns, Ordered(k)  PROVE Ordered(k)'
  BY DEF AllOrdered
<1>0. LiveTypeOK
  BY DEF LiveBase
<1>1. CASE CollectorSamples
  BY <1>1, OrderedSample
<1>2. CASE HandlerWrites(k)
  BY <1>2, OrderedWrite
<1>3. CASE HandlerReceives(k)
  BY <1>3, OrderedReceive
<1>4. ASSUME ~CollectorSamples, ~HandlerReceives(k), latest' = latest,
             sub'[k] = sub[k], sent'[k] = sent[k],
             Writing(k)' => Writing(k) /\ msg'[k] = msg[k], Reading(k)' => Reading(k)
      PROVE  Ordered(k)'
  <2>1. Reading(k)' => Buf(k)' = Buf(k)
    <3> SUFFICES ASSUME Reading(k)  PROVE Buf(k)' = Buf(k)
      BY <1>4
    <3>1. sub[k] # NoSub
      BY DEF Reading, LiveBase, Phases, Phase
    <3> QED  BY <1>4, <3>1, ChannelStays DEF Buf
  <2> QED  BY <1>4, <2>1, OrderedFrame
<1>5. ASSUME Same(k), ~CollectorSamples, ~HandlerReceives(k), latest' = latest
      PROVE  Ordered(k)'
  <2>1. (Writing(k)' => Writing(k)) /\ (Reading(k)' => Reading(k))
    BY <1>5 DEF Same, Writing, Reading
  <2> QED  BY <1>4, <1>5, <2>1 DEF Same
<1>6. ~CollectorSamples => latest' = latest
  BY LiveCases
  DEF CollectorReturns, Return, ServerIsTold, CancelContext, HandlerSubscribes, Subscribe,
      HandlerReadsRecent, HandlerWrites, HandlerSkips, HandlerReceives, Receive, HandlerLeaves, Cancel,
      BrowserConnects, BrowserReads, BrowserLetsGo, vars, collectorVars
<1>11. ASSUME ~CollectorSamples, ~HandlerReceives(k), HandlerSkips(k)
       PROVE  Ordered(k)'
  <2>1. /\ pc[k] = "write" /\ pc'[k] = "loop" /\ sub'[k] = sub[k]
        /\ sent'[k] = sent[k]
    BY <1>0, <1>11 DEF HandlerSkips, LiveTypeOK
  <2>2. ~Writing(k)' /\ Reading(k)
    BY <2>1 DEF Writing, Reading
  <2> QED  BY <1>4, <1>6, <1>11, <2>1, <2>2
<1>7. ASSUME ~CollectorSamples, ~HandlerReceives(k),
             HandlerSubscribes(k) \/ HandlerLeaves(k) \/ BrowserConnects(k)
      PROVE  Ordered(k)'
  <2>1. ~Reading(k)' /\ ~Writing(k)' /\ sent' = sent
    BY <1>0, <1>7
    DEF HandlerSubscribes, HandlerLeaves, BrowserConnects, Reading, Writing, LiveTypeOK
  <2> QED  BY <1>6, <1>7, <2>1, OrderedFrame
<1>8. ASSUME ~CollectorSamples, HandlerReadsRecent(k)  PROVE Ordered(k)'
  <2>1. sent'[k] = <<>> /\ ~Writing(k)'
    BY <1>0, <1>8
    DEF HandlerReadsRecent, LiveBase, LiveTypeOK, Phases, Phase, Writing, Hello
  <2>2. Events(k)' = {}
    BY <2>1 DEF Events
  <2> QED  BY <2>1, <2>2 DEF Ordered
<1>9. ASSUME ~CollectorSamples, ~HandlerReceives(k), NEW j \in Conns \ {k},
             \/ HandlerSubscribes(j) \/ HandlerReadsRecent(j) \/ HandlerWrites(j) \/ HandlerSkips(j)
             \/ HandlerReceives(j) \/ HandlerLeaves(j) \/ BrowserConnects(j)
      PROVE  Ordered(k)'
  BY <1>5, <1>6, <1>9, OthersStay
<1>10. ASSUME ~CollectorSamples, ~HandlerReceives(k),
              \/ CollectorReturns \/ ServerIsTold \/ BrowserReads \/ BrowserLetsGo
              \/ UNCHANGED vars
       PROVE  Ordered(k)'
  BY <1>5, <1>6, <1>10, AllStay
<1> QED  BY LiveCases, <1>1, <1>2, <1>3, <1>7, <1>8, <1>9, <1>10, <1>11

(* THEOREM: the snapshots of a stream never go back in time or repeat,       *)
(* for any number of connections, handlers that linger among them, and any   *)
(* capacity of channels and connections (handleLive).                        *)
THEOREM StreamsAscend == LiveSpec => []SnapshotsAscend
<1>1. LiveInit => AllOrdered
  BY DEF LiveInit, AllOrdered, Ordered, Writing, Events
<1>2. LiveBase /\ AllOrdered /\ [LiveNext]_vars => AllOrdered'
  BY OrderedStep
<1>3. AllOrdered => SnapshotsAscend
  BY DEF AllOrdered, Ordered, SnapshotsAscend
<1> QED  BY <1>1, <1>2, <1>3, LiveBaseHolds, PTL DEF LiveSpec

-----------------------------------------------------------------------------
(***************************************************************************)
(* The hand-over from the ring to the channel.  From the subscription on,  *)
(* what was published since was written, is being written, waits, was lost *)
(* or is unfit; and the copy of the ring, made after it, reaches it.       *)
(***************************************************************************)
LastOf(seq) == seq[Len(seq)]
Attached(k) == pc[k] \in {"subscribed", "write", "loop"}
Held(k) == IF Writing(k) THEN {msg[k].snaps[1]} ELSE {}
Waiting(k) == {Buf(k)[i] : i \in 1 .. Len(Buf(k))}
Account(k) == Followed(k) \cup Held(k) \cup Waiting(k) \cup lost[sub[k]] \cup Unfit

Accounted(k) == Attached(k) /\ sub[k] \in subs => from[k] + 1 .. latest \subseteq Account(k)

Reaches(k, m) == from[k] # 0 => m.snaps # <<>> /\ LastOf(m.snaps) >= from[k]
HelloReaches(k) ==
    /\ from[k] <= latest
    /\ pc[k] = "write" /\ msg[k].hello => Reaches(k, msg[k])
    /\ sent[k] # <<>> /\ sent[k][1].hello => Reaches(k, sent[k][1])
HandedOver == \A k \in Conns : Accounted(k) /\ HelloReaches(k)

(* The latest sample is only replaced by a later one. *)
LEMMA NeverFalls ==
    ASSUME LiveBase, [LiveNext]_vars
    PROVE  latest \in Nat /\ latest' \in Nat /\ latest <= latest'
<1>1. latest \in Nat
  BY CollectorAssumption DEF LiveBase, CollectorInv, CollectorTypeOK
<1>2. latest' = latest \/ latest' = latest + 1
  <2>1. [CollectorNext]_collectorVars
    BY CollectorMoves
  <2> QED  BY <2>1, OnlySampleWrites DEF Sample, Publish
<1> QED  BY <1>1, <1>2

LEMMA AccountedSample ==
    ASSUME LiveBase, NEW k \in Conns, Accounted(k), CollectorSamples
    PROVE  Accounted(k)'
<1>1. /\ sent' = sent /\ msg' = msg /\ pc' = pc /\ sub' = sub /\ from' = from
      /\ subs' = subs /\ latest' = latest + 1 /\ latest \in Nat /\ from[k] \in Nat
  BY FlowTypes, CollectorAssumption
  DEF CollectorSamples, Sample, Publish, handlerVars, LiveBase, LiveTypeOK
<1> SUFFICES ASSUME Attached(k), sub[k] \in subs
             PROVE  from[k] + 1 .. latest + 1 \subseteq Account(k)'
  BY <1>1 DEF Accounted, Attached
<1>2. sub[k] \in SubIds
  BY HoldsChannel DEF Attached
<1>3. /\ Followed(k)' = Followed(k) /\ Held(k)' = Held(k)
  BY <1>1 DEF Followed, Events, Held, Writing
<1>4. /\ Waiting(k) \cup lost[sub[k]] \subseteq Waiting(k)' \cup lost'[sub[k]]
      /\ latest + 1 \in Waiting(k)' \cup lost'[sub[k]]
  <2>1. CASE chan'[sub[k]].buf = Append(Buf(k), latest + 1) /\ lost'[sub[k]] = lost[sub[k]]
    <3>1. Buf(k) \in Seq(Snapshots) /\ Buf(k)' = Append(Buf(k), latest + 1)
      BY <1>1, <1>2, <2>1, ChannelGrows DEF Buf
    <3>2. /\ Len(Buf(k)') = Len(Buf(k)) + 1 /\ Len(Buf(k)) \in Nat
          /\ Buf(k)'[Len(Buf(k)) + 1] = latest + 1
          /\ \A i \in 1 .. Len(Buf(k)) : Buf(k)'[i] = Buf(k)[i]
      BY <3>1
    <3>3. Len(Buf(k)) + 1 \in 1 .. Len(Buf(k)')
          /\ \A i \in 1 .. Len(Buf(k)) : i \in 1 .. Len(Buf(k)')
      BY <3>2
    <3>4. Waiting(k) \subseteq Waiting(k)' /\ latest + 1 \in Waiting(k)'
      BY <3>2, <3>3 DEF Waiting
    <3> QED  BY <2>1, <3>4
  <2>2. CASE Buf(k)' = Buf(k) /\ lost'[sub[k]] = lost[sub[k]] \cup {latest + 1}
    BY <2>2 DEF Waiting
  <2>3. Buf(k)' = chan'[sub[k]].buf /\ Buf(k) = chan[sub[k]].buf
    BY <1>1 DEF Buf
  <2> QED  BY <1>2, <2>1, <2>2, <2>3, ChannelGrows
<1>5. Account(k) \cup {latest + 1} \subseteq Account(k)'
  BY <1>1, <1>3, <1>4 DEF Account
<1>6. from[k] + 1 .. latest + 1 \subseteq (from[k] + 1 .. latest) \cup {latest + 1}
  BY <1>1
<1> QED  BY <1>5, <1>6 DEF Accounted

LEMMA AccountedSubscribe ==
    ASSUME LiveBase, NEW k \in Conns, HandlerSubscribes(k)
    PROVE  Accounted(k)'
<1>1. from'[k] = latest /\ latest' = latest /\ latest \in Nat
  BY FlowTypes DEF HandlerSubscribes, Subscribe, LiveBase, LiveTypeOK
<1>2. from'[k] + 1 .. latest' = {}
  BY <1>1
<1> QED  BY <1>2 DEF Accounted

(* Whatever is written, or skipped because it is unfit, stays accounted for. *)
LEMMA AccountedWrite ==
    ASSUME LiveBase, NEW k \in Conns, Accounted(k), HandlerWrites(k) \/ HandlerSkips(k)
    PROVE  Accounted(k)'
<1>1. /\ pc[k] = "write" /\ pc'[k] = "loop" /\ latest' = latest /\ Buf(k)' = Buf(k)
      /\ msg' = msg /\ sub' = sub /\ subs' = subs /\ lost' = lost /\ from' = from
  BY DEF HandlerWrites, HandlerSkips, LiveBase, LiveTypeOK, collectorVars, history, Buf
<1>2. Followed(k) \cup Held(k) \subseteq Followed(k)' \cup Unfit
  <2>1. CASE HandlerWrites(k)
    <3>1. /\ Len(sent'[k]) = Len(sent[k]) + 1
          /\ sent'[k][Len(sent[k]) + 1] = msg[k]
          /\ \A i \in 1 .. Len(sent[k]) : sent'[k][i] = sent[k][i]
          /\ Len(sent[k]) \in Nat
      BY <2>1, Written
    <3>2. \A i \in Events(k) : i \in Events(k)' /\ sent'[k][i] = sent[k][i]
      BY <3>1 DEF Events
    <3>3. Writing(k) => Len(sent[k]) + 1 \in Events(k)'
      BY <3>1 DEF Writing, Events
    <3> QED  BY <3>1, <3>2, <3>3 DEF Followed, Held
  <2>2. CASE HandlerSkips(k)
    <3>1. Followed(k)' = Followed(k)
      BY <2>2 DEF HandlerSkips, Followed, Events
    <3>2. Writing(k) => msg[k].snaps[1] \in Unfit
      <4>1. ~Encodable(msg[k]) /\ msg[k] \in Msgs /\ Phase(k)
        BY <2>2 DEF HandlerSkips, LiveBase, LiveTypeOK, Phases
      <4>2. Writing(k) => DOMAIN msg[k].snaps = {1}
        BY <4>1 DEF Writing, Phase, Msgs
      <4> QED  BY <4>1, <4>2 DEF Encodable
    <3> QED  BY <3>1, <3>2 DEF Held
  <2> QED  BY <2>1, <2>2
<1>3. Account(k) \subseteq Account(k)'
  BY <1>1, <1>2 DEF Account, Waiting
<1>4. Attached(k)
  BY <1>1 DEF Attached
<1> QED  BY <1>1, <1>3, <1>4 DEF Accounted

LEMMA AccountedReceive ==
    ASSUME LiveBase, NEW k \in Conns, Accounted(k), HandlerReceives(k)
    PROVE  Accounted(k)'
<1>1. /\ pc[k] = "loop" /\ pc'[k] = "write" /\ sub' = sub /\ sent' = sent
      /\ subs' = subs /\ lost' = lost /\ latest' = latest /\ from' = from
      /\ Buf(k) # <<>> /\ ~msg'[k].hello
      /\ msg'[k].snaps[1] = Head(Buf(k))
  BY DEF HandlerReceives, Receive, LiveBase, LiveTypeOK, Buf, Snapshot, history
<1>2. Buf(k)' = Tail(Buf(k)) /\ Buf(k) \in Seq(Snapshots)
  BY <1>1, HeadWaits DEF Buf
<1>3. \A n \in 1 .. Len(Buf(k)) :
         \/ Buf(k)[n] = Head(Buf(k))
         \/ n - 1 \in 1 .. Len(Buf(k)') /\ Buf(k)'[n - 1] = Buf(k)[n]
  BY <1>1, <1>2
<1>4. Waiting(k) \subseteq Held(k)' \cup Waiting(k)'
  BY <1>1, <1>3 DEF Waiting, Held, Writing
<1>5. Held(k) = {} /\ Followed(k)' = Followed(k)
  BY <1>1 DEF Held, Writing, Followed, Events
<1>6. Account(k) \subseteq Account(k)'
  BY <1>1, <1>4, <1>5 DEF Account
<1> QED  BY <1>1, <1>6 DEF Accounted, Attached

(* A step that leaves the stream, or only copies the ring for its hello. *)
LEMMA AccountedFrame ==
    ASSUME LiveBase, [LiveNext]_vars, NEW k \in Conns, Accounted(k),
           Attached(k)' => Attached(k), sub'[k] = sub[k], sent'[k] = sent[k],
           from'[k] = from[k], Held(k)' = Held(k),
           ~CollectorSamples, ~HandlerReceives(k)
    PROVE  Accounted(k)'
<1> SUFFICES ASSUME Attached(k), sub'[k] \in subs'
             PROVE  from'[k] + 1 .. latest' \subseteq Account(k)'
  BY DEF Accounted
<1>1. sub[k] # NoSub
  BY DEF Attached, LiveBase, Phases, Phase
<1>2. Buf(k)' = Buf(k) /\ sub[k] \in subs /\ latest' = latest /\ lost' = lost
  BY <1>1, ChannelStays DEF Buf
<1>3. Account(k)' = Account(k)
  BY <1>1, <1>2 DEF Account, Followed, Events, Waiting
<1> QED  BY <1>2, <1>3 DEF Accounted

(* Only its own subscription changes from where a stream is accounted for. *)
LEMMA FromStays ==
    ASSUME LiveBase, [LiveNext]_vars, NEW k \in Conns, ~HandlerSubscribes(k)
    PROVE  from'[k] = from[k]
<1>1. from \in [Conns -> 0 .. MaxTick]
  BY DEF LiveBase, LiveTypeOK
<1>2. ASSUME NEW j \in Conns \ {k}, HandlerSubscribes(j)  PROVE from'[k] = from[k]
  BY <1>1, <1>2 DEF HandlerSubscribes
<1> QED
  BY LiveCases, <1>2
  DEF CollectorSamples, CollectorReturns, ServerIsTold, HandlerReadsRecent, HandlerWrites,
      HandlerSkips, HandlerReceives, HandlerLeaves, BrowserConnects, BrowserReads,
      BrowserLetsGo, vars, history

LEMMA AccountedStep ==
    ASSUME LiveBase, [LiveNext]_vars, NEW k \in Conns, Accounted(k)
    PROVE  Accounted(k)'
<1>0. LiveTypeOK
  BY DEF LiveBase
<1>1. CASE CollectorSamples  BY <1>1, AccountedSample
<1>2. CASE HandlerSubscribes(k)  BY <1>2, AccountedSubscribe
<1>3. CASE HandlerWrites(k) \/ HandlerSkips(k)  BY <1>3, AccountedWrite
<1>4. CASE HandlerReceives(k)  BY <1>4, AccountedReceive
<1>5. CASE HandlerLeaves(k) \/ BrowserConnects(k)
  <2>1. ~Attached(k)'
    BY <1>0, <1>5 DEF HandlerLeaves, BrowserConnects, Attached, LiveTypeOK
  <2> QED  BY <2>1 DEF Accounted
<1>6. ASSUME ~CollectorSamples, HandlerReadsRecent(k)  PROVE Accounted(k)'
  <2>1. /\ pc[k] = "subscribed" /\ pc'[k] = "write" /\ msg'[k].hello
        /\ sub' = sub /\ sent' = sent
    BY <1>0, <1>6 DEF HandlerReadsRecent, LiveTypeOK, Hello
  <2>2. Attached(k) /\ Held(k) = {} /\ Held(k)' = {} /\ ~HandlerReceives(k)
        /\ ~HandlerSubscribes(k)
    BY <2>1 DEF Attached, Held, Writing, HandlerReceives, HandlerSubscribes
  <2> QED  BY <1>6, <2>1, <2>2, FromStays, AccountedFrame
<1>7. ASSUME Same(k), ~CollectorSamples, ~HandlerReceives(k), ~HandlerSubscribes(k)
      PROVE  Accounted(k)'
  <2>1. (Attached(k)' => Attached(k)) /\ Held(k)' = Held(k)
        /\ sub'[k] = sub[k] /\ sent'[k] = sent[k]
    BY <1>7 DEF Same, Attached, Held, Writing
  <2> QED  BY <1>7, <2>1, FromStays, AccountedFrame
<1>8. ASSUME ~CollectorSamples, ~HandlerReceives(k), ~HandlerSubscribes(k),
             NEW j \in Conns \ {k},
             \/ HandlerSubscribes(j) \/ HandlerReadsRecent(j) \/ HandlerWrites(j)
             \/ HandlerSkips(j) \/ HandlerReceives(j) \/ HandlerLeaves(j)
             \/ BrowserConnects(j)
      PROVE  Accounted(k)'
  BY <1>7, <1>8, OthersStay
<1>9. ASSUME ~CollectorSamples, ~HandlerReceives(k), ~HandlerSubscribes(k),
             \/ CollectorReturns \/ ServerIsTold \/ BrowserReads \/ BrowserLetsGo
             \/ UNCHANGED vars
      PROVE  Accounted(k)'
  BY <1>7, <1>9, AllStay
<1> QED  BY LiveCases, <1>1, <1>2, <1>3, <1>4, <1>5, <1>6, <1>8, <1>9

LEMMA HelloReachesStep ==
    ASSUME LiveBase, [LiveNext]_vars, NEW k \in Conns, HelloReaches(k)
    PROVE  HelloReaches(k)'
<1>0. /\ LiveTypeOK /\ Phase(k) /\ from[k] \in Nat
      /\ latest \in Nat /\ latest' \in Nat /\ latest <= latest'
  BY NeverFalls, CollectorAssumption DEF LiveBase, LiveTypeOK, Phases
<1>1. CASE HandlerSubscribes(k)
  <2>1. /\ from'[k] = latest /\ latest' = latest
        /\ pc'[k] = "subscribed" /\ sent'[k] = <<>>
    BY <1>0, <1>1 DEF HandlerSubscribes, Subscribe, LiveTypeOK, Phase
  <2> QED  BY <1>0, <2>1 DEF HelloReaches
<1>2. ASSUME ~HandlerSubscribes(k),
             pc'[k] = "write" /\ msg'[k].hello =>
                /\ pc[k] = "write" /\ msg'[k] = msg[k],
             sent'[k] = sent[k]
      PROVE  HelloReaches(k)'
  <2>1. from'[k] = from[k]
    BY <1>2, FromStays
  <2> QED  BY <1>0, <1>2, <2>1 DEF HelloReaches, Reaches
<1>3. CASE HandlerReadsRecent(k)
  <2>1. /\ sent'[k] = <<>> /\ latest' = latest
        /\ msg'[k].snaps = Contents(ring) /\ pc[k] = "subscribed"
    BY <1>0, <1>3 DEF HandlerReadsRecent, LiveTypeOK, Phase, Hello, collectorVars
  <2>2. from'[k] = from[k] /\ from[k] <= latest
    BY <2>1, FromStays DEF HandlerSubscribes, HelloReaches
  <2>3. Reaches(k, msg[k])'
    BY <1>0, <2>1, <2>2, RecentSnapshots DEF Reaches, LastOf, LiveBase
  <2> QED  BY <1>0, <2>1, <2>2, <2>3 DEF HelloReaches
<1>4. CASE HandlerWrites(k)
  <2>1. /\ sent'[k][Len(sent[k]) + 1] = msg[k] /\ Len(sent[k]) \in Nat
        /\ \A i \in 1 .. Len(sent[k]) : sent'[k][i] = sent[k][i]
    BY <1>4, Written
  <2>2. sent[k] # <<>> => 1 \in 1 .. Len(sent[k])
    BY <1>0, <2>1 DEF LiveTypeOK
  <2>3. IF sent[k] = <<>> THEN sent'[k][1] = msg[k] ELSE sent'[k][1] = sent[k][1]
    BY <2>1, <2>2
  <2>4. pc[k] = "write" /\ pc'[k] = "loop"
    BY <1>0, <1>4 DEF HandlerWrites, LiveTypeOK
  <2>5. from'[k] = from[k]
    BY <2>4, FromStays DEF HandlerSubscribes
  <2> QED  BY <1>0, <2>3, <2>4, <2>5 DEF HelloReaches, Reaches
<1>5. CASE \/ HandlerSkips(k) \/ HandlerReceives(k) \/ HandlerLeaves(k)
           \/ BrowserConnects(k)
  <2>1. /\ pc'[k] = "write" => ~msg'[k].hello
        /\ sent'[k] = sent[k] /\ ~HandlerSubscribes(k)
    BY <1>0, <1>5
    DEF HandlerSkips, HandlerReceives, HandlerLeaves, MayLeave, BrowserConnects,
        HandlerSubscribes, LiveTypeOK, Snapshot
  <2> QED  BY <1>2, <2>1
<1>6. ASSUME Same(k), ~HandlerSubscribes(k)  PROVE HelloReaches(k)'
  BY <1>2, <1>6 DEF Same
<1>7. ASSUME ~HandlerSubscribes(k), NEW j \in Conns \ {k},
             \/ HandlerSubscribes(j) \/ HandlerReadsRecent(j) \/ HandlerWrites(j)
             \/ HandlerSkips(j) \/ HandlerReceives(j) \/ HandlerLeaves(j)
             \/ BrowserConnects(j)
      PROVE  HelloReaches(k)'
  BY <1>6, <1>7, OthersStay
<1>8. ASSUME ~HandlerSubscribes(k),
             \/ CollectorSamples \/ CollectorReturns \/ ServerIsTold
             \/ BrowserReads \/ BrowserLetsGo \/ UNCHANGED vars
      PROVE  HelloReaches(k)'
  BY <1>6, <1>8, AllStay
<1> QED  BY LiveCases, <1>1, <1>3, <1>4, <1>5, <1>7, <1>8

(* THEOREM: nothing falls between the copy of the ring and the channel:      *)
(* what is published after Subscribe reaches the stream unless a full        *)
(* channel loses it or event cannot marshal it, and a hello that can be      *)
(* written reaches the subscription, whenever the copy is made (handleLive,  *)
(* sseStream.event).                                                         *)
THEOREM CopyMeetsChannel == LiveSpec => []NothingFallsBetween
<1>1. LiveInit => HandedOver
  BY DEF LiveInit, CollectorInit, HandedOver, Accounted, Attached, HelloReaches
<1>2. LiveBase /\ HandedOver /\ [LiveNext]_vars => HandedOver'
  BY AccountedStep, HelloReachesStep DEF HandedOver
<1>3. HandedOver => NothingFallsBetween
  <2> SUFFICES ASSUME NEW k \in Conns, Accounted(k), HelloReaches(k),
                      pc[k] = "loop", sub[k] \in subs
               PROVE  LET waiting == {chan[sub[k]].buf[i] : i \in 1 .. Len(chan[sub[k]].buf)}
                          hello == sent[k][1].snaps
                      IN /\ from[k] + 1 .. latest
                               \subseteq Followed(k) \cup waiting \cup lost[sub[k]] \cup Unfit
                         /\ sent[k] # <<>> /\ sent[k][1].hello /\ from[k] # 0 =>
                               hello # <<>> /\ hello[Len(hello)] >= from[k]
    BY DEF HandedOver, NothingFallsBetween
  <2>1. Attached(k) /\ Held(k) = {}
    BY DEF Attached, Held, Writing
  <2> QED  BY <2>1 DEF Accounted, Account, Waiting, Buf, HelloReaches, Reaches, LastOf
<1> QED  BY <1>1, <1>2, <1>3, LiveBaseHolds, PTL DEF LiveSpec

-----------------------------------------------------------------------------
(***************************************************************************)
(* Reconnects.  Nothing that is on its way, and nothing that is shown, is  *)
(* newer than the latest sample; so the hello of a new connection, copied  *)
(* while nothing is read from it yet, ends no earlier than what is shown.  *)
(***************************************************************************)
NotAhead(m) == m.snaps # <<>> => LastOf(m.snaps) <= latest
UpToDate(m) == view # <<>> => m.snaps # <<>> /\ LastOf(m.snaps) >= LastOf(view)

Past(k) == NotAhead(msg[k]) /\ \A i \in 1 .. Len(sent[k]) : NotAhead(sent[k][i])
ViewPast == view # <<>> => LastOf(view) <= latest
HelloAhead ==
    cur # 0 /\ got[cur] = 0 =>
        /\ pc[cur] = "write" /\ msg[cur].hello => UpToDate(msg[cur])
        /\ sent[cur] # <<>> /\ sent[cur][1].hello => UpToDate(sent[cur][1])
NoWayBack == (\A k \in Conns : Past(k)) /\ ViewPast /\ HelloAhead

(* The cut of a sequence to a positive length keeps its last element. *)
LEMMA NewestKeepsLast ==
    ASSUME NEW S, NEW seq \in Seq(S), NEW n \in Nat \ {0}
    PROVE  /\ Newest(seq, n) = <<>> <=> seq = <<>>
           /\ seq # <<>> => LastOf(Newest(seq, n)) = LastOf(seq)
<1>1. CASE Len(seq) <= n
  BY <1>1 DEF Newest
<1>2. CASE ~(Len(seq) <= n)
  <2>1. /\ Newest(seq, n) = [i \in 1 .. n |-> seq[Len(seq) - n + i]]
        /\ Len(seq) \in Nat /\ seq # <<>>
    BY <1>2 DEF Newest
  <2>2. Len(Newest(seq, n)) = n /\ n \in 1 .. n /\ Newest(seq, n)[n] = seq[Len(seq) - n + n]
    BY <2>1
  <2>3. Len(seq) - n + n = Len(seq)
    BY <2>1
  <2>4. Newest(seq, n) # <<>>
    BY <2>2
  <2> QED  BY <2>1, <2>2, <2>3, <2>4 DEF LastOf
<1> QED  BY <1>1, <1>2

LEMMA PastStep ==
    ASSUME LiveBase, [LiveNext]_vars, NEW k \in Conns, Past(k)
    PROVE  Past(k)'
<1>0. /\ msg[k] \in Msgs /\ sent[k] \in Seq(Msgs) /\ latest' \in Nat /\ latest \in Nat
      /\ \A i \in 1 .. Len(sent[k]) : sent[k][i] \in Msgs
  BY NeverFalls DEF LiveBase, LiveTypeOK
<1>2. /\ latest <= latest'
      /\ msg[k].snaps # <<>> => LastOf(msg[k].snaps) <= latest'
      /\ \A i \in 1 .. Len(sent[k]) :
            sent[k][i].snaps # <<>> => LastOf(sent[k][i].snaps) <= latest'
  <2>1. \A m \in Msgs : m.snaps # <<>> => LastOf(m.snaps) \in Nat
    BY CollectorAssumption DEF Msgs, LastOf, Snapshots
  <2> QED  BY <1>0, <2>1, NeverFalls DEF Past, NotAhead
<1>3. CASE msg'[k] = msg[k] /\ sent'[k] = sent[k]
  BY <1>2, <1>3 DEF Past, NotAhead
<1>4. CASE HandlerReadsRecent(k)
  <2>1. msg'[k].snaps = Contents(ring) /\ sent'[k] = sent[k] /\ latest' = latest
    BY <1>4 DEF HandlerReadsRecent, LiveBase, LiveTypeOK, Hello, collectorVars
  <2>2. Contents(ring) # <<>> => LastOf(Contents(ring)) <= latest
    BY <1>0, RecentSnapshots DEF LiveBase, LastOf
  <2> QED  BY <1>2, <2>1, <2>2 DEF Past, NotAhead
<1>5. CASE HandlerWrites(k)
  <2>1. /\ Len(sent'[k]) = Len(sent[k]) + 1 /\ msg'[k] = msg[k]
        /\ sent'[k][Len(sent[k]) + 1] = msg[k] /\ Len(sent[k]) \in Nat
        /\ \A i \in 1 .. Len(sent[k]) : sent'[k][i] = sent[k][i]
    BY <1>5, Written DEF HandlerWrites
  <2>2. \A i \in 1 .. Len(sent'[k]) : i \in 1 .. Len(sent[k]) \/ i = Len(sent[k]) + 1
    BY <2>1
  <2> QED  BY <1>2, <2>1, <2>2 DEF Past, NotAhead
<1>6. CASE HandlerReceives(k)
  <2>1. /\ msg'[k].snaps = <<Head(Buf(k))>> /\ sent'[k] = sent[k] /\ latest' = latest
        /\ Buf(k) # <<>> /\ sub[k] # NoSub
    BY <1>6
    DEF HandlerReceives, Receive, LiveBase, LiveTypeOK, Snapshot, Buf, Phases, Phase
  <2>2. Head(Buf(k)) <= latest
    <3>1. Buf(k) \in Seq(Snapshots) /\ \A n \in 1 .. Len(Buf(k)) : Buf(k)[n] <= latest
      BY <2>1, FlowTypes
    <3> QED  BY <2>1, <3>1
  <2>3. LastOf(<<Head(Buf(k))>>) = Head(Buf(k))
    BY DEF LastOf
  <2> QED  BY <1>2, <2>1, <2>2, <2>3 DEF Past, NotAhead
<1>7. CASE \/ HandlerSubscribes(k) \/ HandlerSkips(k) \/ HandlerLeaves(k)
           \/ BrowserConnects(k)
  BY <1>3, <1>7 DEF HandlerSubscribes, HandlerSkips, HandlerLeaves, BrowserConnects
<1>8. ASSUME NEW j \in Conns \ {k},
             \/ HandlerSubscribes(j) \/ HandlerReadsRecent(j) \/ HandlerWrites(j) \/ HandlerSkips(j)
             \/ HandlerReceives(j) \/ HandlerLeaves(j) \/ BrowserConnects(j)
      PROVE  Past(k)'
  BY <1>3, <1>8, OthersStay DEF Same
<1>9. CASE \/ CollectorSamples \/ CollectorReturns \/ ServerIsTold
           \/ BrowserReads \/ BrowserLetsGo \/ UNCHANGED vars
  BY <1>3, <1>9, AllStay DEF Same
<1> QED  BY LiveCases, <1>4, <1>5, <1>6, <1>7, <1>8, <1>9

(* What the browser shows after a read ends with what it read. *)
LEMMA ReadEndsView ==
    ASSUME LiveBase, BrowserReads
    PROVE  LET m == sent[cur][got[cur] + 1] IN
           /\ view' # <<>> => m.snaps # <<>> /\ LastOf(view') = LastOf(m.snaps)
           /\ m.snaps # <<>> => view' # <<>>
<1> DEFINE m == sent[cur][got[cur] + 1]
<1>1. /\ m \in Msgs /\ (~m.hello => m.snaps[1] \in Snapshots /\ Len(m.snaps) = 1
                                    /\ m.snaps \in Seq(Snapshots))
  BY ReadMessage
<1>2. view' = IF m.hello THEN Newest(m.snaps, ViewCap) ELSE PushView(m.snaps[1])
  BY DEF BrowserReads
<1>3. view \in Seq(Snapshots) /\ ViewCap \in Nat \ {0}
  BY LiveAssumption DEF LiveBase, LiveTypeOK
<1> SUFFICES /\ view' # <<>> => m.snaps # <<>> /\ LastOf(view') = LastOf(m.snaps)
             /\ m.snaps # <<>> => view' # <<>>
  OBVIOUS
<1> HIDE DEF m
<1>4. CASE m.hello
  <2>1. m.snaps \in Seq(Snapshots)
    BY <1>1 DEF Msgs
  <2> QED  BY <1>2, <1>3, <1>4, <2>1, NewestKeepsLast
<1>5. CASE ~m.hello
  <2> DEFINE a == Append(view, m.snaps[1])
  <2>1. a \in Seq(Snapshots) /\ a # <<>> /\ LastOf(a) = m.snaps[1]
    BY <1>1, <1>3, <1>5 DEF LastOf
  <2>2. view' = Newest(a, ViewCap)
    BY <1>2, <1>5 DEF PushView
  <2>3. m.snaps # <<>> /\ LastOf(m.snaps) = m.snaps[1]
    BY <1>1, <1>5 DEF LastOf
  <2> HIDE DEF a
  <2> QED  BY <1>3, <2>1, <2>2, <2>3, NewestKeepsLast
<1> QED  BY <1>4, <1>5

LEMMA ViewPastStep ==
    ASSUME LiveBase, [LiveNext]_vars, NoWayBack
    PROVE  ViewPast'
<1>1. CASE BrowserReads
  <2>1. cur \in Conns /\ got[cur] + 1 \in 1 .. Len(sent[cur])
    BY <1>1, ReadMessage
  <2>2. NotAhead(sent[cur][got[cur] + 1]) /\ latest' = latest
    BY <1>1, <2>1 DEF NoWayBack, Past, BrowserReads, collectorVars
  <2> QED  BY <1>1, <2>2, ReadEndsView DEF ViewPast, NotAhead
<1>2. CASE view' = view
  <2>1. view # <<>> => LastOf(view) \in Nat
    BY CollectorAssumption DEF LiveBase, LiveTypeOK, LastOf, Snapshots
  <2> QED  BY <1>2, <2>1, NeverFalls DEF NoWayBack, ViewPast
<1>3. BrowserReads \/ view' = view
  BY LiveCases
  DEF CollectorSamples, CollectorReturns, ServerIsTold, HandlerSubscribes, HandlerReadsRecent,
      HandlerWrites, HandlerSkips, HandlerReceives, HandlerLeaves, BrowserConnects, BrowserLetsGo, vars,
      browserVars
<1> QED  BY <1>1, <1>2, <1>3

LEMMA HelloAheadStep ==
    ASSUME LiveBase, [LiveNext]_vars, NoWayBack
    PROVE  HelloAhead'
<1>0. LiveTypeOK /\ HelloAhead /\ ViewPast
  BY DEF LiveBase, NoWayBack
<1>1. ASSUME view' = view, cur' = cur, got' = got, cur # 0 => Same(cur)
      PROVE  HelloAhead'
  BY <1>0, <1>1 DEF HelloAhead, Same, UpToDate
<1>2. CASE \/ CollectorSamples \/ CollectorReturns \/ ServerIsTold \/ UNCHANGED vars
  <2>1. view' = view /\ cur' = cur /\ got' = got
    BY <1>2 DEF CollectorSamples, CollectorReturns, ServerIsTold, browserVars, vars
  <2> QED  BY <1>0, <1>1, <1>2, <2>1, AllStay DEF LiveTypeOK
<1>3. ASSUME NEW k \in Conns, k # cur,
             \/ HandlerSubscribes(k) \/ HandlerReadsRecent(k) \/ HandlerWrites(k) \/ HandlerSkips(k)
             \/ HandlerReceives(k) \/ HandlerLeaves(k)
      PROVE  HelloAhead'
  <2>1. view' = view /\ cur' = cur /\ got' = got
    BY <1>3
    DEF HandlerSubscribes, HandlerReadsRecent, HandlerWrites, HandlerSkips, HandlerReceives, HandlerLeaves,
        browserVars
  <2> QED  BY <1>0, <1>1, <1>3, <2>1, OthersStay DEF LiveTypeOK
<1>4. ASSUME NEW k \in Conns, k = cur, HandlerReadsRecent(k)
      PROVE  HelloAhead'
  <2>1. /\ view' = view /\ cur' = cur /\ latest \in Nat
        /\ msg'[k].snaps = Contents(ring) /\ sent'[k] = <<>>
    BY <1>0, <1>4, NeverFalls
    DEF HandlerReadsRecent, browserVars, LiveTypeOK, Hello, LiveBase, Phases, Phase
  <2>2. view # <<>> => LastOf(view) <= latest /\ LastOf(view) \in Nat /\ LastOf(view) # 0
    BY <1>0, CollectorAssumption DEF ViewPast, LiveTypeOK, LastOf, Snapshots
  <2>3. UpToDate(msg[k])'
    BY <2>1, <2>2, RecentSnapshots DEF UpToDate, LastOf, LiveBase
  <2> QED  BY <1>4, <2>1, <2>3 DEF HelloAhead
<1>5. ASSUME NEW k \in Conns, k = cur, HandlerWrites(k)
      PROVE  HelloAhead'
  <2>1. /\ view' = view /\ cur' = cur /\ got' = got /\ pc[k] = "write" /\ pc'[k] = "loop"
    BY <1>0, <1>5 DEF HandlerWrites, browserVars, LiveTypeOK
  <2>2. IF sent[k] = <<>> THEN sent'[k][1] = msg[k] ELSE sent'[k][1] = sent[k][1]
    <3>1. /\ sent'[k][Len(sent[k]) + 1] = msg[k] /\ Len(sent[k]) \in Nat
          /\ \A i \in 1 .. Len(sent[k]) : sent'[k][i] = sent[k][i]
      BY <1>5, Written
    <3>2. sent[k] # <<>> => 1 \in 1 .. Len(sent[k])
      BY <1>0, <3>1 DEF LiveTypeOK
    <3> QED  BY <3>1, <3>2
  <2> QED  BY <1>0, <1>5, <2>1, <2>2 DEF HelloAhead, UpToDate
<1>6. ASSUME NEW k \in Conns, k = cur,
             \/ HandlerSubscribes(k) \/ HandlerSkips(k) \/ HandlerReceives(k)
             \/ HandlerLeaves(k)
      PROVE  HelloAhead'
  <2>1. /\ view' = view /\ cur' = cur /\ got' = got /\ sent' = sent
        /\ pc'[k] = "write" => ~msg'[k].hello
    BY <1>0, <1>6
    DEF HandlerSubscribes, HandlerSkips, HandlerReceives, HandlerLeaves, browserVars,
        LiveTypeOK, Snapshot
  <2> QED  BY <1>0, <1>6, <2>1 DEF HelloAhead, UpToDate
<1>7. ASSUME NEW k \in Conns, BrowserConnects(k)
      PROVE  HelloAhead'
  <2>1. cur' = k /\ pc'[k] = "accepted" /\ sent'[k] = <<>>
    BY <1>0, <1>7 DEF BrowserConnects, LiveTypeOK, LiveBase, Phases, Phase
  <2> QED  BY <2>1 DEF HelloAhead
<1>8. CASE BrowserReads
  <2>1. cur' = cur /\ cur \in Conns /\ got'[cur] = got[cur] + 1 /\ got[cur] \in Nat
    BY <1>0, <1>8, ReadMessage DEF BrowserReads, LiveTypeOK
  <2> QED  BY <2>1 DEF HelloAhead
<1>9. CASE BrowserLetsGo
  BY <1>9 DEF BrowserLetsGo, HelloAhead
<1> QED  BY LiveCases, <1>2, <1>3, <1>4, <1>5, <1>6, <1>7, <1>8, <1>9

LEMMA NoWayBackHolds == LiveSpec => []NoWayBack
<1>1. LiveInit => NoWayBack
  BY DEF LiveInit, NoWayBack, Past, ViewPast, HelloAhead, NotAhead, NoMsg, Hello
<1>2. LiveBase /\ NoWayBack /\ [LiveNext]_vars => NoWayBack'
  BY PastStep, ViewPastStep, HelloAheadStep DEF NoWayBack
<1> QED  BY <1>1, <1>2, LiveBaseHolds, PTL DEF LiveSpec

(* THEOREM: a reconnect never takes the dashboard back in time, however many *)
(* connections were cut before and whoever still serves them: the hello that *)
(* replaces what is shown ends no earlier (handleLive, useLive).             *)
THEOREM ReconnectGoesForward == LiveSpec => ReconnectNeverGoesBack
<1>1. ASSUME LiveBase, NoWayBack, [LiveNext]_vars, cur # 0, got' # got,
             sent[cur][got[cur] + 1].hello, view # <<>>
      PROVE  view' # <<>> /\ view'[Len(view')] >= view[Len(view)]
  <2>1. BrowserReads
    BY <1>1, LiveCases
    DEF CollectorSamples, CollectorReturns, ServerIsTold, HandlerSubscribes,
        HandlerReadsRecent, HandlerWrites, HandlerSkips, HandlerReceives, HandlerLeaves,
        BrowserConnects, BrowserLetsGo, vars, browserVars
  <2>2. cur \in Conns /\ got[cur] + 1 \in 1 .. Len(sent[cur]) /\ got[cur] \in Nat
    BY <1>1, <2>1, ReadMessage DEF LiveBase, LiveTypeOK
  <2>3. got[cur] = 0
    BY <1>1, <2>2 DEF LiveBase, Phases, Phase
  <2>4. sent[cur] # <<>>
    BY <2>2
  <2>6. sent[cur][got[cur] + 1] = sent[cur][1]
    BY <2>3
  <2>5. UpToDate(sent[cur][1])
    BY <1>1, <2>3, <2>4, <2>6 DEF NoWayBack, HelloAhead
  <2>7. /\ view' # <<>> => LastOf(view') = LastOf(sent[cur][1].snaps)
        /\ sent[cur][1].snaps # <<>> => view' # <<>>
    BY <1>1, <2>1, <2>6, ReadEndsView
  <2> QED  BY <1>1, <2>5, <2>7 DEF UpToDate, LastOf
<1>2. LiveBase /\ NoWayBack /\ [LiveNext]_vars
        => [cur # 0 /\ got' # got /\ sent[cur][got[cur] + 1].hello /\ view # <<>>
              => view' # <<>> /\ view'[Len(view')] >= view[Len(view)]]_vars
  BY <1>1
<1> QED  BY <1>2, LiveBaseHolds, NoWayBackHolds, PTL DEF LiveSpec, ReconnectNeverGoesBack

-----------------------------------------------------------------------------
(* THEOREM: the state of handlers and browser keeps its type: nothing is     *)
(* read that was not written, and no more is on the way than the connection  *)
(* holds (handleLive, connectStream).                                        *)
THEOREM LiveTypeCorrect == LiveSpec => []LiveTypeOK
<1>1. LiveBase => LiveTypeOK
  BY DEF LiveBase
<1> QED  BY <1>1, LiveBaseHolds, PTL

(* THEOREM: with handlers as its subscribers, which subscribe, leave and are *)
(* cut off as they do, the collector never meets a closed channel.           *)
THEOREM HandlersKeepChannelsOpen == LiveSpec => []OpenIffRegistered
<1>1. LiveBase => OpenIffRegistered
  BY DEF LiveBase, CollectorInv, Registration
<1> QED  BY <1>1, LiveBaseHolds, PTL

(* THEOREM: serving streams, the collector is still the lossy broadcast it   *)
(* promises to be: no handler takes from a channel that is not its own, and  *)
(* none holds the publisher up.                                              *)
THEOREM LiveImplements == LiveSpec => ImplementsBroadcast
<1>1. LiveInit => Feed!Init
  BY BroadcastInit DEF LiveInit
<1>2. LiveBase /\ [LiveNext]_vars => [Feed!Next]_(Feed!vars)
  BY CollectorMoves, BroadcastStep DEF LiveBase, CollectorInv
<1> QED  BY <1>1, <1>2, LiveBaseHolds, PTL DEF LiveSpec, ImplementsBroadcast, Feed!Spec
=============================================================================
