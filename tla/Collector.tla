------------------------------ MODULE Collector ------------------------------
(***************************************************************************)
(* internal/collector: one goroutine samples the host and publishes each   *)
(* snapshot into the ring and to every subscriber; others subscribe, read  *)
(* and cancel at any moment.  Every step below is one critical section of  *)
(* Collector.mu or one channel receive.                                    *)
(*                                                                         *)
(* A snapshot is the number of the sample it came from: 1 is the first.    *)
(***************************************************************************)
EXTENDS Ring, FiniteSets

CONSTANTS
    SubscriberBuffer,   \* subscriberBuffer: capacity of one channel
    MaxSubs,            \* bound: channels made by Subscribe
    MaxTick             \* bound: samples taken

ASSUME CollectorAssumption ==
    /\ Zero = 0
    /\ SubscriberBuffer \in Nat \ {0}
    /\ MaxSubs \in Nat
    /\ MaxTick \in Nat

VARIABLES
    ring,       \* ring, head and count
    latest,     \* the most recent snapshot, meaningful once sampled
    sampled,    \* true once the first sample has been published
    subs,       \* ids of the registered subscribers
    nextSub,    \* channels made so far; an id is the number of its channel
    stopped,    \* shutdown has run
    chan,       \* chan[id]: buffered snapshots, and whether it is closed
    run,        \* where the Run goroutine is
    ctxDone     \* the context given to Run is cancelled

collectorVars ==
    <<ring, latest, sampled, subs, nextSub, stopped, chan, run, ctxDone>>

SubIds == 0 .. MaxSubs - 1
Snapshots == 1 .. MaxTick
Channels == [buf : Seq(Snapshots), closed : BOOLEAN]

CollectorTypeOK ==
    /\ ring \in Rings(0 .. MaxTick)
    /\ latest \in 0 .. MaxTick
    /\ sampled \in BOOLEAN
    /\ subs \subseteq SubIds
    /\ nextSub \in 0 .. MaxSubs
    /\ stopped \in BOOLEAN
    /\ chan \in [SubIds -> Channels]
    /\ \A id \in SubIds : Len(chan[id].buf) <= SubscriberBuffer
    /\ run \in {"first", "loop", "returned"}
    /\ ctxDone \in BOOLEAN

(***************************************************************************)
(* New.                                                                    *)
(***************************************************************************)
CollectorInit ==
    /\ ring = EmptyRing
    /\ latest = 0
    /\ sampled = FALSE
    /\ subs = {}
    /\ nextSub = 0
    /\ stopped = FALSE
    /\ chan = [id \in SubIds |-> [buf |-> <<>>, closed |-> FALSE]]
    /\ run = "first"
    /\ ctxDone = FALSE

(* Mutant: a full channel loses its oldest instead. *)
OfferEvicting(ch, snap) ==
    IF Len(ch.buf) < SubscriberBuffer THEN [ch EXCEPT !.buf = Append(@, snap)]
    ELSE [ch EXCEPT !.buf = Append(Tail(@), snap)]

(***************************************************************************)
(* publish: record the snapshot and offer it to every registered channel;  *)
(* a full one loses it.                                                    *)
(***************************************************************************)
Offer(ch, snap) ==
    IF Len(ch.buf) < SubscriberBuffer THEN [ch EXCEPT !.buf = Append(@, snap)]
    ELSE ch

Publish(snap) ==
    /\ latest' = snap
    /\ sampled' = TRUE
    /\ ring' = Push(ring, snap)
    /\ chan' = [id \in SubIds |->
                  IF id \in subs THEN Offer(chan[id], snap) ELSE chan[id]]

(* Mutant: a sample that fails publishes the last one again. *)
SampleOrRepeat ==
    /\ run \in {"first", "loop"}
    /\ \E s \in {latest, latest + 1} \cap Snapshots : Publish(s)
    /\ run' = "loop"
    /\ UNCHANGED <<subs, nextSub, stopped, ctxDone>>

(***************************************************************************)
(* Run samples once before its loop, whatever the context says, and then   *)
(* on every tick; with a tick and a cancelled context both ready, Go picks *)
(* either.                                                                 *)
(***************************************************************************)
Sample ==
    /\ run \in {"first", "loop"}
    /\ latest < MaxTick
    /\ Publish(latest + 1)
    /\ run' = "loop"
    /\ UNCHANGED <<subs, nextSub, stopped, ctxDone>>

(***************************************************************************)
(* Closing a set of channels and unregistering them: what cancel does to   *)
(* one and shutdown to all.                                                *)
(***************************************************************************)
Unregister(ids) ==
    /\ subs' = subs \ ids
    /\ chan' = [id \in SubIds |->
                  IF id \in ids THEN [chan[id] EXCEPT !.closed = TRUE]
                  ELSE chan[id]]

(***************************************************************************)
(* Run leaves its loop on ctx.Done and the deferred shutdown closes every  *)
(* registered channel.                                                     *)
(***************************************************************************)
Return ==
    /\ run = "loop"
    /\ ctxDone
    /\ run' = "returned"
    /\ stopped' = TRUE
    /\ Unregister(subs)
    /\ UNCHANGED <<ring, latest, sampled, nextSub, ctxDone>>

(* Mutant: a stopped collector registers like a running one. *)
SubscribeRegardless ==
    /\ nextSub < MaxSubs
    /\ nextSub' = nextSub + 1
    /\ subs' = subs \cup {nextSub}
    /\ UNCHANGED <<ring, latest, sampled, stopped, chan, run, ctxDone>>

(***************************************************************************)
(* Subscribe makes channel nextSub.  A stopped collector hands it out      *)
(* closed and unregistered (the code then leaves its id counter alone; the *)
(* number here only names the channel).                                    *)
(***************************************************************************)
Subscribe ==
    /\ nextSub < MaxSubs
    /\ nextSub' = nextSub + 1
    /\ IF stopped
       THEN /\ chan' = [chan EXCEPT ![nextSub].closed = TRUE]
            /\ UNCHANGED subs
       ELSE /\ subs' = subs \cup {nextSub}
            /\ UNCHANGED chan
    /\ UNCHANGED <<ring, latest, sampled, stopped, run, ctxDone>>

(***************************************************************************)
(* The cancel func Subscribe returned, called once or more: only the call  *)
(* that still finds the id registered closes the channel.                  *)
(***************************************************************************)
Cancel(id) ==
    /\ id < nextSub
    /\ Unregister({id} \cap subs)
    /\ UNCHANGED <<ring, latest, sampled, nextSub, stopped, run, ctxDone>>

(***************************************************************************)
(* One receive that yields a snapshot.  A closed channel still yields what *)
(* it buffered.                                                            *)
(***************************************************************************)
Receive(id) ==
    /\ chan[id].buf # <<>>
    /\ chan' = [chan EXCEPT ![id].buf = Tail(@)]
    /\ UNCHANGED <<ring, latest, sampled, subs, nextSub, stopped, run, ctxDone>>

(***************************************************************************)
(* A receive that reports the channel closed.                              *)
(***************************************************************************)
Drained(id) == chan[id].buf = <<>> /\ chan[id].closed

CancelContext ==
    /\ ~ctxDone
    /\ ctxDone' = TRUE
    /\ UNCHANGED <<ring, latest, sampled, subs, nextSub, stopped, chan, run>>

CollectorNext ==
    \/ Sample
    \/ Return
    \/ Subscribe
    \/ \E id \in SubIds : Cancel(id) \/ Receive(id)
    \/ CancelContext

(***************************************************************************)
(* The sampler goroutine is always scheduled, and select does not ignore a *)
(* cancelled context for ever.                                             *)
(***************************************************************************)
CollectorSpec ==
    /\ CollectorInit
    /\ [][CollectorNext]_collectorVars
    /\ WF_collectorVars(Return)
    /\ WF_collectorVars(Sample)

-----------------------------------------------------------------------------
(***************************************************************************)
(* Neither publish nor shutdown nor a cancel can meet a closed channel,    *)
(* which would panic: a registered channel is open, an issued channel is   *)
(* closed exactly when it is no longer registered, and a stopped collector *)
(* has none registered, so that nobody waits on a channel no one will ever *)
(* close (Collector.Subscribe and its stopped branch, its cancel func,     *)
(* shutdown and publish in any order).                                     *)
(***************************************************************************)
OpenIffRegistered ==
    /\ \A id \in SubIds : id < nextSub => (chan[id].closed <=> id \notin subs)
    /\ stopped => subs = {}

(***************************************************************************)
(* A subscription that races the shutdown is not left behind: once the     *)
(* collector stopped, no channel it ever issued is still open, so no       *)
(* reader waits for ever (Subscribe's stopped branch).                     *)
(***************************************************************************)
NoneLeftOpen ==
    stopped => \A id \in SubIds : id < nextSub => chan[id].closed

(***************************************************************************)
(* What waits in a channel is in the order of sampling, without repeats,   *)
(* and never newer than the latest snapshot (publish).                     *)
(***************************************************************************)
InOrder ==
    \A id \in SubIds :
        LET b == chan[id].buf IN
        /\ \A i, j \in 1 .. Len(b) : i < j => b[i] < b[j]
        /\ \A i \in 1 .. Len(b) : b[i] <= latest

(***************************************************************************)
(* Recent returns exactly the newest snapshots, contiguous and oldest      *)
(* first, as many as fit (publish and Recent).                             *)
(***************************************************************************)
RecentIsNewest ==
    /\ ring.count = IF latest < Cap THEN latest ELSE Cap
    /\ Contents(ring) = [i \in 1 .. ring.count |-> latest - ring.count + i]

(***************************************************************************)
(* The collector implements the abstract lossy broadcast.                  *)
(***************************************************************************)
Feed == INSTANCE Broadcast WITH
    Message <- Snapshots, Keep <- Cap, Slack <- SubscriberBuffer,
    Subscriber <- SubIds,
    log <- Contents(ring), box <- [id \in SubIds |-> chan[id].buf], open <- subs

ImplementsBroadcast == Feed!Spec
=============================================================================
