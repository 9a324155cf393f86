----------------------------- MODULE PeerClient -----------------------------
(***************************************************************************)
(* internal/peers: the hub's client.  One goroutine per peer keeps a live  *)
(* stream to it and caches what it says; viewers read the cache and        *)
(* subscribe to the events.  Every step is one critical section of         *)
(* Client.mu, one channel receive, or a move of a peer or of the network.  *)
(*                                                                         *)
(* A snapshot is the number of the sample the peer took; a peer that       *)
(* restarts goes on counting, as its clock does, with an empty ring.       *)
(***************************************************************************)
EXTENDS Ring, FiniteSets

CONSTANTS
    Peers,              \* ids of the configured peers
    Viewers,            \* subscriptions of the hub's own clients, one each at a time
    SubscriberBuffer,   \* subscriberBuffer: capacity of one channel
    BaseBackoff,        \* first reconnect delay
    MaxBackoff,         \* reconnect delay ceiling
    MaxUp               \* bound: samples a peer takes

ASSUME PeerClientAssumption ==
    /\ Zero = 0
    /\ IsFiniteSet(Peers) /\ IsFiniteSet(Viewers)
    /\ SubscriberBuffer \in Nat \ {0}
    /\ BaseBackoff \in Nat \ {0} /\ MaxBackoff \in Nat /\ BaseBackoff <= MaxBackoff
    /\ MaxUp \in Nat

VARIABLES
    conn,       \* conn[p]: where runPeer is for p
    backoff,    \* backoff[p]: the delay the next wait is drawn from
    online,     \* peerState.online
    known,      \* host and intervalMs are cached: a hello was applied
    latest,     \* peerState.latest, 0 for nil; lastSeen is set with it
    ring,       \* peerState.ring, head and count
    chan,       \* chan[v]: the channel v's Subscribe returned
    stopped,    \* shutdown has run
    ctxDone,    \* the hub is shutting down
    reach,      \* reach[p]: p runs and answers (the environment's doing)
    link,       \* link[p]: the stream p's goroutine holds still delivers
    pos,        \* pos[p]: the sample the stream has delivered up to
    up,         \* up[p]: samples p has taken
    boot        \* boot[p]: those of them before its last start

cacheVars == <<online, known, latest, ring>>
peerVars == <<conn, backoff, cacheVars>>
envVars == <<reach, link, pos, up, boot>>
clientVars == <<peerVars, chan, stopped, ctxDone, envVars>>

Samples == 0 .. MaxUp
Events == [id : Peers, kind : {"online", "offline", "snapshot"}, seen : Samples]
ConnStates == {"dialing", "open", "helloed", "live", "mute", "waiting", "exited"}

PeerClientTypeOK ==
    /\ conn \in [Peers -> ConnStates]
    /\ backoff \in [Peers -> BaseBackoff .. MaxBackoff]
    /\ online \in [Peers -> BOOLEAN]
    /\ known \in [Peers -> BOOLEAN]
    /\ latest \in [Peers -> Samples]
    /\ ring \in [Peers -> Rings(Samples)]
    /\ chan \in [Viewers -> [buf : Seq(Events), state : {"none", "open", "closed"}]]
    /\ \A v \in Viewers : Len(chan[v].buf) <= SubscriberBuffer
    /\ stopped \in BOOLEAN /\ ctxDone \in BOOLEAN
    /\ reach \in [Peers -> BOOLEAN] /\ link \in [Peers -> BOOLEAN]
    /\ up \in [Peers -> Samples]
    /\ \A p \in Peers : pos[p] \in 0 .. up[p] /\ boot[p] \in 0 .. up[p]

PeerClientInit ==
    /\ conn = [p \in Peers |-> "dialing"]
    /\ backoff = [p \in Peers |-> BaseBackoff]
    /\ online = [p \in Peers |-> FALSE]
    /\ known = [p \in Peers |-> FALSE]
    /\ latest = [p \in Peers |-> 0]
    /\ ring = [p \in Peers |-> EmptyRing]
    /\ chan = [v \in Viewers |-> [buf |-> <<>>, state |-> "none"]]
    /\ stopped = FALSE /\ ctxDone = FALSE
    /\ reach \in [Peers -> BOOLEAN]
    /\ link = [p \in Peers |-> FALSE]
    /\ up = [p \in Peers |-> 0] /\ boot = [p \in Peers |-> 0]
    /\ pos = [p \in Peers |-> 0]

-----------------------------------------------------------------------------

(***************************************************************************)
(* broadcastLocked: a full channel loses the event.                        *)
(***************************************************************************)
Offer(ch, ev) ==
    IF ch.state = "open" /\ Len(ch.buf) < SubscriberBuffer
    THEN [ch EXCEPT !.buf = Append(@, ev)]
    ELSE ch

Broadcast(ev) == chan' = [v \in Viewers |-> Offer(chan[v], ev)]

(***************************************************************************)
(* setOnline: record the state; only a transition is announced.            *)
(***************************************************************************)
SetOnline(p, to) ==
    /\ online' = [online EXCEPT ![p] = to]
    /\ IF online[p] = to THEN UNCHANGED chan
       ELSE Broadcast([id |-> p, kind |-> IF to THEN "online" ELSE "offline",
                       seen |-> latest[p]])

(* Mutant: an open stream counts as online. *)
ConnectOnline(p) ==
    /\ conn[p] = "dialing"
    /\ reach[p]
    /\ ~ctxDone
    /\ conn' = [conn EXCEPT ![p] = "open"]
    /\ link' = [link EXCEPT ![p] = TRUE]
    /\ pos' = [pos EXCEPT ![p] = up[p]]
    /\ SetOnline(p, TRUE)
    /\ UNCHANGED <<backoff, known, latest, ring, stopped, ctxDone, reach, up, boot>>

(***************************************************************************)
(* stream, up to the response: a 200 with an event stream opens it.  The   *)
(* peer's handler has subscribed by then: it will deliver what is sampled  *)
(* from here on.                                                           *)
(***************************************************************************)
Connect(p) ==
    /\ conn[p] = "dialing"
    /\ reach[p]
    /\ ~ctxDone
    /\ conn' = [conn EXCEPT ![p] = "open"]
    /\ link' = [link EXCEPT ![p] = TRUE]
    /\ pos' = [pos EXCEPT ![p] = up[p]]
    /\ UNCHANGED <<backoff, cacheVars, chan, stopped, ctxDone, reach, up, boot>>

(***************************************************************************)
(* What a peer sends first: its own ring, the newest Cap samples since it  *)
(* started, among them perhaps some its channel will deliver again.        *)
(***************************************************************************)
HelloRecent(p) ==
    LET n == IF up[p] - boot[p] < Cap THEN up[p] - boot[p] ELSE Cap
    IN [i \in 1 .. n |-> up[p] - n + i]

(* Mutant: the hello is added to what is cached. *)
ApplyHelloAppending(p) ==
    /\ conn[p] = "open" /\ link[p]
    /\ known' = [known EXCEPT ![p] = TRUE]
    /\ ring' = [ring EXCEPT ![p] = Seed(@, Contents(@) \o HelloRecent(p))]
    /\ latest' = [latest EXCEPT ![p] = IF HelloRecent(p) = <<>> THEN @ ELSE up[p]]
    /\ conn' = [conn EXCEPT ![p] = "helloed"]
    /\ UNCHANGED <<backoff, online, chan, stopped, ctxDone, envVars>>

(***************************************************************************)
(* dispatch of a hello, first half: applyHello.                            *)
(***************************************************************************)
ApplyHello(p) ==
    /\ conn[p] = "open" /\ link[p]
    /\ known' = [known EXCEPT ![p] = TRUE]
    /\ ring' = [ring EXCEPT ![p] = Seed(@, HelloRecent(p))]
    /\ latest' = [latest EXCEPT ![p] = IF HelloRecent(p) = <<>> THEN @ ELSE up[p]]
    /\ conn' = [conn EXCEPT ![p] = "helloed"]
    /\ UNCHANGED <<backoff, online, chan, stopped, ctxDone, envVars>>

(***************************************************************************)
(* A hello that cannot be decoded is skipped and the stream goes on.       *)
(***************************************************************************)
SkipHello(p) ==
    /\ conn[p] = "open" /\ link[p]
    /\ conn' = [conn EXCEPT ![p] = "mute"]
    /\ UNCHANGED <<backoff, cacheVars, chan, stopped, ctxDone, envVars>>

(***************************************************************************)
(* Second half: only a decoded hello makes the peer online.                *)
(***************************************************************************)
AnnounceOnline(p) ==
    /\ conn[p] = "helloed"
    /\ SetOnline(p, TRUE)
    /\ conn' = [conn EXCEPT ![p] = "live"]
    /\ UNCHANGED <<backoff, known, latest, ring, stopped, ctxDone, envVars>>

(***************************************************************************)
(* applySnapshot: cache and broadcast one snapshot the stream delivers; it *)
(* may have skipped some that the peer's channel was too full for.  After  *)
(* a skipped hello snapshots are applied all the same.                     *)
(***************************************************************************)
ApplySnapshot(p) ==
    /\ conn[p] \in {"live", "mute"} /\ link[p]
    /\ \E s \in pos[p] + 1 .. up[p] :
          /\ pos' = [pos EXCEPT ![p] = s]
          /\ latest' = [latest EXCEPT ![p] = s]
          /\ ring' = [ring EXCEPT ![p] = Push(@, s)]
          /\ Broadcast([id |-> p, kind |-> "snapshot", seen |-> s])
    /\ UNCHANGED <<conn, backoff, online, known, stopped, ctxDone, reach, link, up, boot>>

(***************************************************************************)
(* runPeer after stream returned: mark the peer offline, leave if ctx is   *)
(* done, otherwise wait, with a fresh backoff if a connection was had.     *)
(***************************************************************************)
AfterStream(p) ==
    /\ SetOnline(p, FALSE)
    /\ backoff' = [backoff EXCEPT ![p] =
                     IF conn[p] = "dialing" THEN @ ELSE BaseBackoff]
    /\ conn' = [conn EXCEPT ![p] = IF ctxDone THEN "exited" ELSE "waiting"]
    /\ link' = [link EXCEPT ![p] = FALSE]
    /\ UNCHANGED <<known, latest, ring, stopped, ctxDone, reach, pos, up, boot>>

(***************************************************************************)
(* stream returns because the dial failed, the connection broke, or ctx    *)
(* ended.                                                                  *)
(***************************************************************************)
StreamReturns(p) ==
    /\ \/ conn[p] = "dialing" /\ (~reach[p] \/ ctxDone)
       \/ conn[p] \in {"open", "live", "mute"} /\ (~link[p] \/ ctxDone)
    /\ AfterStream(p)

(***************************************************************************)
(* stream ends a connection that is fine: an event is over maxEventBytes   *)
(* (a hello may be, which then is as long after the redial), or the peer   *)
(* was silent for stallTimeout.                                            *)
(***************************************************************************)
StreamCut(p) ==
    /\ conn[p] \in {"open", "live", "mute"} /\ link[p] /\ ~ctxDone
    /\ AfterStream(p)

(* Mutant: a peer that stays away is given up. *)
RedialGivesUp(p) ==
    /\ conn[p] = "waiting"
    /\ IF ctxDone \/ backoff[p] = MaxBackoff
       THEN conn' = [conn EXCEPT ![p] = "exited"] /\ UNCHANGED backoff
       ELSE /\ conn' = [conn EXCEPT ![p] = "dialing"]
            /\ backoff' = [backoff EXCEPT ![p] =
                             IF 2 * @ > MaxBackoff THEN MaxBackoff ELSE 2 * @]
    /\ UNCHANGED <<cacheVars, chan, stopped, ctxDone, envVars>>

(***************************************************************************)
(* The wait ends: with ctx, or by the timer, and the next one will be      *)
(* twice as long up to the ceiling.                                        *)
(***************************************************************************)
Redial(p) ==
    /\ conn[p] = "waiting"
    /\ IF ctxDone
       THEN conn' = [conn EXCEPT ![p] = "exited"] /\ UNCHANGED backoff
       ELSE /\ conn' = [conn EXCEPT ![p] = "dialing"]
            /\ backoff' = [backoff EXCEPT ![p] =
                             IF 2 * @ > MaxBackoff THEN MaxBackoff ELSE 2 * @]
    /\ UNCHANGED <<cacheVars, chan, stopped, ctxDone, envVars>>

(***************************************************************************)
(* Run returns once every peer goroutine has; shutdown closes the channels.*)
(***************************************************************************)
Shutdown ==
    /\ ~stopped /\ ctxDone
    /\ \A p \in Peers : conn[p] = "exited"
    /\ stopped' = TRUE
    /\ chan' = [v \in Viewers |->
                  IF chan[v].state = "open" THEN [chan[v] EXCEPT !.state = "closed"]
                  ELSE chan[v]]
    /\ UNCHANGED <<peerVars, ctxDone, envVars>>

(* Mutant: a stopped client hands out an open channel. *)
SubscribedRegardless(v) ==
    [chan EXCEPT ![v] = [buf |-> <<>>, state |-> "open"]]

(***************************************************************************)
(* Subscribe, its cancel func, and a receive: what each does to the        *)
(* channel, for the steps of a viewer.                                     *)
(***************************************************************************)
Subscribed(v) == [chan EXCEPT ![v] =
    [buf |-> <<>>, state |-> IF stopped THEN "closed" ELSE "open"]]
Cancelled(v) == [chan EXCEPT ![v] = [buf |-> <<>>, state |-> "none"]]
Received(v) == [chan EXCEPT ![v].buf = Tail(@)]

(***************************************************************************)
(* A viewer of which nothing more is known.                                *)
(***************************************************************************)
Viewing(v) ==
    /\ \/ chan[v].state = "none" /\ chan' = Subscribed(v)
       \/ chan[v].state # "none" /\ chan' = Cancelled(v)
       \/ chan[v].buf # <<>> /\ chan' = Received(v)
    /\ UNCHANGED <<peerVars, stopped, ctxDone, envVars>>

(***************************************************************************)
(* The environment: a peer samples; it or the way to it goes down, which   *)
(* breaks its stream, with or without a restart; it comes back; the hub is *)
(* told to stop.                                                           *)
(***************************************************************************)
PeerSamples(p) ==
    /\ up[p] < MaxUp
    /\ up' = [up EXCEPT ![p] = @ + 1]
    /\ UNCHANGED <<peerVars, chan, stopped, ctxDone, reach, link, pos, boot>>

PeerGoes(p, restarts) ==
    /\ reach[p]
    /\ reach' = [reach EXCEPT ![p] = FALSE]
    /\ link' = [link EXCEPT ![p] = FALSE]
    /\ boot' = [boot EXCEPT ![p] = IF restarts THEN up[p] ELSE @]
    /\ UNCHANGED <<peerVars, chan, stopped, ctxDone, pos, up>>

PeerComes(p) ==
    /\ ~reach[p]
    /\ reach' = [reach EXCEPT ![p] = TRUE]
    /\ UNCHANGED <<peerVars, chan, stopped, ctxDone, link, pos, up, boot>>

CancelContext ==
    /\ ~ctxDone
    /\ ctxDone' = TRUE
    /\ UNCHANGED <<peerVars, chan, stopped, envVars>>

RunPeer(p) ==
    \/ Connect(p)
    \/ ApplyHello(p)
    \/ SkipHello(p)
    \/ AnnounceOnline(p)
    \/ StreamReturns(p)
    \/ Redial(p)

ClientNext ==
    \/ \E p \in Peers : RunPeer(p) \/ ApplySnapshot(p) \/ StreamCut(p)
    \/ Shutdown

EnvNext ==
    \/ \E p \in Peers :
          \/ PeerSamples(p)
          \/ \E restarts \in BOOLEAN : PeerGoes(p, restarts)
          \/ PeerComes(p)
    \/ CancelContext

PeersNext ==
    \/ ClientNext
    \/ EnvNext
    \/ \E v \in Viewers : Viewing(v)

(***************************************************************************)
(* Goroutines are scheduled and timers fire: each peer's goroutine moves,  *)
(* Run returns.  Nothing is assumed of peers, network and viewers.         *)
(***************************************************************************)
PeersSpec ==
    /\ PeerClientInit
    /\ [][PeersNext]_clientVars
    /\ \A p \in Peers : WF_clientVars(RunPeer(p))
    /\ WF_clientVars(Shutdown)

-----------------------------------------------------------------------------
(***************************************************************************)
(* A peer counts as online only between a decoded hello and the end of     *)
(* that stream, and its host and interval are cached before: whoever sees  *)
(* it online can build a hello (dispatch, runPeer).  Two comments still    *)
(* say that the 200 announces it, client.go:326 and sse.go:57; the one in  *)
(* dispatch, and the code, say that only the hello does.                   *)
(***************************************************************************)
OnlineMeansStreaming ==
    \A p \in Peers : online[p] => conn[p] = "live" /\ known[p]

(***************************************************************************)
(* The cached ring of a peer ends in its latest snapshot and has at most   *)
(* one seam: a place where the time does not advance, because the stream   *)
(* delivered again what the hello held.  It is never two histories mixed,  *)
(* over reconnects, restarts of the peer, skipped hellos and lost          *)
(* snapshots (applyHello, seedRing, applySnapshot).                        *)
(***************************************************************************)
OneSeam ==
    \A p \in Peers :
        LET c == Contents(ring[p]) IN
        /\ c # <<>> => c[Len(c)] = latest[p]
        /\ Cardinality({i \in 1 .. Len(c) - 1 : c[i] >= c[i + 1]}) <= 1

(***************************************************************************)
(* A peer that stays reachable, and whose stream is not cut any more for   *)
(* an event too long or too late, is streamed again: no number of          *)
(* failures, cuts or restarts ends the reconnecting (runPeer).             *)
(***************************************************************************)
PeersComeBack ==
    \A p \in Peers :
        <>[](reach[p] /\ ~ctxDone) /\ <>[][~StreamCut(p)]_clientVars
            => <>[](conn[p] \in {"live", "mute"})

(***************************************************************************)
(* Once the hub is told to stop, every viewer's channel ends, also one     *)
(* subscribed in the meantime: no handler waits on a dead client (Run,     *)
(* shutdown, Subscribe).                                                   *)
(***************************************************************************)
ViewersAreReleased ==
    ctxDone ~> [](\A v \in Viewers : chan[v].state # "open")
=============================================================================
