----------------------------- MODULE PeerProofs -----------------------------
(***************************************************************************)
(* The hub's client for any number of peers and viewers, any size of the   *)
(* cached rings and of the channels; then what the hub shows of its peers, *)
(* through handlers that are such viewers.                                 *)
(***************************************************************************)
EXTENDS HubLive, RingProofs, FiniteSetTheorems

(* A step of each kind, by name: the cases of the proofs below. *)
LEMMA StepCases ==
    ASSUME [PeersNext]_clientVars
    PROVE  \/ \E p \in Peers : Connect(p)
           \/ \E p \in Peers : ApplyHello(p)
           \/ \E p \in Peers : SkipHello(p)
           \/ \E p \in Peers : AnnounceOnline(p)
           \/ \E p \in Peers : StreamReturns(p) \/ StreamCut(p)
           \/ \E p \in Peers : Redial(p)
           \/ \E p \in Peers : ApplySnapshot(p)
           \/ Shutdown
           \/ \E p \in Peers : PeerSamples(p)
           \/ \E p \in Peers, restarts \in BOOLEAN : PeerGoes(p, restarts)
           \/ \E p \in Peers : PeerComes(p)
           \/ CancelContext
           \/ \E v \in Viewers : Viewing(v)
           \/ UNCHANGED clientVars
  BY DEF PeersNext, ClientNext, RunPeer, EnvNext

-----------------------------------------------------------------------------
(* Types: what is kept of each peer, then the channels. *)

ConnTypeOK ==
    /\ conn \in [Peers -> ConnStates]
    /\ backoff \in [Peers -> BaseBackoff .. MaxBackoff]
    /\ online \in [Peers -> BOOLEAN] /\ known \in [Peers -> BOOLEAN]
    /\ reach \in [Peers -> BOOLEAN] /\ link \in [Peers -> BOOLEAN]
    /\ stopped \in BOOLEAN /\ ctxDone \in BOOLEAN

CacheTypeOK ==
    /\ latest \in [Peers -> Samples]
    /\ ring \in [Peers -> Rings(Samples)]
    /\ up \in [Peers -> Samples]
    /\ \A p \in Peers : pos[p] \in 0 .. up[p] /\ boot[p] \in 0 .. up[p]

ChanTypeOK ==
    /\ chan \in [Viewers -> [buf : Seq(Events), state : {"none", "open", "closed"}]]
    /\ \A v \in Viewers : Len(chan[v].buf) <= SubscriberBuffer

(* Positions are functions, which the bounds of their values do not say. *)
Positions == pos \in [Peers -> Samples] /\ boot \in [Peers -> Samples]

LEMMA TypesTogether == PeerClientTypeOK <=> ConnTypeOK /\ CacheTypeOK /\ ChanTypeOK
  BY DEF PeerClientTypeOK, ConnTypeOK, CacheTypeOK, ChanTypeOK

LEMMA BackoffType ==
    /\ BaseBackoff \in BaseBackoff .. MaxBackoff
    /\ \A b \in BaseBackoff .. MaxBackoff :
          (IF 2 * b > MaxBackoff THEN MaxBackoff ELSE 2 * b) \in BaseBackoff .. MaxBackoff
  BY PeerClientAssumption

LEMMA ConnStep ==
    ASSUME ConnTypeOK, [PeersNext]_clientVars
    PROVE  ConnTypeOK'
<1> USE DEF ConnTypeOK, ConnStates, cacheVars, peerVars, envVars
<1>1. ASSUME NEW p \in Peers, Connect(p)  PROVE ConnTypeOK'
  BY <1>1 DEF Connect
<1>2. ASSUME NEW p \in Peers, ApplyHello(p)  PROVE ConnTypeOK'
  BY <1>2 DEF ApplyHello
<1>3. ASSUME NEW p \in Peers, SkipHello(p)  PROVE ConnTypeOK'
  BY <1>3 DEF SkipHello
<1>4. ASSUME NEW p \in Peers, AnnounceOnline(p)  PROVE ConnTypeOK'
  BY <1>4 DEF AnnounceOnline, SetOnline
<1>5. ASSUME NEW p \in Peers, StreamReturns(p) \/ StreamCut(p)  PROVE ConnTypeOK'
  BY <1>5, BackoffType DEF StreamReturns, StreamCut, AfterStream, SetOnline
<1>6. ASSUME NEW p \in Peers, Redial(p)  PROVE ConnTypeOK'
  BY <1>6, BackoffType DEF Redial
<1>7. ASSUME NEW p \in Peers, ApplySnapshot(p)  PROVE ConnTypeOK'
  BY <1>7 DEF ApplySnapshot
<1>8. CASE Shutdown  BY <1>8 DEF Shutdown
<1>9. ASSUME NEW p \in Peers, PeerSamples(p)  PROVE ConnTypeOK'
  BY <1>9 DEF PeerSamples
<1>10. ASSUME NEW p \in Peers, NEW restarts \in BOOLEAN, PeerGoes(p, restarts)
       PROVE  ConnTypeOK'
  BY <1>10 DEF PeerGoes
<1>11. ASSUME NEW p \in Peers, PeerComes(p)  PROVE ConnTypeOK'
  BY <1>11 DEF PeerComes
<1>12. CASE CancelContext  BY <1>12 DEF CancelContext
<1>13. ASSUME NEW v \in Viewers, Viewing(v)  PROVE ConnTypeOK'
  BY <1>13 DEF Viewing
<1>14. CASE UNCHANGED clientVars  BY <1>14 DEF clientVars
<1> QED
  BY StepCases, <1>1, <1>2, <1>3, <1>4, <1>5, <1>6, <1>7, <1>8, <1>9, <1>10, <1>11, <1>12, <1>13, <1>14

(* A peer's hello: ascending, of what it took since it started. *)
LEMMA HelloIsAscending ==
    ASSUME CacheTypeOK, NEW p \in Peers
    PROVE  /\ HelloRecent(p) \in Seq(Samples)
           /\ Len(HelloRecent(p)) <= Cap
           /\ Newest(HelloRecent(p), Cap) = HelloRecent(p)
           /\ \A i \in 1 .. Len(HelloRecent(p)) :
                 HelloRecent(p)[i] = up[p] - Len(HelloRecent(p)) + i
<1> DEFINE n == IF up[p] - boot[p] < Cap THEN up[p] - boot[p] ELSE Cap
<1>1. /\ up[p] \in 0 .. MaxUp /\ boot[p] \in 0 .. up[p] /\ MaxUp \in Nat /\ Cap \in Nat
      /\ n \in 0 .. Cap /\ n <= up[p]
  BY CapAssumption, PeerClientAssumption DEF CacheTypeOK, Samples
<1> HIDE DEF n
<1>2. HelloRecent(p) = [i \in 1 .. n |-> up[p] - n + i]
  BY DEF HelloRecent, n
<1>3. \A i \in 1 .. n : up[p] - n + i \in Samples
  BY <1>1 DEF Samples
<1>4. HelloRecent(p) \in Seq(Samples) /\ Len(HelloRecent(p)) = n
  BY <1>1, <1>2, <1>3
<1> QED  BY <1>1, <1>2, <1>4 DEF Newest

LEMMA CacheStep ==
    ASSUME CacheTypeOK, Positions, [PeersNext]_clientVars
    PROVE  CacheTypeOK' /\ Positions'
<1> DEFINE Good == CacheTypeOK' /\ Positions'
<1>0. ASSUME UNCHANGED <<latest, ring, pos, up, boot>>  PROVE Good
  BY <1>0 DEF CacheTypeOK, Positions
<1> USE DEF cacheVars, peerVars, envVars
<1>1. ASSUME NEW p \in Peers, Connect(p)  PROVE Good
  <2>1. up[p] \in Samples /\ up[p] \in 0 .. up[p]
    BY DEF CacheTypeOK, Samples
  <2> QED  BY <1>1, <2>1 DEF Connect, CacheTypeOK, Positions
<1>2. ASSUME NEW p \in Peers, ApplyHello(p)  PROVE Good
  <2>1. Seed(ring[p], HelloRecent(p)) \in Rings(Samples)
    BY HelloIsAscending, SeedType DEF CacheTypeOK
  <2> HIDE DEF cacheVars, peerVars
  <2>2. /\ ring' = [ring EXCEPT ![p] = Seed(ring[p], HelloRecent(p))]
        /\ latest' = [latest EXCEPT ![p] = IF HelloRecent(p) = <<>> THEN latest[p] ELSE up[p]]
        /\ UNCHANGED <<pos, up, boot>>
    BY <1>2 DEF ApplyHello
  <2> QED  BY <2>1, <2>2 DEF CacheTypeOK, Positions
<1>3. ASSUME NEW p \in Peers, SkipHello(p)  PROVE Good
  BY <1>0, <1>3 DEF SkipHello
<1>4. ASSUME NEW p \in Peers, AnnounceOnline(p)  PROVE Good
  BY <1>0, <1>4 DEF AnnounceOnline
<1>5. ASSUME NEW p \in Peers, StreamReturns(p) \/ StreamCut(p)  PROVE Good
  BY <1>0, <1>5 DEF StreamReturns, StreamCut, AfterStream
<1>6. ASSUME NEW p \in Peers, Redial(p)  PROVE Good
  BY <1>0, <1>6 DEF Redial
<1>7. ASSUME NEW p \in Peers, ApplySnapshot(p)  PROVE Good
  <2>1. PICK s \in pos[p] + 1 .. up[p] :
            /\ pos' = [pos EXCEPT ![p] = s]
            /\ latest' = [latest EXCEPT ![p] = s]
            /\ ring' = [ring EXCEPT ![p] = Push(ring[p], s)]
    BY <1>7 DEF ApplySnapshot
  <2>2. s \in Samples /\ s \in 0 .. up[p]
    BY <2>1, PeerClientAssumption DEF CacheTypeOK, Samples
  <2>3. Push(ring[p], s) \in Rings(Samples)
    BY <2>2, PushType DEF CacheTypeOK
  <2>4. UNCHANGED <<up, boot>>
    BY <1>7 DEF ApplySnapshot
  <2> QED  BY <2>1, <2>2, <2>3, <2>4 DEF CacheTypeOK, Positions
<1>8. CASE Shutdown  BY <1>0, <1>8 DEF Shutdown
<1>9. ASSUME NEW p \in Peers, PeerSamples(p)  PROVE Good
  <2>1. up[p] + 1 \in Samples /\ \A x \in 0 .. up[p] : x \in 0 .. up[p] + 1
    BY <1>9, PeerClientAssumption DEF PeerSamples, CacheTypeOK, Samples
  <2> QED  BY <1>9, <2>1 DEF PeerSamples, CacheTypeOK, Positions
<1>10. ASSUME NEW p \in Peers, NEW restarts \in BOOLEAN, PeerGoes(p, restarts)
       PROVE  Good
  <2>1. up[p] \in Samples /\ up[p] \in 0 .. up[p]
    BY DEF CacheTypeOK, Samples
  <2> QED  BY <1>10, <2>1 DEF PeerGoes, CacheTypeOK, Positions
<1>11. ASSUME NEW p \in Peers, PeerComes(p)  PROVE Good
  BY <1>0, <1>11 DEF PeerComes
<1>12. CASE CancelContext  BY <1>0, <1>12 DEF CancelContext
<1>13. ASSUME NEW v \in Viewers, Viewing(v)  PROVE Good
  BY <1>0, <1>13 DEF Viewing
<1>14. CASE UNCHANGED clientVars  BY <1>0, <1>14 DEF clientVars
<1> HIDE DEF Good
<1> QED
  BY StepCases, <1>1, <1>2, <1>3, <1>4, <1>5, <1>6, <1>7, <1>8, <1>9, <1>10, <1>11, <1>12, <1>13, <1>14 DEF Good

LEMMA OfferType ==
    ASSUME NEW ch \in [buf : Seq(Events), state : {"none", "open", "closed"}],
           Len(ch.buf) <= SubscriberBuffer, NEW ev \in Events
    PROVE  /\ Offer(ch, ev) \in [buf : Seq(Events), state : {"none", "open", "closed"}]
           /\ Len(Offer(ch, ev).buf) <= SubscriberBuffer
<1>1. CASE ch.state = "open" /\ Len(ch.buf) < SubscriberBuffer
  <2>1. /\ Append(ch.buf, ev) \in Seq(Events)
        /\ Len(Append(ch.buf, ev)) = Len(ch.buf) + 1 /\ Len(ch.buf) \in Nat
    OBVIOUS
  <2> QED  BY <1>1, <2>1, PeerClientAssumption DEF Offer
<1>2. CASE ~(ch.state = "open" /\ Len(ch.buf) < SubscriberBuffer)
  BY <1>2 DEF Offer
<1> QED  BY <1>1, <1>2

LEMMA BroadcastType ==
    ASSUME ChanTypeOK, NEW ev \in Events, Broadcast(ev)
    PROVE  ChanTypeOK'
  BY OfferType DEF ChanTypeOK, Broadcast

LEMMA SetOnlineType ==
    ASSUME ChanTypeOK, CacheTypeOK, NEW p \in Peers, NEW to \in BOOLEAN, SetOnline(p, to)
    PROVE  ChanTypeOK'
<1> DEFINE ev == [id |-> p, kind |-> IF to THEN "online" ELSE "offline", seen |-> latest[p]]
<1>1. ev \in Events
  BY DEF Events, CacheTypeOK
<1>2. UNCHANGED chan \/ Broadcast(ev)
  BY DEF SetOnline
<1>3. CASE UNCHANGED chan  BY <1>3 DEF ChanTypeOK
<1> QED  BY <1>1, <1>2, <1>3, BroadcastType

LEMMA ChanStep ==
    ASSUME ChanTypeOK, CacheTypeOK, [PeersNext]_clientVars
    PROVE  ChanTypeOK'
<1>0. ASSUME UNCHANGED chan  PROVE ChanTypeOK'
  BY <1>0 DEF ChanTypeOK
<1>1. ASSUME NEW p \in Peers, Connect(p)  PROVE ChanTypeOK'
  BY <1>0, <1>1 DEF Connect
<1>2. ASSUME NEW p \in Peers, ApplyHello(p)  PROVE ChanTypeOK'
  BY <1>0, <1>2 DEF ApplyHello
<1>3. ASSUME NEW p \in Peers, SkipHello(p)  PROVE ChanTypeOK'
  BY <1>0, <1>3 DEF SkipHello
<1>4. ASSUME NEW p \in Peers, AnnounceOnline(p)  PROVE ChanTypeOK'
  BY <1>4, SetOnlineType DEF AnnounceOnline
<1>5. ASSUME NEW p \in Peers, StreamReturns(p) \/ StreamCut(p)  PROVE ChanTypeOK'
  BY <1>5, SetOnlineType DEF StreamReturns, StreamCut, AfterStream
<1>6. ASSUME NEW p \in Peers, Redial(p)  PROVE ChanTypeOK'
  BY <1>0, <1>6 DEF Redial
<1>7. ASSUME NEW p \in Peers, ApplySnapshot(p)  PROVE ChanTypeOK'
  <2>1. PICK s \in pos[p] + 1 .. up[p] :
            Broadcast([id |-> p, kind |-> "snapshot", seen |-> s])
    BY <1>7 DEF ApplySnapshot
  <2>2. s \in Samples
    BY <2>1, PeerClientAssumption DEF CacheTypeOK, Samples
  <2>3. [id |-> p, kind |-> "snapshot", seen |-> s] \in Events
    BY <2>2 DEF Events
  <2> QED  BY <2>1, <2>3, BroadcastType
<1>8. CASE Shutdown
  <2>1. chan' = [v \in Viewers |->
                    IF chan[v].state = "open" THEN [chan[v] EXCEPT !.state = "closed"]
                    ELSE chan[v]]
    BY <1>8 DEF Shutdown
  <2> QED  BY <2>1 DEF ChanTypeOK
<1>9. ASSUME NEW p \in Peers, PeerSamples(p)  PROVE ChanTypeOK'
  BY <1>0, <1>9 DEF PeerSamples
<1>10. ASSUME NEW p \in Peers, NEW restarts \in BOOLEAN, PeerGoes(p, restarts)
       PROVE  ChanTypeOK'
  BY <1>0, <1>10 DEF PeerGoes
<1>11. ASSUME NEW p \in Peers, PeerComes(p)  PROVE ChanTypeOK'
  BY <1>0, <1>11 DEF PeerComes
<1>12. CASE CancelContext  BY <1>0, <1>12 DEF CancelContext
<1>13. ASSUME NEW v \in Viewers, Viewing(v)  PROVE ChanTypeOK'
  <2>1. chan[v].buf \in Seq(Events) /\ Len(chan[v].buf) <= SubscriberBuffer
    BY DEF ChanTypeOK
  <2>2. CASE chan' = Subscribed(v) \/ chan' = Cancelled(v)
    <3>1. PICK state \in {"none", "open", "closed"} :
              chan' = [chan EXCEPT ![v] = [buf |-> <<>>, state |-> state]]
      BY <2>2 DEF Subscribed, Cancelled
    <3> DEFINE new == [buf |-> <<>>, state |-> state]
    <3>2. <<>> \in Seq(Events) /\ Len(<<>>) = 0 /\ new.buf = <<>>
      OBVIOUS
    <3>3. /\ new \in [buf : Seq(Events), state : {"none", "open", "closed"}]
          /\ Len(new.buf) <= SubscriberBuffer
      BY <3>2, PeerClientAssumption
    <3> HIDE DEF new
    <3> QED  BY <3>1, <3>3 DEF ChanTypeOK, new
  <2>3. CASE chan[v].buf # <<>> /\ chan' = Received(v)
    <3>1. Tail(chan[v].buf) \in Seq(Events) /\ Len(Tail(chan[v].buf)) <= SubscriberBuffer
      BY <2>1, <2>3, PeerClientAssumption
    <3> QED  BY <2>3, <3>1 DEF Received, ChanTypeOK
  <2> QED  BY <1>13, <2>2, <2>3 DEF Viewing
<1>14. CASE UNCHANGED clientVars  BY <1>0, <1>14 DEF clientVars
<1> QED
  BY StepCases, <1>1, <1>2, <1>3, <1>4, <1>5, <1>6, <1>7, <1>8, <1>9, <1>10, <1>11, <1>12, <1>13, <1>14

LEMMA TypesAtFirst == PeerClientInit => ConnTypeOK /\ CacheTypeOK /\ Positions /\ ChanTypeOK
<1> SUFFICES ASSUME PeerClientInit
             PROVE  ConnTypeOK /\ CacheTypeOK /\ Positions /\ ChanTypeOK
  OBVIOUS
<1>1. ConnTypeOK
  BY BackoffType DEF PeerClientInit, ConnTypeOK, ConnStates
<1>2. 0 \in Samples /\ 0 \in 0 .. 0
  BY PeerClientAssumption DEF Samples
<1>3. EmptyRing \in Rings(Samples)
  BY <1>2, CapAssumption, PeerClientAssumption DEF EmptyRing, Rings, Slots
<1>4. CacheTypeOK /\ Positions
  BY <1>2, <1>3 DEF PeerClientInit, CacheTypeOK, Positions
<1>5. <<>> \in Seq(Events) /\ Len(<<>>) = 0
  OBVIOUS
<1>6. ChanTypeOK
  BY <1>5, PeerClientAssumption DEF PeerClientInit, ChanTypeOK
<1> QED  BY <1>1, <1>4, <1>6

Types == ConnTypeOK /\ CacheTypeOK /\ Positions /\ ChanTypeOK

LEMMA TypesHold == PeersSpec => []Types
<1>1. PeerClientInit => Types
  BY TypesAtFirst DEF Types
<1>2. Types /\ [PeersNext]_clientVars => Types'
  BY ConnStep, CacheStep, ChanStep DEF Types
<1> QED  BY <1>1, <1>2, PTL DEF PeersSpec

(***************************************************************************)
(* The client's state keeps its type, and no viewer's channel holds more   *)
(* than its capacity, for any number of peers and viewers (Client).        *)
(***************************************************************************)
THEOREM TypeCorrect == PeersSpec => []PeerClientTypeOK
<1>1. Types => PeerClientTypeOK
  BY TypesTogether DEF Types
<1> QED  BY <1>1, TypesHold, PTL

-----------------------------------------------------------------------------
(* Online means streaming. *)

(* A hello that was applied left host and interval in the cache. *)
HelloedIsKnown == \A p \in Peers : conn[p] = "helloed" => known[p]

LEMMA OnlineStep ==
    ASSUME ConnTypeOK, HelloedIsKnown, OnlineMeansStreaming, [PeersNext]_clientVars
    PROVE  HelloedIsKnown' /\ OnlineMeansStreaming'
<1> DEFINE Good == HelloedIsKnown' /\ OnlineMeansStreaming'
<1> USE DEF cacheVars, peerVars, envVars
<1>0. ASSUME UNCHANGED <<conn, known, online>>  PROVE Good
  BY <1>0 DEF HelloedIsKnown, OnlineMeansStreaming
<1> USE DEF ConnTypeOK, HelloedIsKnown, OnlineMeansStreaming
<1>1. ASSUME NEW p \in Peers, Connect(p)  PROVE Good
  BY <1>1 DEF Connect
<1>2. ASSUME NEW p \in Peers, ApplyHello(p)  PROVE Good
  BY <1>2 DEF ApplyHello
<1>3. ASSUME NEW p \in Peers, SkipHello(p)  PROVE Good
  BY <1>3 DEF SkipHello
<1>4. ASSUME NEW p \in Peers, AnnounceOnline(p)  PROVE Good
  BY <1>4 DEF AnnounceOnline, SetOnline
<1>5. ASSUME NEW p \in Peers, StreamReturns(p) \/ StreamCut(p)  PROVE Good
  BY <1>5 DEF StreamReturns, StreamCut, AfterStream, SetOnline
<1>6. ASSUME NEW p \in Peers, Redial(p)  PROVE Good
  BY <1>6 DEF Redial
<1>7. ASSUME NEW p \in Peers, ApplySnapshot(p)  PROVE Good
  BY <1>7 DEF ApplySnapshot
<1>8. CASE Shutdown  BY <1>0, <1>8 DEF Shutdown
<1>9. ASSUME NEW p \in Peers, PeerSamples(p)  PROVE Good
  BY <1>0, <1>9 DEF PeerSamples
<1>10. ASSUME NEW p \in Peers, NEW restarts \in BOOLEAN, PeerGoes(p, restarts)
       PROVE  Good
  BY <1>0, <1>10 DEF PeerGoes
<1>11. ASSUME NEW p \in Peers, PeerComes(p)  PROVE Good
  BY <1>0, <1>11 DEF PeerComes
<1>12. CASE CancelContext  BY <1>0, <1>12 DEF CancelContext
<1>13. ASSUME NEW v \in Viewers, Viewing(v)  PROVE Good
  BY <1>0, <1>13 DEF Viewing
<1>14. CASE UNCHANGED clientVars  BY <1>0, <1>14 DEF clientVars
<1> HIDE DEF Good
<1> QED
  BY StepCases, <1>1, <1>2, <1>3, <1>4, <1>5, <1>6, <1>7, <1>8, <1>9, <1>10, <1>11, <1>12, <1>13, <1>14 DEF Good

(***************************************************************************)
(* Whoever sees a peer online finds host and interval in the cache and a   *)
(* stream that said hello, for any number of peers (dispatch, runPeer).    *)
(***************************************************************************)
THEOREM OnlineIsStreaming == PeersSpec => []OnlineMeansStreaming
<1>1. PeerClientInit => HelloedIsKnown /\ OnlineMeansStreaming
  BY DEF PeerClientInit, HelloedIsKnown, OnlineMeansStreaming
<1>2. /\ Types /\ HelloedIsKnown /\ OnlineMeansStreaming /\ [PeersNext]_clientVars
      => (HelloedIsKnown /\ OnlineMeansStreaming)'
  BY OnlineStep DEF Types
<1> QED  BY <1>1, <1>2, TypesHold, PTL DEF PeersSpec

-----------------------------------------------------------------------------
(***************************************************************************)
(* One seam.  A cached ring climbs everywhere but at one place at most,    *)
(* and once it has a seam, what the stream delivers next is newer than all *)
(* of it: the next place can only climb.                                   *)
(***************************************************************************)
Climbs(c, k) == \A i \in 1 .. Len(c) - 1 : i # k => c[i] < c[i + 1]

OneHistory(p) ==
    LET c == Contents(ring[p]) IN
    /\ latest[p] <= up[p]
    /\ c # <<>> => c[Len(c)] = latest[p]
    /\ \E k \in Nat : Climbs(c, k) /\ (k # 0 => latest[p] <= pos[p])

Histories == \A p \in Peers : OneHistory(p)

(* Cutting off the oldest moves the seam, or loses it. *)
LEMMA NewestClimbs ==
    ASSUME NEW c \in Seq(Nat), c # <<>>, NEW k \in Nat, Climbs(c, k), NEW n \in Nat \ {0}
    PROVE  LET d == Newest(c, n) IN
           /\ d # <<>> /\ d[Len(d)] = c[Len(c)]
           /\ \E j \in Nat : Climbs(d, j) /\ (k = 0 => j = 0)
<1> DEFINE d == Newest(c, n)
<1>1. Len(c) \in Nat \ {0}
  OBVIOUS
<1>2. CASE Len(c) <= n
  BY <1>1, <1>2 DEF Newest
<1>3. CASE ~(Len(c) <= n)
  <2> DEFINE cut == Len(c) - n
             j == IF k > cut THEN k - cut ELSE 0
  <2>1. /\ cut \in Nat \ {0} /\ j \in Nat /\ cut + n = Len(c)
        /\ k = 0 => j = 0
    BY <1>1, <1>3
  <2>2. d = [i \in 1 .. n |-> c[cut + i]]
    BY <1>3 DEF Newest
  <2>3. Len(d) = n /\ \A i \in 1 .. n : d[i] = c[cut + i]
    BY <2>2
  <2> HIDE DEF d, cut
  <2>4. d # <<>> /\ d[Len(d)] = c[Len(c)]
    <3>1. n \in 1 .. n /\ n # 0
      OBVIOUS
    <3>2. d[n] = c[Len(c)]
      BY <2>1, <2>3, <3>1
    <3>3. d # <<>>
      BY <2>3, <3>1
    <3> QED  BY <2>3, <3>2, <3>3
  <2>5. ASSUME NEW i \in 1 .. Len(d) - 1, i # j
        PROVE  d[i] < d[i + 1]
    <3>0. i \in 1 .. n - 1 /\ i # j
      BY <2>3, <2>5
    <3>1. /\ cut + i \in 1 .. Len(c) - 1 /\ cut + i # k
          /\ cut + (i + 1) = (cut + i) + 1
          /\ i \in 1 .. n /\ i + 1 \in 1 .. n
      BY <1>1, <2>1, <3>0
    <3> HIDE DEF j
    <3>2. c[cut + i] < c[(cut + i) + 1]
      BY <3>1 DEF Climbs
    <3> QED  BY <2>3, <3>1, <3>2
  <2>6. Climbs(d, j)
    BY <2>5 DEF Climbs
  <2> HIDE DEF j
  <2> QED  BY <2>1, <2>4, <2>6 DEF d
<1> QED  BY <1>2, <1>3

(* A snapshot newer than the stream's position keeps a ring one history. *)
LEMMA PushKeepsOneHistory ==
    ASSUME NEW r \in Rings(Samples), NEW s \in Samples, NEW k \in Nat, NEW last \in Samples,
           NEW at \in Samples, at < s,
           Climbs(Contents(r), k), k # 0 => last <= at,
           Contents(r) # <<>> => Contents(r)[Len(Contents(r))] = last
    PROVE  LET d == Contents(Push(r, s)) IN
           /\ d # <<>> /\ d[Len(d)] = s
           /\ \E j \in Nat : Climbs(d, j)
<1> DEFINE c == Contents(r)
           app == Append(c, s)
           seam == IF k = 0 THEN Len(c) ELSE k
<1>1. /\ c \in Seq(Samples) /\ Samples \subseteq Nat
      /\ Contents(Push(r, s)) = Newest(app, Cap)
  BY ContentsType, PushAppends, PeerClientAssumption DEF Samples
<1>2. /\ Climbs(c, k) /\ (k # 0 => last <= at)
      /\ c # <<>> => c[Len(c)] = last
  OBVIOUS
<1> HIDE DEF c
<1>3. /\ app \in Seq(Nat) /\ app # <<>> /\ Len(app) = Len(c) + 1
      /\ app[Len(app)] = s /\ Len(c) \in Nat
      /\ \A i \in 1 .. Len(c) : app[i] = c[i]
  <2>1. c \in Seq(Nat) /\ s \in Nat
    BY <1>1, SeqMonotonic
  <2>2. /\ app \in Seq(Nat) /\ Len(app) = Len(c) + 1 /\ Len(c) \in Nat
        /\ app[Len(c) + 1] = s /\ \A i \in 1 .. Len(c) : app[i] = c[i]
    BY <2>1
  <2> HIDE DEF app
  <2> QED  BY <2>2
<1> HIDE DEF app
<1>4. ASSUME NEW i \in 1 .. Len(app) - 1, i # seam
      PROVE  app[i] < app[i + 1]
  <2>1. CASE i \in 1 .. Len(c) - 1
    <3>1. i # k /\ i \in 1 .. Len(c) /\ i + 1 \in 1 .. Len(c)
      BY <1>3, <1>4, <2>1
    <3> QED  BY <1>2, <1>3, <2>1, <3>1 DEF Climbs
  <2>2. CASE i = Len(c)
    <3>1. k # 0 /\ c # <<>> /\ Len(c) \in 1 .. Len(c)
      BY <1>1, <1>3, <1>4, <2>2
    <3>2. app[i] = last /\ last <= at /\ app[i + 1] = s
      BY <1>2, <1>3, <2>2, <3>1
    <3> QED  BY <3>2, PeerClientAssumption DEF Samples
  <2> QED  BY <1>3, <2>1, <2>2
<1>5. Climbs(app, seam) /\ seam \in Nat
  BY <1>3, <1>4 DEF Climbs
<1> HIDE DEF seam
<1> QED  BY <1>1, <1>3, <1>5, NewestClimbs, CapAssumption

LEMMA HistoriesStep ==
    ASSUME CacheTypeOK, Positions, Histories, [PeersNext]_clientVars
    PROVE  Histories'
<1> USE DEF cacheVars, peerVars, envVars
<1>0. ASSUME UNCHANGED <<latest, ring>>,
             \A q \in Peers : /\ up'[q] >= up[q]
                              /\ pos'[q] = pos[q] \/ pos'[q] = up[q]
      PROVE  Histories'
  <2> SUFFICES ASSUME NEW q \in Peers  PROVE OneHistory(q)'
    BY DEF Histories
  <2> DEFINE c == Contents(ring[q])
  <2>1. OneHistory(q)
    BY DEF Histories
  <2>2. PICK k \in Nat : Climbs(c, k) /\ (k # 0 => latest[q] <= pos[q])
    BY <2>1 DEF OneHistory
  <2>3. latest'[q] = latest[q] /\ c' = c
    BY <1>0
  <2>4. /\ latest[q] \in Nat /\ up[q] \in Nat /\ pos[q] \in Nat /\ up'[q] \in Nat
        /\ latest[q] <= up[q]
        /\ c # <<>> => c[Len(c)] = latest[q]
    BY <2>1, CacheStep, PeerClientAssumption DEF OneHistory, CacheTypeOK, Positions, Samples
  <2> HIDE DEF c
  <2>5. latest'[q] <= up'[q] /\ (k # 0 => latest'[q] <= pos'[q])
    BY <1>0, <2>2, <2>3, <2>4
  <2>6. /\ c' # <<>> => c'[Len(c')] = latest'[q]
        /\ Climbs(c', k)
    BY <2>2, <2>3, <2>4
  <2> QED  BY <2>5, <2>6 DEF OneHistory, c
<1>00. ASSUME UNCHANGED <<latest, ring, pos, up>>  PROVE Histories'
  BY <1>00 DEF Histories, OneHistory
<1>1. ASSUME NEW p \in Peers, Connect(p)  PROVE Histories'
  <2>1. \A q \in Peers : up'[q] >= up[q] /\ (pos'[q] = pos[q] \/ pos'[q] = up[q])
    BY <1>1, PeerClientAssumption DEF Connect, CacheTypeOK, Positions, Samples
  <2> QED  BY <1>0, <1>1, <2>1 DEF Connect
<1>2. ASSUME NEW p \in Peers, ApplyHello(p)  PROVE Histories'
  <2> DEFINE hello == HelloRecent(p)
  <2>1. /\ ring' = [ring EXCEPT ![p] = Seed(ring[p], hello)]
        /\ latest' = [latest EXCEPT ![p] = IF hello = <<>> THEN latest[p] ELSE up[p]]
        /\ UNCHANGED <<pos, up>>
    BY <1>2 DEF ApplyHello
  <2> HIDE DEF cacheVars, peerVars, envVars
  <2>2. /\ hello \in Seq(Samples) /\ Newest(hello, Cap) = hello
        /\ \A i \in 1 .. Len(hello) : hello[i] = up[p] - Len(hello) + i
    BY HelloIsAscending
  <2>3. Contents(Seed(ring[p], hello)) = hello
    BY <2>2, SeedReplaces DEF CacheTypeOK
  <2>4. up[p] \in Nat /\ latest[p] \in Nat /\ latest[p] <= up[p]
    BY PeerClientAssumption DEF CacheTypeOK, Samples, Histories, OneHistory
  <2> HIDE DEF hello
  <2>5. Contents(ring'[p]) = hello
    BY <2>1, <2>3 DEF CacheTypeOK
  <2>6. latest'[p] <= up'[p] /\ (hello # <<>> => hello[Len(hello)] = latest'[p])
    <3>1. up' = up /\ latest'[p] = IF hello = <<>> THEN latest[p] ELSE up[p]
      BY <2>1 DEF CacheTypeOK
    <3>2. ASSUME hello # <<>>  PROVE hello[Len(hello)] = up[p]
      <4>1. Len(hello) \in Nat \ {0}
        BY <2>2, <3>2
      <4>2. Len(hello) \in 1 .. Len(hello)
        BY <4>1
      <4>3. hello[Len(hello)] = up[p] - Len(hello) + Len(hello)
        BY <2>2, <4>2
      <4> QED  BY <2>4, <4>1, <4>3
    <3> QED  BY <2>4, <3>1, <3>2
  <2>7. Climbs(hello, 0)
    <3>1. \A i \in 1 .. Len(hello) - 1 : i \in 1 .. Len(hello) /\ i + 1 \in 1 .. Len(hello)
      BY <2>2
    <3> QED  BY <2>2, <2>4, <3>1 DEF Climbs
  <2>8. OneHistory(p)'
    BY <2>5, <2>6, <2>7 DEF OneHistory
  <2>9. ASSUME NEW q \in Peers, q # p  PROVE OneHistory(q)'
    <3>1. ring'[q] = ring[q] /\ latest'[q] = latest[q] /\ up' = up /\ pos' = pos
      BY <2>1, <2>9 DEF CacheTypeOK
    <3> QED  BY <3>1 DEF Histories, OneHistory
  <2> QED  BY <2>8, <2>9 DEF Histories
<1>3. ASSUME NEW p \in Peers, SkipHello(p)  PROVE Histories'
  BY <1>00, <1>3 DEF SkipHello
<1>4. ASSUME NEW p \in Peers, AnnounceOnline(p)  PROVE Histories'
  BY <1>00, <1>4 DEF AnnounceOnline
<1>5. ASSUME NEW p \in Peers, StreamReturns(p) \/ StreamCut(p)  PROVE Histories'
  BY <1>00, <1>5 DEF StreamReturns, StreamCut, AfterStream
<1>6. ASSUME NEW p \in Peers, Redial(p)  PROVE Histories'
  BY <1>00, <1>6 DEF Redial
<1>7. ASSUME NEW p \in Peers, ApplySnapshot(p)  PROVE Histories'
  <2>1. PICK s \in pos[p] + 1 .. up[p] :
            /\ pos' = [pos EXCEPT ![p] = s]
            /\ latest' = [latest EXCEPT ![p] = s]
            /\ ring' = [ring EXCEPT ![p] = Push(ring[p], s)]
    BY <1>7 DEF ApplySnapshot
  <2>2. up' = up
    BY <1>7 DEF ApplySnapshot
  <2> HIDE DEF cacheVars, peerVars, envVars
  <2>3. PICK k \in Nat : /\ Climbs(Contents(ring[p]), k)
                         /\ k # 0 => latest[p] <= pos[p]
    BY DEF Histories, OneHistory
  <2>4. /\ s \in Samples /\ pos[p] \in Samples /\ pos[p] < s /\ s <= up[p]
        /\ latest[p] \in Samples /\ ring[p] \in Rings(Samples)
    BY <2>1, PeerClientAssumption DEF CacheTypeOK, Positions, Samples
  <2> DEFINE d == Contents(Push(ring[p], s))
  <2>5. d # <<>> /\ d[Len(d)] = s /\ \E j \in Nat : Climbs(d, j)
    BY <2>3, <2>4, PushKeepsOneHistory DEF Histories, OneHistory
  <2> HIDE DEF d
  <2>6. Contents(ring'[p]) = d /\ latest'[p] = s /\ pos'[p] = s
    BY <2>1 DEF CacheTypeOK, Positions, d
  <2>7. OneHistory(p)'
    BY <2>2, <2>4, <2>5, <2>6, PeerClientAssumption DEF OneHistory, Samples
  <2>8. ASSUME NEW q \in Peers, q # p  PROVE OneHistory(q)'
    <3>1. ring'[q] = ring[q] /\ latest'[q] = latest[q] /\ up' = up /\ pos'[q] = pos[q]
      BY <2>1, <2>2, <2>8 DEF CacheTypeOK, Positions
    <3> QED  BY <3>1 DEF Histories, OneHistory
  <2> QED  BY <2>7, <2>8 DEF Histories
<1>8. CASE Shutdown  BY <1>00, <1>8 DEF Shutdown
<1>9. ASSUME NEW p \in Peers, PeerSamples(p)  PROVE Histories'
  <2>1. \A q \in Peers : up'[q] >= up[q] /\ pos'[q] = pos[q]
    BY <1>9, PeerClientAssumption DEF PeerSamples, CacheTypeOK, Samples
  <2> QED  BY <1>0, <1>9, <2>1 DEF PeerSamples
<1>10. ASSUME NEW p \in Peers, NEW restarts \in BOOLEAN, PeerGoes(p, restarts)
       PROVE  Histories'
  BY <1>00, <1>10 DEF PeerGoes
<1>11. ASSUME NEW p \in Peers, PeerComes(p)  PROVE Histories'
  BY <1>00, <1>11 DEF PeerComes
<1>12. CASE CancelContext  BY <1>00, <1>12 DEF CancelContext
<1>13. ASSUME NEW v \in Viewers, Viewing(v)  PROVE Histories'
  BY <1>00, <1>13 DEF Viewing
<1>14. CASE UNCHANGED clientVars  BY <1>00, <1>14 DEF clientVars
<1> QED
  BY StepCases, <1>1, <1>2, <1>3, <1>4, <1>5, <1>6, <1>7, <1>8, <1>9, <1>10, <1>11, <1>12, <1>13, <1>14

(* A history that climbs but at one place has at most one seam. *)
LEMMA HistoriesHaveOneSeam ==
    ASSUME CacheTypeOK, Histories
    PROVE  OneSeam
<1> SUFFICES ASSUME NEW p \in Peers
             PROVE  LET c == Contents(ring[p]) IN
                    /\ c # <<>> => c[Len(c)] = latest[p]
                    /\ Cardinality({i \in 1 .. Len(c) - 1 : c[i] >= c[i + 1]}) <= 1
  BY DEF OneSeam
<1> DEFINE c == Contents(ring[p])
           Seams == {i \in 1 .. Len(c) - 1 : c[i] >= c[i + 1]}
<1>1. c \in Seq(Nat)
  <2>1. c \in Seq(Samples) /\ Samples \subseteq Nat
    BY ContentsType, PeerClientAssumption DEF CacheTypeOK, Samples
  <2> HIDE DEF c
  <2> QED  BY <2>1, SeqMonotonic
<1>2. PICK k \in Nat : Climbs(c, k)
  BY DEF Histories, OneHistory
<1>3. c # <<>> => c[Len(c)] = latest[p]
  BY DEF Histories, OneHistory
<1> HIDE DEF c
<1>4. ASSUME NEW i \in Seams  PROVE i = k
  <2>1. i \in 1 .. Len(c) /\ i + 1 \in 1 .. Len(c) /\ c[i] \in Nat /\ c[i + 1] \in Nat
    BY <1>1
  <2> QED  BY <1>2, <2>1 DEF Climbs
<1> HIDE DEF Seams
<1>5. Seams \in SUBSET {k}
  BY <1>4
<1>6. Cardinality(Seams) <= 1
  <2>1. IsFiniteSet({k}) /\ Cardinality({k}) = 1
    BY FS_Singleton
  <2> QED  BY <1>5, <2>1, FS_Subset
<1> QED  BY <1>3, <1>6 DEF c, Seams

(***************************************************************************)
(* A cached ring is one history with at most one seam and ends in the      *)
(* latest snapshot, for any size of the rings, any number of peers, and    *)
(* however often they reconnect, restart or send a hello that is skipped   *)
(* (applyHello, seedRing, applySnapshot).                                  *)
(***************************************************************************)
THEOREM RingsAreOneHistory == PeersSpec => []OneSeam
<1>1. PeerClientInit => Histories
  <2>1. Contents(EmptyRing) = <<>>
    BY DEF Contents, EmptyRing
  <2>2. ASSUME PeerClientInit, NEW p \in Peers  PROVE OneHistory(p)
    <3>1. Contents(ring[p]) = <<>> /\ latest[p] = 0 /\ up[p] = 0
      BY <2>1, <2>2 DEF PeerClientInit
    <3>2. Climbs(<<>>, 0)
      BY DEF Climbs
    <3> QED  BY <3>1, <3>2 DEF OneHistory
  <2> QED  BY <2>2 DEF Histories
<1>2. Types /\ Histories /\ [PeersNext]_clientVars => Histories'
  BY HistoriesStep DEF Types
<1>3. Types /\ Histories => OneSeam
  BY HistoriesHaveOneSeam DEF Types
<1> QED  BY <1>1, <1>2, <1>3, TypesHold, PTL DEF PeersSpec

-----------------------------------------------------------------------------

(***************************************************************************)
(* What the hub shows.  Its handlers are viewers of the client, and no     *)
(* more than that: they subscribe, receive and cancel.                     *)
(***************************************************************************)
LEMMA HubCases ==
    ASSUME [HubNext]_vars
    PROVE  \/ ClientStep
           \/ EnvStep
           \/ \E v \in Viewers : Open(v)
           \/ StartPage
           \/ PageTurn
           \/ StartOverview
           \/ OverviewTurn
           \/ \E v \in Viewers : Write(v)
           \/ \E v \in Viewers : Read(v)
           \/ \E v \in Viewers : End(v)
           \/ OverviewHeartbeat
           \/ FleetSkipped
           \/ UNCHANGED vars
  BY DEF HubNext, HandlerStep

LEMMA TwoViewers ==
    Page \in Viewers /\ Overview \in Viewers /\ Page # Overview /\ Shown \in Peers
  BY HubLiveAssumption

(***************************************************************************)
(* A handler holds a channel as long as it serves; the channel is closed   *)
(* only when no goroutine is left to write to it.                          *)
(***************************************************************************)
Subscriptions ==
    /\ serving \in [Viewers -> {"no", "starting", "loop"}]
    /\ \A v \in Viewers : /\ serving[v] = "no" <=> chan[v].state = "none"
                          /\ chan[v].state = "closed" => stopped
    /\ stopped => ctxDone /\ \A p \in Peers : conn[p] = "exited"

LEMMA HandlersAreViewers ==
    ASSUME Subscriptions, [HubNext]_vars
    PROVE  [PeersNext]_clientVars
<1> USE TwoViewers
<1>1. CASE ClientStep  BY <1>1 DEF ClientStep, PeersNext
<1>2. CASE EnvStep  BY <1>2 DEF EnvStep, PeersNext
<1>3. ASSUME NEW v \in Viewers, Open(v)  PROVE [PeersNext]_clientVars
  BY <1>3 DEF Open, Subscriptions, Viewing, PeersNext
<1>4. CASE StartPage  BY <1>4 DEF StartPage
<1>5. CASE PageTurn  BY <1>5 DEF PageTurn, Viewing, PeersNext
<1>6. CASE StartOverview  BY <1>6 DEF StartOverview
<1>7. CASE OverviewTurn  BY <1>7 DEF OverviewTurn, Viewing, PeersNext
<1>8. ASSUME NEW v \in Viewers, Write(v)  PROVE [PeersNext]_clientVars
  BY <1>8 DEF Write
<1>9. ASSUME NEW v \in Viewers, Read(v)  PROVE [PeersNext]_clientVars
  BY <1>9 DEF Read
<1>10. ASSUME NEW v \in Viewers, End(v)  PROVE [PeersNext]_clientVars
  BY <1>10 DEF End, Subscriptions, Viewing, PeersNext
<1>11. CASE OverviewHeartbeat  BY <1>11 DEF OverviewHeartbeat
<1>12. CASE UNCHANGED vars  BY <1>12 DEF vars
<1>13. CASE FleetSkipped  BY <1>13 DEF FleetSkipped
<1> QED
  BY HubCases, <1>1, <1>2, <1>3, <1>4, <1>5, <1>6, <1>7, <1>8, <1>9, <1>10, <1>11,
     <1>12, <1>13

(* What a step of the client does to a channel of its viewer. *)
LEMMA OfferKeeps ==
    ASSUME ChanTypeOK, NEW ev, Broadcast(ev), NEW v \in Viewers
    PROVE  /\ chan'[v].state = chan[v].state
           /\ chan'[v].buf = chan[v].buf \/ chan'[v].buf = Append(chan[v].buf, ev)
  BY DEF Broadcast, Offer, ChanTypeOK

LEMMA ExitedForGood ==
    ASSUME ConnTypeOK, ClientNext, \A p \in Peers : conn[p] = "exited"
    PROVE  conn' = conn
<1>1. ASSUME NEW p \in Peers  PROVE ~RunPeer(p) /\ ~ApplySnapshot(p) /\ ~StreamCut(p)
  BY DEF RunPeer, Connect, ApplyHello, SkipHello, AnnounceOnline, StreamReturns, StreamCut,
         AfterStream, Redial, ApplySnapshot
<1>2. Shutdown  BY <1>1 DEF ClientNext
<1> QED  BY <1>2 DEF Shutdown, peerVars

LEMMA ClientKeepsStates ==
    ASSUME ChanTypeOK, ClientNext
    PROVE  \/ Shutdown
           \/ \A v \in Viewers : chan'[v].state = chan[v].state
<1> DEFINE Kept == \A v \in Viewers : chan'[v].state = chan[v].state
<1>1. ASSUME NEW p \in Peers, NEW to, SetOnline(p, to)  PROVE Kept
  BY <1>1, OfferKeeps DEF SetOnline
<1>2. ASSUME NEW p \in Peers, RunPeer(p) \/ ApplySnapshot(p) \/ StreamCut(p)  PROVE Kept
  <2>1. CASE Connect(p)  BY <2>1 DEF Connect
  <2>2. CASE ApplyHello(p)  BY <2>2 DEF ApplyHello
  <2>3. CASE SkipHello(p)  BY <2>3 DEF SkipHello
  <2>4. CASE AnnounceOnline(p)  BY <1>1, <2>4 DEF AnnounceOnline
  <2>5. CASE StreamReturns(p) \/ StreamCut(p)  BY <1>1, <2>5 DEF StreamReturns, StreamCut, AfterStream
  <2>6. CASE Redial(p)  BY <2>6 DEF Redial
  <2>7. CASE ApplySnapshot(p)  BY <2>7, OfferKeeps DEF ApplySnapshot
  <2> QED  BY <1>2, <2>1, <2>2, <2>3, <2>4, <2>5, <2>6, <2>7 DEF RunPeer
<1> QED  BY <1>2 DEF ClientNext

LEMMA ClientKeepsStopped ==
    ASSUME ClientNext
    PROVE  Shutdown \/ UNCHANGED <<stopped, ctxDone>>
<1>1. ASSUME NEW p \in Peers, RunPeer(p) \/ ApplySnapshot(p) \/ StreamCut(p)
      PROVE  UNCHANGED <<stopped, ctxDone>>
  BY <1>1 DEF RunPeer, Connect, ApplyHello, SkipHello, AnnounceOnline, StreamReturns,
              StreamCut, AfterStream, Redial, ApplySnapshot
<1> QED  BY <1>1 DEF ClientNext

LEMMA SubscriptionsStep ==
    ASSUME Types, Subscriptions, [HubNext]_vars
    PROVE  Subscriptions'
<1> USE DEF viewVars, peerVars, envVars
<1>a. ConnTypeOK /\ ChanTypeOK  BY DEF Types
<1>0. ASSUME UNCHANGED <<serving, conn, stopped, ctxDone>>,
             \A v \in Viewers : chan'[v].state = chan[v].state
      PROVE  Subscriptions'
  BY <1>0 DEF Subscriptions
<1>1. CASE ClientStep
  <2>1. ClientNext /\ serving' = serving
    BY <1>1 DEF ClientStep
  <2>2. CASE Shutdown
    BY <1>a, <2>1, <2>2 DEF Shutdown, Subscriptions, ChanTypeOK
  <2>3. CASE ~Shutdown
    <3>1. UNCHANGED <<stopped, ctxDone>> /\ \A v \in Viewers : chan'[v].state = chan[v].state
      BY <1>a, <2>1, <2>3, ClientKeepsStates, ClientKeepsStopped
    <3>2. stopped => conn' = conn
      BY <1>a, <2>1, ExitedForGood DEF Subscriptions
    <3> QED  BY <2>1, <3>1, <3>2 DEF Subscriptions
  <2> QED  BY <2>2, <2>3
<1>2. CASE EnvStep
  <2>1. UNCHANGED <<serving, conn, chan, stopped>> /\ (ctxDone => ctxDone')
    <3>1. EnvNext /\ serving' = serving
      BY <1>2 DEF EnvStep
    <3>2. UNCHANGED <<conn, chan, stopped>> /\ (ctxDone => ctxDone')
      BY <3>1 DEF EnvNext, PeerSamples, PeerGoes, PeerComes, CancelContext
    <3> QED  BY <3>1, <3>2
  <2> QED  BY <2>1 DEF Subscriptions
<1>3. ASSUME NEW v \in Viewers, Open(v)  PROVE Subscriptions'
  BY <1>a, <1>3 DEF Open, Subscribed, Subscriptions, ChanTypeOK
<1>4. CASE StartPage
  BY <1>4, TwoViewers DEF StartPage, Subscriptions, clientVars
<1>5. CASE PageTurn
  BY <1>a, <1>0, <1>5, TwoViewers DEF PageTurn, Received, ChanTypeOK
<1>6. CASE StartOverview
  BY <1>6, TwoViewers DEF StartOverview, Subscriptions, clientVars
<1>7. CASE OverviewTurn
  BY <1>a, <1>0, <1>7, TwoViewers DEF OverviewTurn, Received, ChanTypeOK
<1>8. ASSUME NEW v \in Viewers, Write(v)  PROVE Subscriptions'
  BY <1>0, <1>8 DEF Write, clientVars
<1>9. ASSUME NEW v \in Viewers, Read(v)  PROVE Subscriptions'
  BY <1>0, <1>9 DEF Read, clientVars
<1>10. ASSUME NEW v \in Viewers, End(v)  PROVE Subscriptions'
  BY <1>a, <1>10 DEF End, Cancelled, Subscriptions, ChanTypeOK
<1>11. CASE OverviewHeartbeat
  BY <1>0, <1>11 DEF OverviewHeartbeat, clientVars
<1>12. CASE UNCHANGED vars  BY <1>0, <1>12 DEF vars, clientVars
<1>13. CASE FleetSkipped
  BY <1>0, <1>13 DEF FleetSkipped, clientVars
<1> QED
  BY HubCases, <1>1, <1>2, <1>3, <1>4, <1>5, <1>6, <1>7, <1>8, <1>9, <1>10, <1>11,
     <1>12, <1>13

(***************************************************************************)
(* What the viewers' events rest on: a stream that was announced counts as *)
(* online until it ends, and one whose hello was skipped started after     *)
(* everything that is cached, so that its snapshots show.                  *)
(***************************************************************************)
AnnouncedIsOnline == \A p \in Peers : conn[p] = "live" => online[p]

LEMMA AnnouncedStep ==
    ASSUME ConnTypeOK, AnnouncedIsOnline, [PeersNext]_clientVars
    PROVE  AnnouncedIsOnline'
<1> USE DEF cacheVars, peerVars, envVars
<1>0. ASSUME UNCHANGED <<conn, online>>  PROVE AnnouncedIsOnline'
  BY <1>0 DEF AnnouncedIsOnline
<1> USE DEF ConnTypeOK, AnnouncedIsOnline
<1>1. ASSUME NEW p \in Peers, Connect(p)  PROVE AnnouncedIsOnline'
  BY <1>1 DEF Connect
<1>2. ASSUME NEW p \in Peers, ApplyHello(p)  PROVE AnnouncedIsOnline'
  BY <1>2 DEF ApplyHello
<1>3. ASSUME NEW p \in Peers, SkipHello(p)  PROVE AnnouncedIsOnline'
  BY <1>3 DEF SkipHello
<1>4. ASSUME NEW p \in Peers, AnnounceOnline(p)  PROVE AnnouncedIsOnline'
  BY <1>4 DEF AnnounceOnline, SetOnline
<1>5. ASSUME NEW p \in Peers, StreamReturns(p) \/ StreamCut(p)  PROVE AnnouncedIsOnline'
  BY <1>5 DEF StreamReturns, StreamCut, AfterStream, SetOnline
<1>6. ASSUME NEW p \in Peers, Redial(p)  PROVE AnnouncedIsOnline'
  BY <1>6 DEF Redial
<1>7. ASSUME NEW p \in Peers, ApplySnapshot(p)  PROVE AnnouncedIsOnline'
  BY <1>0, <1>7 DEF ApplySnapshot
<1>8. CASE Shutdown  BY <1>0, <1>8 DEF Shutdown
<1>9. ASSUME NEW p \in Peers, PeerSamples(p)  PROVE AnnouncedIsOnline'
  BY <1>0, <1>9 DEF PeerSamples
<1>10. ASSUME NEW p \in Peers, NEW restarts \in BOOLEAN, PeerGoes(p, restarts)
       PROVE  AnnouncedIsOnline'
  BY <1>0, <1>10 DEF PeerGoes
<1>11. ASSUME NEW p \in Peers, PeerComes(p)  PROVE AnnouncedIsOnline'
  BY <1>0, <1>11 DEF PeerComes
<1>12. CASE CancelContext  BY <1>0, <1>12 DEF CancelContext
<1>13. ASSUME NEW v \in Viewers, Viewing(v)  PROVE AnnouncedIsOnline'
  BY <1>0, <1>13 DEF Viewing
<1>14. CASE UNCHANGED clientVars  BY <1>0, <1>14 DEF clientVars
<1> QED
  BY StepCases, <1>1, <1>2, <1>3, <1>4, <1>5, <1>6, <1>7, <1>8, <1>9, <1>10, <1>11, <1>12, <1>13, <1>14

MuteIsNewer == \A p \in Peers : conn[p] \in {"open", "mute"} => latest[p] <= pos[p]

LEMMA MuteStep ==
    ASSUME Types, Histories, MuteIsNewer, [PeersNext]_clientVars
    PROVE  MuteIsNewer'
<1> USE DEF cacheVars, peerVars, envVars
<1>a. /\ conn \in [Peers -> ConnStates]
      /\ latest \in [Peers -> Nat] /\ up \in [Peers -> Nat] /\ pos \in [Peers -> Nat]
      /\ \A p \in Peers : latest[p] <= up[p] /\ pos[p] <= up[p]
  <2>1. Samples \subseteq Nat  BY PeerClientAssumption DEF Samples
  <2>2. /\ conn \in [Peers -> ConnStates] /\ latest \in [Peers -> Samples]
        /\ up \in [Peers -> Samples] /\ pos \in [Peers -> Samples]
    BY DEF Types, ConnTypeOK, CacheTypeOK, Positions
  <2>3. \A p \in Peers : latest[p] <= up[p]
    BY DEF Histories, OneHistory
  <2>4. ASSUME NEW p \in Peers  PROVE pos[p] <= up[p]
    <3>1. pos[p] \in 0 .. up[p] /\ up[p] \in Nat
      BY <2>1, <2>2 DEF Types, CacheTypeOK
    <3> QED  BY <3>1
  <2> QED  BY <2>1, <2>2, <2>3, <2>4
<1>0. ASSUME UNCHANGED <<conn, latest, pos>>  PROVE MuteIsNewer'
  BY <1>0 DEF MuteIsNewer
<1> USE <1>a DEF MuteIsNewer
<1>1. ASSUME NEW p \in Peers, Connect(p)  PROVE MuteIsNewer'
  BY <1>1 DEF Connect
<1>2. ASSUME NEW p \in Peers, ApplyHello(p)  PROVE MuteIsNewer'
  <2>1. /\ conn' = [conn EXCEPT ![p] = "helloed"]
        /\ \A q \in Peers \ {p} : latest'[q] = latest[q]
        /\ pos' = pos
    BY <1>2 DEF ApplyHello
  <2> QED  BY <2>1
<1>3. ASSUME NEW p \in Peers, SkipHello(p)  PROVE MuteIsNewer'
  BY <1>3 DEF SkipHello
<1>4. ASSUME NEW p \in Peers, AnnounceOnline(p)  PROVE MuteIsNewer'
  BY <1>4 DEF AnnounceOnline
<1>5. ASSUME NEW p \in Peers, StreamReturns(p) \/ StreamCut(p)  PROVE MuteIsNewer'
  BY <1>5 DEF StreamReturns, StreamCut, AfterStream
<1>6. ASSUME NEW p \in Peers, Redial(p)  PROVE MuteIsNewer'
  BY <1>6 DEF Redial
<1>7. ASSUME NEW p \in Peers, ApplySnapshot(p)  PROVE MuteIsNewer'
  <2>1. PICK s \in pos[p] + 1 .. up[p] :
            /\ pos' = [pos EXCEPT ![p] = s]
            /\ latest' = [latest EXCEPT ![p] = s]
    BY <1>7 DEF ApplySnapshot
  <2>2. conn' = conn
    BY <1>7 DEF ApplySnapshot
  <2>3. s \in Nat  BY <2>1
  <2> QED  BY <2>1, <2>2, <2>3
<1>8. CASE Shutdown  BY <1>0, <1>8 DEF Shutdown
<1>9. ASSUME NEW p \in Peers, PeerSamples(p)  PROVE MuteIsNewer'
  BY <1>0, <1>9 DEF PeerSamples
<1>10. ASSUME NEW p \in Peers, NEW restarts \in BOOLEAN, PeerGoes(p, restarts)
       PROVE  MuteIsNewer'
  BY <1>0, <1>10 DEF PeerGoes
<1>11. ASSUME NEW p \in Peers, PeerComes(p)  PROVE MuteIsNewer'
  BY <1>0, <1>11 DEF PeerComes
<1>12. CASE CancelContext  BY <1>0, <1>12 DEF CancelContext
<1>13. ASSUME NEW v \in Viewers, Viewing(v)  PROVE MuteIsNewer'
  BY <1>0, <1>13 DEF Viewing
<1>14. CASE UNCHANGED clientVars  BY <1>0, <1>14 DEF clientVars
<1> QED
  BY StepCases, <1>1, <1>2, <1>3, <1>4, <1>5, <1>6, <1>7, <1>8, <1>9, <1>10, <1>11, <1>12, <1>13, <1>14

(***************************************************************************)
(* The handlers' and browsers' own state keeps its type.                   *)
(***************************************************************************)
ViewTypeOK ==
    /\ helloSent \in BOOLEAN
    /\ out \in [Viewers -> Seq(Messages)]
    /\ wire \in [Viewers -> Seq(Messages)]
    /\ shows \in [Viewers -> [Peers -> {"live", "offline"}]]
    /\ misled \in [Viewers -> BOOLEAN]

Bounded == \A v \in Viewers : Len(wire[v]) <= WireCap /\ Len(out[v]) <= 2

LEMMA MessageKinds ==
    ASSUME NEW m \in Messages
    PROVE  \/ m = HelloMsg /\ m.type = "hello"
           \/ m = Resync /\ m.type = "servers"
           \/ \E p \in Peers : m = Snap(p) /\ m.type = "snapshot" /\ m.id = p
           \/ \E p \in Peers, on \in BOOLEAN :
                 m = Status(p, on) /\ m.type = "status" /\ m.id = p /\ m.online = on
           \/ \E on \in [Peers -> BOOLEAN] :
                 m = Fleet(on) /\ m.type = "servers" /\ m.online = on
  BY DEF Messages, HelloMsg, Resync, Snap, Status, Fleet

LEMMA MessageTypes ==
    /\ HelloMsg \in Messages /\ Resync \in Messages
    /\ \A p \in Peers : Snap(p) \in Messages
    /\ \A p \in Peers : \A on \in BOOLEAN : Status(p, on) \in Messages
    /\ \A on \in [Peers -> BOOLEAN] : Fleet(on) \in Messages
  BY DEF Messages

LEMMA ShortLists ==
    ASSUME NEW m \in Messages, NEW n \in Messages
    PROVE  /\ <<>> \in Seq(Messages) /\ Len(<<>>) = 0
           /\ <<m>> \in Seq(Messages) /\ Len(<<m>>) = 1
           /\ <<m, n>> \in Seq(Messages) /\ Len(<<m, n>>) = 2
           /\ <<>> \o <<>> = <<>> /\ <<>> \o <<m>> = <<m>> /\ <<m>> \o <<>> = <<m>>
           /\ <<m>> \o <<n>> = <<m, n>>
<1>1. <<>> \in Seq(Messages) /\ Len(<<>>) = 0
  OBVIOUS
<1>2. <<m>> \in Seq(Messages) /\ Len(<<m>>) = 1
  OBVIOUS
<1>3. <<m, n>> \in Seq(Messages) /\ Len(<<m, n>>) = 2
  OBVIOUS
<1>4. <<>> \o <<>> = <<>> /\ <<>> \o <<m>> = <<m>> /\ <<m>> \o <<>> = <<m>>
  OBVIOUS
<1>5. <<m>> \o <<n>> = <<m, n>>
  <2> DEFINE a == <<m>>
             b == <<n>>
             s == a \o b
             t == <<m, n>>
  <2>1. /\ a \in Seq(Messages) /\ Len(a) = 1 /\ a[1] = m
        /\ b \in Seq(Messages) /\ Len(b) = 1 /\ b[1] = n
        /\ t \in Seq(Messages) /\ Len(t) = 2 /\ t[1] = m /\ t[2] = n
    OBVIOUS
  <2> HIDE DEF a, b, t
  <2>2. /\ s \in Seq(Messages) /\ Len(s) = 2 /\ s[1] = m /\ s[2] = n
    BY <2>1, ConcatProperties
  <2> HIDE DEF s
  <2>3. \A i \in 1 .. Len(s) : s[i] = t[i]
    BY <2>1, <2>2
  <2>4. s = t
    BY <2>1, <2>2, <2>3
  <2> QED  BY <2>4 DEF s, a, b, t
<1> QED  BY <1>1, <1>2, <1>3, <1>4, <1>5

LEMMA ViewStep ==
    ASSUME Types, ViewTypeOK, [HubNext]_vars
    PROVE  ViewTypeOK'
<1> USE TwoViewers
<1>a. ConnTypeOK /\ ChanTypeOK  BY DEF Types
<1>0. ASSUME UNCHANGED viewVars, misled' \in [Viewers -> BOOLEAN]
      PROVE  ViewTypeOK'
  BY <1>0 DEF viewVars, ViewTypeOK
<1>1. CASE ClientStep  BY <1>0, <1>1 DEF ClientStep, ViewTypeOK
<1>2. CASE EnvStep  BY <1>0, <1>2 DEF EnvStep, ViewTypeOK
<1>3. ASSUME NEW v \in Viewers, Open(v)  PROVE ViewTypeOK'
  BY <1>3 DEF Open, ViewTypeOK
<1>4. CASE StartPage
  <2> DEFINE ms == IF ~known[Shown] THEN <<Status(Shown, FALSE)>>
                   ELSE IF online[Shown] THEN <<HelloMsg>>
                   ELSE <<HelloMsg, Status(Shown, FALSE)>>
  <2>1. ms \in Seq(Messages)
    BY ShortLists, MessageTypes
  <2>2. out' = [out EXCEPT ![Page] = ms] /\ UNCHANGED <<wire, shows, misled>>
    BY <1>4 DEF StartPage
  <2>3. helloSent' \in BOOLEAN
    BY <1>4, <1>a DEF StartPage, ConnTypeOK
  <2> QED  BY <2>1, <2>2, <2>3 DEF ViewTypeOK
<1>5. CASE PageTurn
  <2> DEFINE ev == Head(chan[Page].buf)
             deferred == ev.id = Shown /\ ~helloSent /\ known[Shown]
             first == IF deferred THEN <<HelloMsg>> ELSE <<>>
             told == CASE ev.id # Shown -> <<>>
                       [] ev.id = Shown /\ ev.kind # "snapshot" ->
                             <<Status(Shown, ev.kind = "online")>>
                       [] ev.id = Shown /\ ev.kind = "snapshot" ->
                             IF helloSent /\ ~deferred THEN <<Snap(Shown)>> ELSE <<>>
  <2>1. /\ out' = [out EXCEPT ![Page] = first \o told]
        /\ helloSent' = (helloSent \/ deferred)
        /\ UNCHANGED <<wire, shows, misled>>
    BY <1>5 DEF PageTurn
  <2>2. first \in Seq(Messages)
    BY ShortLists, MessageTypes
  <2>3. told \in Seq(Messages)
    BY ShortLists, MessageTypes
  <2> HIDE DEF first, told, deferred
  <2>4. first \o told \in Seq(Messages)
    BY <2>2, <2>3, ConcatProperties
  <2> DEFINE o == first \o told
  <2> HIDE DEF o
  <2>5. out' \in [Viewers -> Seq(Messages)]
    BY <2>1, <2>4 DEF ViewTypeOK, o
  <2> QED  BY <2>1, <2>5 DEF ViewTypeOK
<1>6. CASE StartOverview
  BY <1>6, ShortLists, MessageTypes DEF StartOverview, ViewTypeOK
<1>7. CASE OverviewTurn
  <2> DEFINE ev == Head(chan[Overview].buf)
             ms == IF ev.kind = "snapshot" THEN <<Snap(ev.id)>>
                   ELSE <<Status(ev.id, ev.kind = "online"), Resync>>
  <2>1. chan[Overview].buf \in Seq(Events) /\ chan[Overview].buf # <<>>
    BY <1>a, <1>7 DEF ChanTypeOK, OverviewTurn
  <2>2. ev \in Events
    BY <2>1
  <2>3. ev.id \in Peers
    BY <2>2 DEF Events
  <2> HIDE DEF ev
  <2>4. ms \in Seq(Messages)
    BY <2>3, ShortLists, MessageTypes
  <2>5. out' = [out EXCEPT ![Overview] = ms] /\ UNCHANGED <<helloSent, wire, shows, misled>>
    BY <1>7 DEF OverviewTurn, ev
  <2> HIDE DEF ms
  <2> QED  BY <2>4, <2>5 DEF ViewTypeOK
<1>8. ASSUME NEW v \in Viewers, Write(v)  PROVE ViewTypeOK'
  <2> DEFINE m == IF Head(out[v]) = Resync THEN Servers ELSE Head(out[v])
  <2>1. out[v] \in Seq(Messages) /\ out[v] # <<>> /\ wire[v] \in Seq(Messages)
    BY <1>8 DEF Write, ViewTypeOK
  <2>2. Head(out[v]) \in Messages /\ Tail(out[v]) \in Seq(Messages)
    BY <2>1
  <2>3. Servers \in Messages
    BY <1>a, MessageTypes DEF Servers, ConnTypeOK
  <2>4. m \in Messages
    BY <2>2, <2>3
  <2>5. /\ wire' = [wire EXCEPT ![v] = Append(wire[v], m)]
        /\ out' = [out EXCEPT ![v] = Tail(out[v])]
        /\ UNCHANGED <<helloSent, shows, misled>>
    BY <1>8 DEF Write
  <2> HIDE DEF m
  <2>6. Append(wire[v], m) \in Seq(Messages)
    BY <2>1, <2>4
  <2> QED  BY <2>2, <2>5, <2>6 DEF ViewTypeOK
<1>9. ASSUME NEW v \in Viewers, Read(v)  PROVE ViewTypeOK'
  <2> DEFINE m == Head(wire[v])
  <2>1. wire[v] \in Seq(Messages) /\ wire[v] # <<>>
    BY <1>9 DEF Read, ViewTypeOK
  <2>2. m \in Messages /\ Tail(wire[v]) \in Seq(Messages)
    BY <2>1
  <2>3. /\ wire' = [wire EXCEPT ![v] = Tail(wire[v])]
        /\ UNCHANGED <<helloSent, out, misled>>
        /\ shows' = CASE m.type = "status" -> [shows EXCEPT ![v][m.id] = Says(m.online)]
                      [] m.type = "snapshot" -> [shows EXCEPT ![v][m.id] = "live"]
                      [] m.type = "servers" ->
                            [shows EXCEPT ![v] = [p \in Peers |-> Says(m.online[p])]]
                      [] m.type = "hello" -> shows
    BY <1>9 DEF Read
  <2> HIDE DEF m
  <2>4. shows' \in [Viewers -> [Peers -> {"live", "offline"}]]
    <3>1. \A on : Says(on) \in {"live", "offline"}
      BY DEF Says
    <3>2. m.type \in {"status", "snapshot", "servers", "hello"}
      BY <2>2, MessageKinds
    <3>3. CASE m.type = "status"
      BY <2>2, <2>3, <3>1, <3>3, MessageKinds DEF ViewTypeOK
    <3>4. CASE m.type = "snapshot"
      BY <2>2, <2>3, <3>4, MessageKinds DEF ViewTypeOK
    <3>5. CASE m.type = "servers"
      <4>1. shows' = [shows EXCEPT ![v] = [p \in Peers |-> Says(m.online[p])]]
        BY <2>3, <3>5
      <4>2. [p \in Peers |-> Says(m.online[p])] \in [Peers -> {"live", "offline"}]
        BY <3>1
      <4> QED  BY <4>1, <4>2 DEF ViewTypeOK
    <3>6. CASE m.type = "hello"
      BY <2>3, <3>6 DEF ViewTypeOK
    <3> QED  BY <3>2, <3>3, <3>4, <3>5, <3>6
  <2> QED  BY <2>2, <2>3, <2>4 DEF ViewTypeOK
<1>10. ASSUME NEW v \in Viewers, End(v)  PROVE ViewTypeOK'
  BY <1>10 DEF End, ViewTypeOK
<1>11. CASE OverviewHeartbeat
  BY <1>11, ShortLists, MessageTypes DEF OverviewHeartbeat, ViewTypeOK
<1>12. CASE UNCHANGED vars  BY <1>0, <1>12 DEF vars, viewVars, ViewTypeOK
<1>13. CASE FleetSkipped
  <2>1. out[Overview] \in Seq(Messages) /\ out[Overview] # <<>>
    BY <1>13 DEF FleetSkipped, ViewTypeOK
  <2>2. Tail(out[Overview]) \in Seq(Messages)
    BY <2>1
  <2>3. /\ out' = [out EXCEPT ![Overview] = Tail(out[Overview])]
        /\ UNCHANGED <<helloSent, wire, shows, misled>>
    BY <1>13 DEF FleetSkipped
  <2> QED  BY <2>2, <2>3 DEF ViewTypeOK
<1> QED
  BY HubCases, <1>1, <1>2, <1>3, <1>4, <1>5, <1>6, <1>7, <1>8, <1>9, <1>10, <1>11,
     <1>12, <1>13

LEMMA Lengths ==
    Len(<<>>) = 0 /\ (\A m : Len(<<m>>) = 1) /\ (\A m, n : Len(<<m, n>>) = 2)
  OBVIOUS

LEMMA BoundedStep ==
    ASSUME Types, ViewTypeOK, Bounded, [HubNext]_vars
    PROVE  Bounded'
<1> USE TwoViewers
<1>a. ChanTypeOK /\ WireCap \in Nat  BY HubLiveAssumption DEF Types
<1>0. ASSUME UNCHANGED <<out, wire>>  PROVE Bounded'
  BY <1>0 DEF Bounded
<1>b. ASSUME NEW v \in Viewers, NEW ms, wire' = wire, out' = [out EXCEPT ![v] = ms],
             Len(ms) <= 2
      PROVE  Bounded'
  BY <1>b DEF Bounded, ViewTypeOK
<1>1. CASE ClientStep  BY <1>0, <1>1 DEF ClientStep, viewVars
<1>2. CASE EnvStep  BY <1>0, <1>2 DEF EnvStep, viewVars
<1>3. ASSUME NEW v \in Viewers, Open(v)  PROVE Bounded'
  BY <1>0, <1>3 DEF Open
<1>4. CASE StartPage
  <2> DEFINE ms == IF ~known[Shown] THEN <<Status(Shown, FALSE)>>
                   ELSE IF online[Shown] THEN <<HelloMsg>>
                   ELSE <<HelloMsg, Status(Shown, FALSE)>>
  <2>1. Len(ms) <= 2
    BY Lengths
  <2>2. out' = [out EXCEPT ![Page] = ms] /\ wire' = wire
    BY <1>4 DEF StartPage
  <2> HIDE DEF ms
  <2> QED  BY <1>b, <2>1, <2>2
<1>5. CASE PageTurn
  <2> DEFINE ev == Head(chan[Page].buf)
             deferred == ev.id = Shown /\ ~helloSent /\ known[Shown]
             first == IF deferred THEN <<HelloMsg>> ELSE <<>>
             told == CASE ev.id # Shown -> <<>>
                       [] ev.id = Shown /\ ev.kind # "snapshot" ->
                             <<Status(Shown, ev.kind = "online")>>
                       [] ev.id = Shown /\ ev.kind = "snapshot" ->
                             IF helloSent /\ ~deferred THEN <<Snap(Shown)>> ELSE <<>>
  <2>1. out' = [out EXCEPT ![Page] = first \o told] /\ wire' = wire
    BY <1>5 DEF PageTurn
  <2>2. Len(first) \in 0 .. 1 /\ Len(told) \in 0 .. 1
    BY Lengths
  <2>3. first \in Seq(Messages) /\ told \in Seq(Messages)
    BY ShortLists, MessageTypes
  <2> HIDE DEF first, told
  <2>4. Len(first \o told) = Len(first) + Len(told)
    BY <2>2, <2>3, ConcatProperties
  <2>5. Len(first) + Len(told) <= 2
    <3>1. \A a, b \in 0 .. 1 : a + b <= 2
      OBVIOUS
    <3> QED  BY <2>2, <3>1
  <2> DEFINE ms == first \o told
  <2>6. Len(ms) <= 2
    BY <2>4, <2>5
  <2> HIDE DEF ms
  <2> QED  BY <1>b, <2>1, <2>6 DEF ms
<1>6. CASE StartOverview
  <2> DEFINE ms == <<Resync>>
  <2>1. Len(ms) <= 2
    BY Lengths
  <2>2. out' = [out EXCEPT ![Overview] = ms] /\ wire' = wire
    BY <1>6 DEF StartOverview
  <2> HIDE DEF ms
  <2> QED  BY <1>b, <2>1, <2>2
<1>7. CASE OverviewTurn
  <2> DEFINE ev == Head(chan[Overview].buf)
             ms == IF ev.kind = "snapshot" THEN <<Snap(ev.id)>>
                   ELSE <<Status(ev.id, ev.kind = "online"), Resync>>
  <2>1. Len(ms) <= 2
    BY Lengths
  <2>2. out' = [out EXCEPT ![Overview] = ms] /\ wire' = wire
    BY <1>7 DEF OverviewTurn
  <2> HIDE DEF ms
  <2> QED  BY <1>b, <2>1, <2>2
<1>8. ASSUME NEW v \in Viewers, Write(v)  PROVE Bounded'
  <2> DEFINE m == IF Head(out[v]) = Resync THEN Servers ELSE Head(out[v])
  <2>1. out[v] \in Seq(Messages) /\ out[v] # <<>> /\ wire[v] \in Seq(Messages)
    BY <1>8 DEF Write, ViewTypeOK
  <2>2. Len(Tail(out[v])) = Len(out[v]) - 1 /\ Len(out[v]) \in Nat /\ Len(wire[v]) \in Nat
    BY <2>1
  <2>3. /\ wire' = [wire EXCEPT ![v] = Append(wire[v], m)]
        /\ out' = [out EXCEPT ![v] = Tail(out[v])]
        /\ Len(wire[v]) < WireCap
    BY <1>8 DEF Write
  <2> HIDE DEF m
  <2>4. Len(Append(wire[v], m)) = Len(wire[v]) + 1
    BY <2>1
  <2>5. Len(Append(wire[v], m)) <= WireCap /\ Len(Tail(out[v])) <= 2
    BY <1>a, <2>2, <2>3, <2>4 DEF Bounded
  <2> QED  BY <2>3, <2>5 DEF Bounded, ViewTypeOK
<1>9. ASSUME NEW v \in Viewers, Read(v)  PROVE Bounded'
  <2>1. wire[v] \in Seq(Messages) /\ wire[v] # <<>>
    BY <1>9 DEF Read, ViewTypeOK
  <2>2. Len(Tail(wire[v])) <= WireCap
    BY <1>a, <2>1 DEF Bounded
  <2>3. wire' = [wire EXCEPT ![v] = Tail(wire[v])] /\ out' = out
    BY <1>9 DEF Read
  <2> QED  BY <2>2, <2>3 DEF Bounded, ViewTypeOK
<1>10. ASSUME NEW v \in Viewers, End(v)  PROVE Bounded'
  <2>1. Len(<<>>) <= WireCap /\ Len(<<>>) <= 2
    BY <1>a
  <2> QED  BY <1>10, <2>1 DEF End, ViewTypeOK, Bounded
<1>11. CASE OverviewHeartbeat
  <2> DEFINE ms == <<Resync>>
  <2>1. Len(ms) <= 2
    BY Lengths
  <2>2. out' = [out EXCEPT ![Overview] = ms] /\ wire' = wire
    BY <1>11 DEF OverviewHeartbeat
  <2> HIDE DEF ms
  <2> QED  BY <1>b, <2>1, <2>2
<1>12. CASE UNCHANGED vars  BY <1>0, <1>12 DEF vars, viewVars
<1>13. CASE FleetSkipped
  <2>1. out[Overview] \in Seq(Messages) /\ out[Overview] # <<>>
    BY <1>13 DEF FleetSkipped, ViewTypeOK
  <2>2. Len(Tail(out[Overview])) = Len(out[Overview]) - 1 /\ Len(out[Overview]) \in Nat
    BY <2>1
  <2>3. Len(out[Overview]) <= 2
    BY DEF Bounded
  <2> DEFINE ms == Tail(out[Overview])
  <2>4. Len(ms) <= 2
    BY <2>2, <2>3
  <2>5. out' = [out EXCEPT ![Overview] = ms] /\ wire' = wire
    BY <1>13 DEF FleetSkipped
  <2> HIDE DEF ms
  <2> QED  BY <1>b, <2>4, <2>5
<1> QED
  BY HubCases, <1>1, <1>2, <1>3, <1>4, <1>5, <1>6, <1>7, <1>8, <1>9, <1>10, <1>11,
     <1>12, <1>13

-----------------------------------------------------------------------------
(***************************************************************************)
(* What the page was told last of its peer, on its way from the cache to   *)
(* the browser.  Silent: only hellos.  SaysOffline: nothing but hellos     *)
(* after a status that says offline.                                       *)
(***************************************************************************)
Bye == Status(Shown, FALSE)

Silent(ms) == \A i \in 1 .. Len(ms) : ms[i] = HelloMsg

SaysOffline(ms) ==
    \E i \in 1 .. Len(ms) :
        /\ ms[i] = Bye
        /\ \A j \in i + 1 .. Len(ms) : ms[j] = HelloMsg

EndsOffline ==
    \/ SaysOffline(out[Page])
    \/ /\ Silent(out[Page])
       /\ \/ SaysOffline(wire[Page])
          \/ Silent(wire[Page]) /\ shows[Page][Shown] = "offline"

(* The same of the events that wait in its channel. *)
NoWord(evs) == \A i \in 1 .. Len(evs) : evs[i].id # Shown

TellsOffline(evs) ==
    \E i \in 1 .. Len(evs) :
        /\ evs[i].id = Shown /\ evs[i].kind = "offline"
        /\ \A j \in i + 1 .. Len(evs) : evs[j].id # Shown

(***************************************************************************)
(* A page that was not misled hears of a dead peer: the last word of it,   *)
(* in the channel, in the handler's hands, on the wire or on the screen,   *)
(* is that it is offline.  Of a peer that is online it has got the hello,  *)
(* or an event is waiting with which it will.                              *)
(***************************************************************************)
HearsOfDeath ==
    serving[Page] # "no" /\ ~misled[Page] /\ ~online[Shown] =>
        \/ TellsOffline(chan[Page].buf)
        \/ NoWord(chan[Page].buf) /\ (serving[Page] = "loop" => EndsOffline)

HearsHello ==
    serving[Page] = "loop" /\ ~misled[Page] /\ online[Shown] /\ ~helloSent
        => ~NoWord(chan[Page].buf)

(* How appending and taking move the last word. *)
LEMMA AppendedSays ==
    ASSUME NEW ms \in Seq(Messages), NEW m \in Messages
    PROVE  /\ m = HelloMsg /\ Silent(ms) => Silent(Append(ms, m))
           /\ m = HelloMsg /\ SaysOffline(ms) => SaysOffline(Append(ms, m))
           /\ m = Bye => SaysOffline(Append(ms, m))
<1> DEFINE app == Append(ms, m)
           n == Len(ms) + 1
<1>1. /\ Len(ms) \in Nat /\ n \in Nat /\ n = Len(ms) + 1
      /\ Len(app) = n /\ app[n] = m
      /\ \A i \in 1 .. Len(ms) : app[i] = ms[i]
  BY AppendProperties
<1> HIDE DEF app, n
<1>2. ASSUME m = HelloMsg, Silent(ms)  PROVE Silent(app)
  BY <1>1, <1>2 DEF Silent
<1>3. ASSUME m = HelloMsg, SaysOffline(ms)  PROVE SaysOffline(app)
  <2>1. PICK i \in 1 .. Len(ms) : /\ ms[i] = Bye
                                  /\ \A j \in i + 1 .. Len(ms) : ms[j] = HelloMsg
    BY <1>3 DEF SaysOffline
  <2>2. i \in 1 .. Len(app) /\ app[i] = Bye
    BY <1>1, <2>1
  <2>3. ASSUME NEW j \in i + 1 .. Len(app)  PROVE app[j] = HelloMsg
    <3>1. j = n \/ (j \in i + 1 .. Len(ms) /\ j \in 1 .. Len(ms))
      BY <1>1, <2>3
    <3> QED  BY <1>1, <1>3, <2>1, <3>1
  <2> QED  BY <2>2, <2>3 DEF SaysOffline
<1>4. ASSUME m = Bye  PROVE SaysOffline(app)
  <2>1. n \in 1 .. Len(app) /\ \A j \in n + 1 .. Len(app) : app[j] = HelloMsg
    BY <1>1
  <2> QED  BY <1>1, <1>4, <2>1 DEF SaysOffline
<1> QED  BY <1>2, <1>3, <1>4 DEF app

LEMMA TakenSays ==
    ASSUME NEW ms \in Seq(Messages), ms # <<>>
    PROVE  /\ Silent(ms) => Head(ms) = HelloMsg /\ Silent(Tail(ms))
           /\ SaysOffline(ms) => \/ SaysOffline(Tail(ms))
                                 \/ Head(ms) = Bye /\ Silent(Tail(ms))
<1> DEFINE t == Tail(ms)
<1>1. /\ Len(ms) \in Nat \ {0} /\ Len(t) = Len(ms) - 1 /\ Head(ms) = ms[1]
      /\ \A i \in 1 .. Len(t) : t[i] = ms[i + 1]
  OBVIOUS
<1> HIDE DEF t
<1>2. ASSUME Silent(ms)  PROVE Head(ms) = HelloMsg /\ Silent(t)
  BY <1>1, <1>2 DEF Silent
<1>3. ASSUME SaysOffline(ms)
      PROVE  \/ SaysOffline(t)
             \/ Head(ms) = Bye /\ Silent(t)
  <2>1. PICK i \in 1 .. Len(ms) : /\ ms[i] = Bye
                                  /\ \A j \in i + 1 .. Len(ms) : ms[j] = HelloMsg
    BY <1>3 DEF SaysOffline
  <2>2. CASE i = 1
    <3>1. \A j \in 1 .. Len(t) : j + 1 \in i + 1 .. Len(ms)
      BY <1>1, <2>2
    <3> QED  BY <1>1, <2>1, <2>2, <3>1 DEF Silent
  <2>3. CASE i # 1
    <3>1. i - 1 \in 1 .. Len(t) /\ (i - 1) + 1 = i
      BY <1>1, <2>3
    <3>2. t[i - 1] = Bye
      BY <1>1, <2>1, <3>1
    <3>3. ASSUME NEW j \in (i - 1) + 1 .. Len(t)  PROVE t[j] = HelloMsg
      <4>1. j \in 1 .. Len(t) /\ j + 1 \in i + 1 .. Len(ms)
        BY <1>1, <3>1, <3>3
      <4> QED  BY <1>1, <2>1, <4>1
    <3> QED  BY <3>1, <3>2, <3>3 DEF SaysOffline
  <2> QED  BY <2>2, <2>3
<1> QED  BY <1>2, <1>3 DEF t

LEMMA AppendedTells ==
    ASSUME NEW evs \in Seq(Events), NEW ev \in Events
    PROVE  /\ ev.id # Shown /\ NoWord(evs) => NoWord(Append(evs, ev))
           /\ ev.id # Shown /\ TellsOffline(evs) => TellsOffline(Append(evs, ev))
           /\ ev.id = Shown /\ ev.kind = "offline" => TellsOffline(Append(evs, ev))
           /\ ev.id = Shown => ~NoWord(Append(evs, ev))
           /\ ~NoWord(evs) => ~NoWord(Append(evs, ev))
<1> DEFINE app == Append(evs, ev)
           n == Len(evs) + 1
<1>1. /\ Len(evs) \in Nat /\ n \in Nat /\ n = Len(evs) + 1
      /\ Len(app) = n /\ app[n] = ev
      /\ \A i \in 1 .. Len(evs) : app[i] = evs[i]
  BY AppendProperties
<1> HIDE DEF app, n
<1>2. ASSUME ev.id # Shown, NoWord(evs)  PROVE NoWord(app)
  BY <1>1, <1>2 DEF NoWord
<1>3. ASSUME ev.id # Shown, TellsOffline(evs)  PROVE TellsOffline(app)
  <2>1. PICK i \in 1 .. Len(evs) : /\ evs[i].id = Shown /\ evs[i].kind = "offline"
                                   /\ \A j \in i + 1 .. Len(evs) : evs[j].id # Shown
    BY <1>3 DEF TellsOffline
  <2>2. \A j \in i + 1 .. Len(app) : app[j].id # Shown
    BY <1>1, <1>3, <2>1
  <2> QED  BY <1>1, <2>1, <2>2 DEF TellsOffline
<1>4. ASSUME ev.id = Shown, ev.kind = "offline"  PROVE TellsOffline(app)
  <2>1. n \in 1 .. Len(app) /\ \A j \in n + 1 .. Len(app) : app[j].id # Shown
    BY <1>1
  <2> QED  BY <1>1, <1>4, <2>1 DEF TellsOffline
<1>5. ASSUME ev.id = Shown  PROVE ~NoWord(app)
  BY <1>1, <1>5 DEF NoWord
<1>6. ASSUME ~NoWord(evs)  PROVE ~NoWord(app)
  BY <1>1, <1>6 DEF NoWord
<1> QED  BY <1>2, <1>3, <1>4, <1>5, <1>6 DEF app

LEMMA TakenTells ==
    ASSUME NEW evs \in Seq(Events), evs # <<>>
    PROVE  /\ NoWord(evs) => Head(evs).id # Shown /\ NoWord(Tail(evs))
           /\ ~NoWord(evs) => Head(evs).id = Shown \/ ~NoWord(Tail(evs))
           /\ TellsOffline(evs) =>
                \/ TellsOffline(Tail(evs))
                \/ /\ Head(evs).id = Shown /\ Head(evs).kind = "offline"
                   /\ NoWord(Tail(evs))
<1> DEFINE t == Tail(evs)
<1>1. /\ Len(evs) \in Nat \ {0} /\ Len(t) = Len(evs) - 1 /\ Head(evs) = evs[1]
      /\ \A i \in 1 .. Len(t) : t[i] = evs[i + 1]
  OBVIOUS
<1> HIDE DEF t
<1>2. ASSUME NoWord(evs)  PROVE Head(evs).id # Shown /\ NoWord(t)
  BY <1>1, <1>2 DEF NoWord
<1>3. ASSUME ~NoWord(evs)  PROVE Head(evs).id = Shown \/ ~NoWord(t)
  <2>1. PICK i \in 1 .. Len(evs) : evs[i].id = Shown
    BY <1>3 DEF NoWord
  <2>2. CASE i = 1
    BY <1>1, <2>1, <2>2
  <2>3. CASE i # 1
    <3>1. i - 1 \in 1 .. Len(t) /\ t[i - 1].id = Shown
      BY <1>1, <2>1, <2>3
    <3> QED  BY <3>1 DEF NoWord
  <2> QED  BY <2>2, <2>3
<1>4. ASSUME TellsOffline(evs)
      PROVE  \/ TellsOffline(t)
             \/ Head(evs).id = Shown /\ Head(evs).kind = "offline" /\ NoWord(t)
  <2>1. PICK i \in 1 .. Len(evs) : /\ evs[i].id = Shown /\ evs[i].kind = "offline"
                                   /\ \A j \in i + 1 .. Len(evs) : evs[j].id # Shown
    BY <1>4 DEF TellsOffline
  <2>2. CASE i = 1
    BY <1>1, <2>1, <2>2 DEF NoWord
  <2>3. CASE i # 1
    <3>1. i - 1 \in 1 .. Len(t) /\ (i - 1) + 1 = i
      BY <1>1, <2>3
    <3>2. t[i - 1].id = Shown /\ t[i - 1].kind = "offline"
      BY <1>1, <2>1, <3>1
    <3>3. ASSUME NEW j \in (i - 1) + 1 .. Len(t)  PROVE t[j].id # Shown
      <4>1. j \in 1 .. Len(t) /\ j + 1 \in i + 1 .. Len(evs)
        BY <1>1, <3>1, <3>3
      <4> QED  BY <1>1, <2>1, <4>1
    <3> QED  BY <3>1, <3>2, <3>3 DEF TellsOffline
  <2> QED  BY <2>2, <2>3
<1> QED  BY <1>2, <1>3, <1>4 DEF t

-----------------------------------------------------------------------------
Rests ==
    /\ Types /\ HelloedIsKnown /\ OnlineMeansStreaming /\ Histories
    /\ Subscriptions /\ AnnouncedIsOnline /\ MuteIsNewer

(* A peer whose goroutine moves is not done, so the page's channel is open. *)
LEMMA MovesWhileOpen ==
    ASSUME Rests, serving[Page] # "no", NEW p \in Peers,
           RunPeer(p) \/ ApplySnapshot(p) \/ StreamCut(p)
    PROVE  chan[Page].state = "open"
<1>1. conn[p] # "exited"
  BY DEF RunPeer, Connect, ApplyHello, SkipHello, AnnounceOnline, StreamReturns, StreamCut,
         AfterStream, Redial, ApplySnapshot
<1>2. ~stopped
  BY <1>1 DEF Rests, Subscriptions
<1> QED  BY <1>2, TwoViewers DEF Rests, Subscriptions, Types, ChanTypeOK

(***************************************************************************)
(* What a step of the client does to the page: nothing; an event that does *)
(* not contradict the last word; the announcement of a transition; or it   *)
(* misleads.                                                               *)
(***************************************************************************)
Heard(ev) == chan'[Page].buf = Append(chan[Page].buf, ev)

Unheard == online'[Shown] = online[Shown] /\ chan'[Page].buf = chan[Page].buf

HeardInPassing ==
    /\ online'[Shown] = online[Shown]
    /\ \E ev \in Events : Heard(ev) /\ (ev.id # Shown \/ online[Shown])

HeardOfTransition ==
    /\ online'[Shown] # online[Shown]
    /\ \E ev \in Events :
          /\ Heard(ev) /\ ev.id = Shown
          /\ ev.kind = IF online'[Shown] THEN "online" ELSE "offline"

LEMMA TransitionIsHeard ==
    ASSUME Rests, chan[Page].state = "open", NEW p \in Peers, NEW to \in BOOLEAN,
           SetOnline(p, to)
    PROVE  Unheard \/ HeardInPassing \/ HeardOfTransition \/ Misleads(Page, p)
<1> DEFINE ev == [id |-> p, kind |-> IF to THEN "online" ELSE "offline", seen |-> latest[p]]
<1>1. /\ ev \in Events /\ ev.id = p /\ ev.kind = (IF to THEN "online" ELSE "offline")
      /\ ChanTypeOK /\ online \in [Peers -> BOOLEAN]
  BY DEF Rests, Types, CacheTypeOK, ConnTypeOK, Events
<1>2. online' = [online EXCEPT ![p] = to]
  BY DEF SetOnline
<1>3. CASE online[p] = to
  <2>1. UNCHANGED chan
    BY <1>3 DEF SetOnline
  <2> QED  BY <1>1, <1>2, <1>3, <2>1, TwoViewers DEF Unheard
<1>4. CASE online[p] # to
  <2>1. Broadcast(ev)
    BY <1>4 DEF SetOnline
  <2> HIDE DEF ev
  <2>2. chan'[Page].buf = chan[Page].buf \/ Heard(ev)
    BY <1>1, <2>1, OfferKeeps, TwoViewers DEF Heard
  <2>3. online'[p] = to /\ (p # Shown => online'[Shown] = online[Shown])
    BY <1>1, <1>2, TwoViewers
  <2>4. CASE chan'[Page].buf = chan[Page].buf
    BY <1>4, <2>3, <2>4 DEF Misleads
  <2>5. CASE Heard(ev) /\ p = Shown
    BY <1>1, <1>4, <2>3, <2>5 DEF HeardOfTransition
  <2>6. CASE Heard(ev) /\ p # Shown
    BY <1>1, <2>3, <2>6 DEF HeardInPassing
  <2> QED  BY <2>2, <2>4, <2>5, <2>6
<1> QED  BY <1>3, <1>4

LEMMA SnapshotIsHeard ==
    ASSUME Rests, chan[Page].state = "open", NEW p \in Peers, ApplySnapshot(p)
    PROVE  Unheard \/ HeardInPassing \/ Misleads(Page, p)
<1>1. PICK s \in pos[p] + 1 .. up[p] :
          /\ latest' = [latest EXCEPT ![p] = s]
          /\ Broadcast([id |-> p, kind |-> "snapshot", seen |-> s])
  BY DEF ApplySnapshot
<1> DEFINE ev == [id |-> p, kind |-> "snapshot", seen |-> s]
<1>2. /\ s \in Samples /\ pos[p] \in Nat /\ pos[p] < s /\ latest[p] \in Nat
      /\ latest \in [Peers -> Samples]
      /\ ChanTypeOK
  BY <1>1, PeerClientAssumption DEF Rests, Types, CacheTypeOK, Positions, Samples
<1>3. ev \in Events /\ ev.id = p
  BY <1>2 DEF Events
<1>4. Broadcast(ev)
  BY <1>1
<1> HIDE DEF ev
<1>5. online' = online
  BY DEF ApplySnapshot
<1>6. chan'[Page].buf = chan[Page].buf \/ Heard(ev)
  BY <1>2, <1>4, OfferKeeps, TwoViewers DEF Heard
<1>7. CASE chan'[Page].buf = chan[Page].buf
  BY <1>5, <1>7 DEF Unheard
<1>8. CASE Heard(ev) /\ (p # Shown \/ online[p])
  BY <1>3, <1>5, <1>8 DEF HeardInPassing
<1>9. CASE ~online[p]
  <2>1. conn[p] = "mute"
    BY <1>9 DEF ApplySnapshot, Rests, AnnouncedIsOnline
  <2>2. latest[p] <= pos[p]
    BY <2>1 DEF Rests, MuteIsNewer
  <2>3. latest'[p] # latest[p]
    BY <1>1, <1>2, <2>2
  <2> QED  BY <2>1, <2>3 DEF Misleads
<1> QED  BY <1>6, <1>7, <1>8, <1>9

LEMMA ClientIsHeard ==
    ASSUME Rests, serving[Page] # "no", ClientNext
    PROVE  \/ Unheard \/ HeardInPassing \/ HeardOfTransition
           \/ \E p \in Peers : Misleads(Page, p)
<1> DEFINE Good == \/ Unheard \/ HeardInPassing \/ HeardOfTransition
                   \/ \E p \in Peers : Misleads(Page, p)
<1>0. ASSUME UNCHANGED <<online, chan>>  PROVE Good
  BY <1>0 DEF Unheard
<1>1. ASSUME NEW p \in Peers, RunPeer(p) \/ ApplySnapshot(p) \/ StreamCut(p)  PROVE Good
  <2> USE DEF cacheVars
  <2>0. chan[Page].state = "open"
    BY <1>1, MovesWhileOpen
  <2>1. CASE Connect(p)  BY <1>0, <2>1 DEF Connect
  <2>2. CASE ApplyHello(p)  BY <1>0, <2>2 DEF ApplyHello
  <2>3. CASE SkipHello(p)  BY <1>0, <2>3 DEF SkipHello
  <2>4. CASE AnnounceOnline(p)
    BY <2>0, <2>4, TransitionIsHeard DEF AnnounceOnline
  <2>5. CASE StreamReturns(p) \/ StreamCut(p)
    BY <2>0, <2>5, TransitionIsHeard DEF StreamReturns, StreamCut, AfterStream
  <2>6. CASE Redial(p)  BY <1>0, <2>6 DEF Redial
  <2>7. CASE ApplySnapshot(p)
    BY <2>0, <2>7, SnapshotIsHeard
  <2> QED  BY <1>1, <2>1, <2>2, <2>3, <2>4, <2>5, <2>6, <2>7 DEF RunPeer
<1>2. CASE Shutdown
  <2>1. online' = online
    BY <1>2 DEF Shutdown, peerVars, cacheVars
  <2>2. chan'[Page].buf = chan[Page].buf
    <3>1. chan' = [v \in Viewers |->
                     IF chan[v].state = "open" THEN [chan[v] EXCEPT !.state = "closed"]
                     ELSE chan[v]]
      BY <1>2 DEF Shutdown
    <3> QED  BY <3>1, TwoViewers DEF Rests, Types, ChanTypeOK
  <2> QED  BY <2>1, <2>2 DEF Unheard
<1> QED  BY <1>1, <1>2 DEF ClientNext

Hears == HearsOfDeath /\ HearsHello

LEMMA HearsClient ==
    ASSUME Rests, ViewTypeOK, Hears, ClientStep
    PROVE  Hears'
<1>1. /\ ClientNext
      /\ misled' = [v \in Viewers |-> misled[v] \/ \E p \in Peers : Misleads(v, p)]
      /\ UNCHANGED <<serving, helloSent, out, wire, shows>>
  BY DEF ClientStep, viewVars
<1>2. misled'[Page] <=> misled[Page] \/ \E p \in Peers : Misleads(Page, p)
  BY <1>1, TwoViewers
<1> SUFFICES ASSUME serving[Page] # "no", ~misled'[Page]
             PROVE  Hears'
  BY <1>1 DEF Hears, HearsOfDeath, HearsHello
<1>3. ~misled[Page] /\ ~(\E p \in Peers : Misleads(Page, p))
  BY <1>2
<1>4. Unheard \/ HeardInPassing \/ HeardOfTransition
  BY <1>1, <1>3, ClientIsHeard
<1>5. /\ EndsOffline' <=> EndsOffline
      /\ chan[Page].buf \in Seq(Events)
      /\ online[Shown] \in BOOLEAN /\ online'[Shown] \in BOOLEAN
  <2>1. EndsOffline' <=> EndsOffline
    BY <1>1 DEF EndsOffline
  <2>2. ConnTypeOK'
    BY <1>1, ConnStep DEF PeersNext, Rests, Types
  <2> QED  BY <2>1, <2>2, TwoViewers DEF Rests, Types, ChanTypeOK, ConnTypeOK
<1>6. CASE Unheard
  BY <1>1, <1>3, <1>5, <1>6 DEF Unheard, Hears, HearsOfDeath, HearsHello
<1>7. CASE HeardInPassing
  <2>1. PICK ev \in Events : Heard(ev) /\ (ev.id # Shown \/ online[Shown])
    BY <1>7 DEF HeardInPassing
  <2>2. online'[Shown] = online[Shown] /\ chan'[Page].buf = Append(chan[Page].buf, ev)
    BY <1>7, <2>1 DEF HeardInPassing, Heard
  <2>3. HearsOfDeath'
    BY <1>1, <1>3, <1>5, <2>1, <2>2, AppendedTells DEF Hears, HearsOfDeath
  <2>4. HearsHello'
    BY <1>1, <1>3, <1>5, <2>1, <2>2, AppendedTells DEF Hears, HearsHello
  <2> QED  BY <2>3, <2>4 DEF Hears
<1>8. CASE HeardOfTransition
  <2>1. PICK ev \in Events :
            /\ Heard(ev) /\ ev.id = Shown
            /\ ev.kind = IF online'[Shown] THEN "online" ELSE "offline"
    BY <1>8 DEF HeardOfTransition
  <2>2. chan'[Page].buf = Append(chan[Page].buf, ev)
    BY <2>1 DEF Heard
  <2>3. HearsOfDeath'
    BY <1>5, <2>1, <2>2, AppendedTells DEF HearsOfDeath
  <2>4. HearsHello'
    BY <1>5, <2>1, <2>2, AppendedTells DEF HearsHello
  <2> QED  BY <2>3, <2>4 DEF Hears
<1> QED  BY <1>4, <1>6, <1>7, <1>8

(* A step that leaves the page, its handler and its channel alone. *)
PageKept ==
    /\ UNCHANGED <<online, helloSent>>
    /\ serving'[Page] = serving[Page] /\ misled'[Page] = misled[Page]
    /\ chan'[Page].buf = chan[Page].buf
    /\ out'[Page] = out[Page] /\ wire'[Page] = wire[Page]
    /\ shows'[Page] = shows[Page]

LEMMA HearsKept ==
    ASSUME Hears, PageKept
    PROVE  Hears'
  BY DEF Hears, HearsOfDeath, HearsHello, EndsOffline, PageKept

LEMMA HearsStart ==
    ASSUME Rests, ViewTypeOK, Hears, StartPage
    PROVE  Hears'
<1>1. /\ serving' = [serving EXCEPT ![Page] = "loop"]
      /\ helloSent' = known[Shown]
      /\ UNCHANGED <<online, chan, misled>>
  BY DEF StartPage, clientVars, peerVars, cacheVars
<1>2. serving[Page] = "starting" /\ Page \in Viewers
  BY TwoViewers DEF StartPage
<1>3. online[Shown] => known[Shown]
  BY TwoViewers DEF Rests, OnlineMeansStreaming
<1>4. HearsHello'
  BY <1>1, <1>3 DEF HearsHello
<1>5. ASSUME ~online[Shown]  PROVE EndsOffline'
  <2> DEFINE m == Status(Shown, FALSE)
             ms == IF known[Shown] THEN <<HelloMsg, m>> ELSE <<m>>
  <2>1. out' = [out EXCEPT ![Page] = ms]
    BY <1>5 DEF StartPage
  <2>2. m = Bye /\ m \in Messages
    BY TwoViewers, MessageTypes DEF Bye
  <2> HIDE DEF m
  <2>3. ms \in Seq(Messages) /\ SaysOffline(ms)
    <3>1. CASE known[Shown]
      <4>1. ms \in Seq(Messages) /\ Len(ms) = 2 /\ ms[2] = m
        BY <2>2, <3>1, ShortLists, MessageTypes
      <4> HIDE DEF ms
      <4>2. 2 \in 1 .. Len(ms) /\ \A j \in 2 + 1 .. Len(ms) : FALSE
        BY <4>1
      <4> QED  BY <2>2, <4>1, <4>2 DEF SaysOffline
    <3>2. CASE ~known[Shown]
      <4>1. ms \in Seq(Messages) /\ Len(ms) = 1 /\ ms[1] = m
        BY <2>2, <3>2, ShortLists, MessageTypes
      <4> HIDE DEF ms
      <4>2. 1 \in 1 .. Len(ms) /\ \A j \in 1 + 1 .. Len(ms) : FALSE
        BY <4>1
      <4> QED  BY <2>2, <4>1, <4>2 DEF SaysOffline
    <3> QED  BY <3>1, <3>2
  <2> HIDE DEF ms
  <2>4. out'[Page] = ms
    BY <1>2, <2>1 DEF ViewTypeOK
  <2> QED  BY <2>3, <2>4 DEF EndsOffline
<1>6. HearsOfDeath'
  BY <1>1, <1>2, <1>5 DEF Hears, HearsOfDeath
<1> QED  BY <1>4, <1>6 DEF Hears

LEMMA HearsTurn ==
    ASSUME Rests, ViewTypeOK, Hears, PageTurn
    PROVE  Hears'
<1> DEFINE buf == chan[Page].buf
           ev == Head(chan[Page].buf)
           deferred == ev.id = Shown /\ ~helloSent /\ known[Shown]
           first == IF deferred THEN <<HelloMsg>> ELSE <<>>
           told == CASE ev.id # Shown -> <<>>
                     [] ev.id = Shown /\ ev.kind # "snapshot" ->
                           <<Status(Shown, ev.kind = "online")>>
                     [] ev.id = Shown /\ ev.kind = "snapshot" ->
                           IF helloSent /\ ~deferred THEN <<Snap(Shown)>> ELSE <<>>
<1>1. /\ out' = [out EXCEPT ![Page] = first \o told]
      /\ helloSent' = (helloSent \/ deferred)
      /\ chan' = Received(Page)
      /\ serving[Page] = "loop" /\ out[Page] = <<>> /\ buf # <<>>
      /\ UNCHANGED <<online, serving, wire, shows, misled>>
  BY DEF PageTurn, peerVars, cacheVars
<1>2. buf \in Seq(Events) /\ chan'[Page].buf = Tail(buf)
  BY <1>1, TwoViewers DEF Rests, Types, ChanTypeOK, Received
<1>3. online[Shown] => known[Shown]
  BY TwoViewers DEF Rests, OnlineMeansStreaming
<1>4. out'[Page] = first \o told
  BY <1>1, TwoViewers DEF ViewTypeOK
<1>5. HearsHello'
  <2> SUFFICES ASSUME serving'[Page] = "loop", ~misled'[Page], online'[Shown], ~helloSent'
               PROVE  ~NoWord(Tail(buf))
    BY <1>2 DEF HearsHello
  <2>1. ~helloSent /\ ~deferred /\ ~NoWord(buf)
    BY <1>1 DEF Hears, HearsHello
  <2>2. ev.id # Shown
    BY <1>1, <1>3, <2>1
  <2> QED  BY <1>1, <1>2, <2>1, <2>2, TakenTells
<1>6. HearsOfDeath'
  <2> SUFFICES ASSUME ~misled[Page], ~online[Shown]
               PROVE  \/ TellsOffline(Tail(buf))
                      \/ NoWord(Tail(buf)) /\ EndsOffline'
    BY <1>1, <1>2 DEF HearsOfDeath
  <2>1. TellsOffline(buf) \/ (NoWord(buf) /\ EndsOffline)
    BY <1>1 DEF Hears, HearsOfDeath
  <2>2. \/ TellsOffline(Tail(buf))
        \/ ev.id = Shown /\ ev.kind = "offline" /\ NoWord(Tail(buf))
        \/ ev.id # Shown /\ NoWord(Tail(buf)) /\ EndsOffline
    BY <1>1, <1>2, <2>1, TakenTells
  <2>3. CASE ev.id = Shown /\ ev.kind = "offline"
    <3> DEFINE m == Status(Shown, FALSE)
    <3>0. m = Bye /\ m \in Messages
      BY TwoViewers, MessageTypes DEF Bye
    <3>1. told = <<m>>
      <4>1. (ev.kind = "online") = FALSE
        BY <2>3
      <4> QED  BY <2>3, <4>1
    <3>2. first \in Seq(Messages)
      BY ShortLists, MessageTypes
    <3> HIDE DEF first, told, m
    <3>3. /\ <<m>> \in Seq(Messages) /\ Len(<<m>>) = 1 /\ <<m>>[1] = m
      BY <3>0
    <3> DEFINE b == <<m>>
               ms == first \o b
               n == Len(first) + 1
    <3>4. b \in Seq(Messages) /\ Len(b) = 1 /\ b[1] = m
      BY <3>3
    <3> HIDE DEF b
    <3>5. Len(first) \in Nat /\ n \in Nat /\ n = Len(first) + Len(b) /\ n - Len(first) = 1
      BY <3>2, <3>4
    <3>6. /\ Len(ms) = n
          /\ \A i \in 1 .. n : ms[i] = IF i <= Len(first) THEN first[i] ELSE b[i - Len(first)]
      BY <3>2, <3>4, <3>5, ConcatProperties
    <3>7. n \in 1 .. n /\ ~(n <= Len(first)) /\ \A j \in n + 1 .. n : FALSE
      BY <3>5
    <3> HIDE DEF ms, n
    <3>8. ms[n] = m
      BY <3>4, <3>5, <3>6, <3>7
    <3>9. SaysOffline(ms)
      BY <3>0, <3>6, <3>7, <3>8 DEF SaysOffline
    <3>10. out'[Page] = ms
      BY <1>4, <3>1 DEF ms, b
    <3> QED  BY <2>2, <2>3, <3>9, <3>10 DEF EndsOffline
  <2>4. CASE ev.id # Shown /\ NoWord(Tail(buf)) /\ EndsOffline
    <3>1. first = <<>> /\ told = <<>>
      BY <2>4
    <3> HIDE DEF first, told
    <3>2. out'[Page] = <<>>
      BY <1>4, <3>1, Lengths
    <3>3. out'[Page] = out[Page]
      BY <1>1, <3>2
    <3> QED  BY <1>1, <2>4, <3>3 DEF EndsOffline
  <2> QED  BY <2>2, <2>3, <2>4
<1> QED  BY <1>5, <1>6 DEF Hears

(* What a handler writes and a browser reads moves the last word along. *)
LEMMA HearsWrite ==
    ASSUME Rests, ViewTypeOK, Hears, Write(Page)
    PROVE  Hears'
<1> DEFINE h == Head(out[Page])
           m == IF h = Resync THEN Servers ELSE h
<1>1. /\ wire' = [wire EXCEPT ![Page] = Append(wire[Page], m)]
      /\ out' = [out EXCEPT ![Page] = Tail(out[Page])]
      /\ out[Page] # <<>>
      /\ UNCHANGED <<online, chan, serving, helloSent, shows, misled>>
  BY DEF Write, clientVars, peerVars, cacheVars
<1>2. /\ out[Page] \in Seq(Messages) /\ wire[Page] \in Seq(Messages)
      /\ out'[Page] = Tail(out[Page]) /\ wire'[Page] = Append(wire[Page], m)
  BY <1>1, TwoViewers DEF ViewTypeOK
<1>3. h = HelloMsg \/ h = Bye => m = h
  BY DEF HelloMsg, Bye, Status, Resync
<1>4. HelloMsg \in Messages /\ Bye \in Messages
  BY MessageTypes, TwoViewers DEF Bye
<1>5. EndsOffline => EndsOffline'
  <2> HIDE DEF h, m
  <2>1. CASE SaysOffline(out[Page])
    <3>1. SaysOffline(Tail(out[Page])) \/ (h = Bye /\ Silent(Tail(out[Page])))
      BY <1>1, <1>2, <2>1, TakenSays DEF h
    <3>2. h = Bye => SaysOffline(Append(wire[Page], m))
      BY <1>2, <1>3, <1>4, AppendedSays DEF Bye
    <3> QED  BY <1>2, <3>1, <3>2 DEF EndsOffline
  <2>2. CASE Silent(out[Page])
    <3>1. h = HelloMsg /\ Silent(Tail(out[Page]))
      BY <1>1, <1>2, <2>2, TakenSays DEF h
    <3>2. /\ SaysOffline(wire[Page]) => SaysOffline(Append(wire[Page], m))
          /\ Silent(wire[Page]) => Silent(Append(wire[Page], m))
      BY <1>2, <1>3, <1>4, <3>1, AppendedSays
    <3> QED
      BY <1>1, <1>2, <2>1, <3>1, <3>2 DEF EndsOffline
  <2> QED  BY <2>1, <2>2 DEF EndsOffline
<1> QED  BY <1>1, <1>5 DEF Hears, HearsOfDeath, HearsHello

LEMMA HearsRead ==
    ASSUME Rests, ViewTypeOK, Hears, Read(Page)
    PROVE  Hears'
<1> DEFINE m == Head(wire[Page])
<1>1. /\ wire' = [wire EXCEPT ![Page] = Tail(wire[Page])]
      /\ wire[Page] # <<>>
      /\ UNCHANGED <<online, chan, serving, helloSent, out, misled>>
  BY DEF Read, clientVars, peerVars, cacheVars
<1>2. wire[Page] \in Seq(Messages) /\ wire'[Page] = Tail(wire[Page])
  BY <1>1, TwoViewers DEF ViewTypeOK
<1>3. m = HelloMsg => shows' = shows
  BY DEF Read, HelloMsg
<1>4. m = Bye => shows'[Page][Shown] = "offline"
  <2> SUFFICES ASSUME m = Bye  PROVE shows'[Page][Shown] = "offline"
    OBVIOUS
  <2>1. m.type = "status" /\ m.id = Shown /\ m.online = FALSE
    BY DEF Bye, Status
  <2>2. shows' = [shows EXCEPT ![Page][Shown] = "offline"]
    BY <2>1 DEF Read, Says
  <2> QED  BY <2>2, TwoViewers DEF ViewTypeOK
<1>5. EndsOffline => EndsOffline'
  <2> HIDE DEF m
  <2>1. SaysOffline(wire[Page]) =>
            SaysOffline(wire'[Page]) \/ (m = Bye /\ Silent(wire'[Page]))
    BY <1>1, <1>2, TakenSays DEF m
  <2>2. Silent(wire[Page]) => m = HelloMsg /\ Silent(wire'[Page])
    BY <1>1, <1>2, TakenSays DEF m
  <2> QED  BY <1>1, <1>3, <1>4, <2>1, <2>2 DEF EndsOffline
<1> QED  BY <1>1, <1>5 DEF Hears, HearsOfDeath, HearsHello

LEMMA HearsStep ==
    ASSUME Rests, ViewTypeOK, Hears, [HubNext]_vars
    PROVE  Hears'
<1> USE TwoViewers
<1>a. ChanTypeOK  BY DEF Rests, Types
<1>1. CASE ClientStep  BY <1>1, HearsClient
<1>2. CASE EnvStep
  <2>1. UNCHANGED <<online, chan>>
    <3>1. EnvNext  BY <1>2 DEF EnvStep
    <3> QED  BY <3>1 DEF EnvNext, PeerSamples, PeerGoes, PeerComes, CancelContext,
                         peerVars, cacheVars
  <2>2. PageKept
    BY <1>2, <2>1 DEF EnvStep, viewVars, PageKept
  <2> QED  BY <2>2, HearsKept
<1>3. ASSUME NEW v \in Viewers, Open(v)  PROVE Hears'
  <2>1. /\ UNCHANGED <<online, helloSent, out, wire, shows>>
        /\ chan' = Subscribed(v)
        /\ serving' = [serving EXCEPT ![v] = "starting"]
        /\ misled' = [misled EXCEPT ![v] = FALSE]
    BY <1>3 DEF Open, peerVars, cacheVars
  <2>2. CASE v = Page
    <3>1. chan'[Page].buf = <<>> /\ serving'[Page] = "starting"
      BY <1>a, <2>1, <2>2 DEF Subscribed, ChanTypeOK, Rests, Subscriptions
    <3>2. NoWord(<<>>)
      BY DEF NoWord
    <3> QED  BY <3>1, <3>2 DEF Hears, HearsOfDeath, HearsHello
  <2>3. CASE v # Page
    <3>1. /\ serving'[Page] = serving[Page] /\ misled'[Page] = misled[Page]
          /\ chan'[Page].buf = chan[Page].buf
      BY <1>a, <2>1, <2>3 DEF Subscribed, ChanTypeOK, Rests, Subscriptions, ViewTypeOK
    <3> QED  BY <2>1, <3>1, HearsKept DEF PageKept
  <2> QED  BY <2>2, <2>3
<1>4. CASE StartPage  BY <1>4, HearsStart
<1>5. CASE PageTurn  BY <1>5, HearsTurn
<1>6. CASE StartOverview
  <2>1. PageKept
    BY <1>6 DEF StartOverview, PageKept, clientVars, peerVars, cacheVars, ViewTypeOK,
                Rests, Subscriptions
  <2> QED  BY <2>1, HearsKept
<1>7. CASE OverviewTurn
  <2>1. chan'[Page].buf = chan[Page].buf
    BY <1>7, <1>a DEF OverviewTurn, Received, ChanTypeOK
  <2>2. UNCHANGED <<online, helloSent, serving, misled, wire, shows>>
    BY <1>7 DEF OverviewTurn, peerVars, cacheVars
  <2>3. out'[Page] = out[Page]
    BY <1>7 DEF OverviewTurn, ViewTypeOK
  <2> QED  BY <2>1, <2>2, <2>3, HearsKept DEF PageKept
<1>8. ASSUME NEW v \in Viewers, Write(v)  PROVE Hears'
  <2>1. CASE v = Page  BY <1>8, <2>1, HearsWrite
  <2>2. CASE v # Page
    <3>1. UNCHANGED <<online, helloSent, serving, misled, chan, shows>>
      BY <1>8 DEF Write, clientVars, peerVars, cacheVars
    <3>2. out'[Page] = out[Page] /\ wire'[Page] = wire[Page]
      BY <1>8, <2>2 DEF Write, ViewTypeOK
    <3> QED  BY <3>1, <3>2, HearsKept DEF PageKept
  <2> QED  BY <2>1, <2>2
<1>9. ASSUME NEW v \in Viewers, Read(v)  PROVE Hears'
  <2>1. CASE v = Page  BY <1>9, <2>1, HearsRead
  <2>2. CASE v # Page
    <3>1. UNCHANGED <<online, helloSent, serving, misled, chan, out>>
      BY <1>9 DEF Read, clientVars, peerVars, cacheVars
    <3>2. wire'[Page] = wire[Page]
      BY <1>9, <2>2 DEF Read, ViewTypeOK
    <3>3. shows'[Page] = shows[Page]
      <4>1. Head(wire[v]) \in Messages
        <5>1. wire[v] \in Seq(Messages) /\ wire[v] # <<>>
          BY <1>9 DEF Read, ViewTypeOK
        <5> QED  BY <5>1
      <4>2. Head(wire[v]).type \in {"status", "snapshot", "servers", "hello"}
        BY <4>1, MessageKinds
      <4>3. \A x : [shows EXCEPT ![v] = x][Page] = shows[Page]
        BY <2>2 DEF ViewTypeOK
      <4>4. \A q, x : [shows EXCEPT ![v][q] = x][Page] = shows[Page]
        BY <2>2 DEF ViewTypeOK
      <4> QED  BY <1>9, <4>2, <4>3, <4>4 DEF Read
    <3> QED  BY <3>1, <3>2, <3>3, HearsKept DEF PageKept
  <2> QED  BY <2>1, <2>2
<1>10. ASSUME NEW v \in Viewers, End(v)  PROVE Hears'
  <2>1. CASE v = Page
    <3>1. serving'[Page] = "no"
      BY <1>10, <2>1 DEF End, Rests, Subscriptions
    <3> QED  BY <3>1 DEF Hears, HearsOfDeath, HearsHello
  <2>2. CASE v # Page
    <3>1. UNCHANGED <<online, shows>> /\ helloSent' = helloSent
      BY <1>10, <2>2 DEF End, peerVars, cacheVars, ViewTypeOK
    <3>2. /\ serving'[Page] = serving[Page] /\ misled'[Page] = misled[Page]
          /\ out'[Page] = out[Page] /\ wire'[Page] = wire[Page]
      BY <1>10, <2>2 DEF End, ViewTypeOK, Rests, Subscriptions
    <3>3. chan'[Page].buf = chan[Page].buf
      BY <1>10, <1>a, <2>2 DEF End, Cancelled, ChanTypeOK
    <3> QED  BY <3>1, <3>2, <3>3, HearsKept DEF PageKept
  <2> QED  BY <2>1, <2>2
<1>11. CASE OverviewHeartbeat
  <2>1. PageKept
    BY <1>11 DEF OverviewHeartbeat, PageKept, clientVars, peerVars, cacheVars, ViewTypeOK
  <2> QED  BY <2>1, HearsKept
<1>12. CASE UNCHANGED vars
  <2>1. PageKept
    BY <1>12 DEF vars, viewVars, clientVars, peerVars, cacheVars, PageKept
  <2> QED  BY <2>1, HearsKept
<1>13. CASE FleetSkipped
  <2>1. PageKept
    BY <1>13 DEF FleetSkipped, PageKept, clientVars, peerVars, cacheVars, ViewTypeOK
  <2> QED  BY <2>1, HearsKept
<1> QED
  BY HubCases, <1>1, <1>2, <1>3, <1>4, <1>5, <1>6, <1>7, <1>8, <1>9, <1>10, <1>11,
     <1>12, <1>13

-----------------------------------------------------------------------------
HubInv == Rests /\ ViewTypeOK /\ Bounded /\ Hears

LEMMA HubInvAtFirst == HubInit => HubInv
<1> SUFFICES ASSUME HubInit  PROVE HubInv
  OBVIOUS
<1> USE TwoViewers
<1>1. PeerClientInit /\ serving = [v \in Viewers |-> "no"]
  BY DEF HubInit
<1>2. Types
  BY <1>1, TypesAtFirst DEF Types
<1>3. Histories
  <2> SUFFICES ASSUME NEW p \in Peers  PROVE OneHistory(p)
    BY DEF Histories
  <2>1. Contents(ring[p]) = <<>> /\ latest[p] = 0 /\ up[p] = 0
    BY <1>1 DEF PeerClientInit, Contents, EmptyRing
  <2>2. Climbs(<<>>, 0)
    BY DEF Climbs
  <2> QED  BY <2>1, <2>2 DEF OneHistory
<1>4. /\ HelloedIsKnown /\ OnlineMeansStreaming /\ AnnouncedIsOnline /\ MuteIsNewer
      /\ Subscriptions
  BY <1>1 DEF PeerClientInit, HelloedIsKnown, OnlineMeansStreaming, AnnouncedIsOnline,
              MuteIsNewer, Subscriptions
<1>5. ViewTypeOK
  BY ShortLists, MessageTypes DEF HubInit, ViewTypeOK
<1>6. Bounded
  BY HubLiveAssumption, Lengths DEF HubInit, Bounded
<1>7. Hears
  BY <1>1 DEF Hears, HearsOfDeath, HearsHello
<1> QED  BY <1>2, <1>3, <1>4, <1>5, <1>6, <1>7 DEF HubInv, Rests

LEMMA HubInvHolds == HubSpec => []HubInv
<1>1. ASSUME HubInv, [HubNext]_vars  PROVE HubInv'
  <2>1. [PeersNext]_clientVars
    BY <1>1, HandlersAreViewers DEF HubInv, Rests
  <2>2. Types'
    BY <1>1, <2>1, ConnStep, CacheStep, ChanStep DEF HubInv, Rests, Types
  <2>3. HelloedIsKnown' /\ OnlineMeansStreaming' /\ AnnouncedIsOnline'
    BY <1>1, <2>1, OnlineStep, AnnouncedStep DEF HubInv, Rests, Types
  <2>4. Histories' /\ MuteIsNewer'
    BY <1>1, <2>1, HistoriesStep, MuteStep DEF HubInv, Rests, Types
  <2>5. Subscriptions'
    BY <1>1, SubscriptionsStep DEF HubInv, Rests
  <2>6. ViewTypeOK' /\ Bounded'
    BY <1>1, ViewStep, BoundedStep DEF HubInv, Rests
  <2>7. Hears'
    BY <1>1, HearsStep DEF HubInv
  <2> QED  BY <2>2, <2>3, <2>4, <2>5, <2>6, <2>7 DEF HubInv, Rests
<1>2. HubInv /\ [HubNext]_vars => HubInv'
  BY <1>1
<1> QED  BY <1>2, HubInvAtFirst, PTL DEF HubSpec

(***************************************************************************)
(* The hub's handlers use the client as its viewers may: whatever was      *)
(* proved of the client with viewers of which nothing is known holds of    *)
(* the client under the page and the overview (handleServerLive,           *)
(* handleOverviewLive).                                                    *)
(***************************************************************************)
THEOREM HandlersRefineViewers == HubSpec => PeerClientInit /\ [][PeersNext]_clientVars
<1>1. HubInit => PeerClientInit
  BY DEF HubInit
<1>2. HubInv /\ [HubNext]_vars => [PeersNext]_clientVars
  BY HandlersAreViewers DEF HubInv, Rests
<1> QED  BY <1>1, <1>2, HubInvHolds, PTL DEF HubSpec

(***************************************************************************)
(* State of the client, handlers and browsers keeps its type, and neither  *)
(* a connection nor a handler holds more than it may, for any number of    *)
(* peers and any sizes (handleServerLive, handleOverviewLive, useLive).    *)
(***************************************************************************)
THEOREM HubTypeCorrect == HubSpec => []HubTypeOK
<1>1. HubInv => HubTypeOK
  BY TypesTogether DEF HubInv, Rests, Types, ViewTypeOK, Bounded, Subscriptions, HubTypeOK
<1> QED  BY <1>1, HubInvHolds, PTL

(***************************************************************************)
(* A page that got all there was to get, and whose channel lost nothing of *)
(* it, does not show a dead peer as live, whenever it connected, for any   *)
(* number of peers and any sizes of the channels and connections           *)
(* (handleServerLive, useLive).                                            *)
(***************************************************************************)
THEOREM DeadPeersAreShownOffline == HubSpec => []NoDeadPeerShownLive
<1>1. HubInv => NoDeadPeerShownLive
  <2> SUFFICES ASSUME HubInv, Settled(Page), ~misled[Page], Dead(Shown)
               PROVE  shows[Page][Shown] = "offline"
    BY DEF NoDeadPeerShownLive
  <2>1. ~online[Shown]
    BY TwoViewers DEF HubInv, Rests, OnlineMeansStreaming, Dead
  <2>2. /\ serving[Page] = "loop" /\ chan[Page].buf = <<>>
        /\ out[Page] = <<>> /\ wire[Page] = <<>>
    BY DEF Settled
  <2>3. ~TellsOffline(<<>>) /\ ~SaysOffline(<<>>)
    BY DEF TellsOffline, SaysOffline
  <2>4. EndsOffline
    BY <2>1, <2>2, <2>3 DEF HubInv, Hears, HearsOfDeath
  <2> QED  BY <2>2, <2>3, <2>4 DEF EndsOffline
<1> QED  BY <1>1, HubInvHolds, PTL

(***************************************************************************)
(* Of an announced peer the page has its hello as soon as nothing is on    *)
(* the way to it, for any number of peers and any sizes: the deferred      *)
(* hello is never forgotten (handleServerLive, serverSummary).             *)
(***************************************************************************)
THEOREM HelloReachesPage == HubSpec => []HelloNotForgotten
<1>1. HubInv => HelloNotForgotten
  <2> SUFFICES ASSUME HubInv, Settled(Page), ~misled[Page], online[Shown]
               PROVE  helloSent
    BY DEF HelloNotForgotten
  <2>1. NoWord(<<>>)
    BY DEF NoWord
  <2> QED  BY <2>1 DEF Settled, HubInv, Hears, HearsHello
<1> QED  BY <1>1, HubInvHolds, PTL
=============================================================================
