----------------------------- MODULE LiveStream -----------------------------
(***************************************************************************)
(* A dashboard of the local machine: Server.handleLive streaming the       *)
(* collector to one browser that cuts and reopens its connection           *)
(* (useLive.ts over connectStream).  Each connection has a handler         *)
(* goroutine of its own; an old handler may outlive its browser while the  *)
(* next one is already serving.                                            *)
(***************************************************************************)
EXTENDS Collector

CONSTANTS
    MaxConns,   \* bound: connections the browser opens
    MaxSSE,     \* MaxSSEClients: streams served at once (withRequestLimits)
    WireCap,    \* messages the connection holds before a write blocks
    ViewCap,    \* RING_CAP of the browser
    Unfit       \* samples json.Marshal refuses: one of their floats is not finite

ASSUME LiveAssumption ==
    /\ MaxConns \in Nat /\ MaxSSE \in Nat \ {0}
    /\ WireCap \in Nat \ {0} /\ ViewCap \in Nat \ {0}
    /\ MaxSubs = MaxConns
    /\ Unfit \subseteq Snapshots

Conns == 1 .. MaxConns
NoSub == MaxSubs

VARIABLES
    pc,         \* pc[k]: where the handler of connection k is
    sub,        \* sub[k]: the channel its Subscribe returned
    msg,        \* msg[k]: the event it is about to write
    sent,       \* sent[k]: events written to the connection, oldest first
    got,        \* got[k]: how many of them the browser has read
    alive,      \* alive[k]: the browser's end of the connection is open
    cur,        \* the browser's current connection, 0 between two
    view,       \* the snapshots the dashboard shows, oldest first
    lost,       \* history: lost[id], snapshots channel id was too full for
    from        \* history: from[k], the latest when handler k subscribed

history == <<lost, from>>
handlerVars == <<pc, sub, msg, sent>>
browserVars == <<got, alive, cur, view>>
vars == <<collectorVars, handlerVars, browserVars, history>>

Hello(recent) == [hello |-> TRUE, snaps |-> recent]
Snapshot(s)   == [hello |-> FALSE, snaps |-> <<s>>]
NoMsg         == Hello(<<>>)
Encodable(m)  == \A i \in DOMAIN m.snaps : m.snaps[i] \notin Unfit
Msgs == [hello : BOOLEAN, snaps : Seq(Snapshots)]
Serving == {k \in Conns : pc[k] \notin {"unused", "done"}}

LiveInit ==
    /\ CollectorInit
    /\ pc = [k \in Conns |-> "unused"]
    /\ sub = [k \in Conns |-> NoSub]
    /\ msg = [k \in Conns |-> NoMsg]
    /\ sent = [k \in Conns |-> <<>>]
    /\ got = [k \in Conns |-> 0]
    /\ alive = [k \in Conns |-> FALSE]
    /\ cur = 0
    /\ view = <<>>
    /\ lost = [id \in SubIds |-> {}]
    /\ from = [k \in Conns |-> 0]

-----------------------------------------------------------------------------
(* The collector beside the handlers. *)

CollectorSamples ==
    /\ Sample
    /\ lost' = [id \in SubIds |->
                  IF id \in subs /\ Len(chan[id].buf) >= SubscriberBuffer
                  THEN lost[id] \cup {latest'} ELSE lost[id]]
    /\ UNCHANGED <<handlerVars, browserVars, from>>

CollectorReturns == Return /\ UNCHANGED <<handlerVars, browserVars, history>>

ServerIsTold == CancelContext /\ UNCHANGED <<handlerVars, browserVars, history>>

-----------------------------------------------------------------------------
(* handleLive, one step per thing another goroutine can observe. *)

(* Mutant: the ring is copied before the subscription. *)
HandlerSubscribesLate(k) ==
    \/ /\ pc[k] = "accepted"
       /\ msg' = [msg EXCEPT ![k] = Hello(Contents(ring))]
       /\ pc' = [pc EXCEPT ![k] = "copied"]
       /\ UNCHANGED <<collectorVars, sub, sent, browserVars, history>>
    \/ /\ pc[k] = "copied"
       /\ Subscribe
       /\ sub' = [sub EXCEPT ![k] = nextSub]
       /\ pc' = [pc EXCEPT ![k] = "write"]
       /\ from' = [from EXCEPT ![k] = latest]
       /\ UNCHANGED <<msg, sent, browserVars, lost>>

(***************************************************************************)
(* Subscribe, before the ring is read.                                     *)
(***************************************************************************)
HandlerSubscribes(k) ==
    /\ pc[k] = "accepted"
    /\ Subscribe
    /\ sub' = [sub EXCEPT ![k] = nextSub]
    /\ pc' = [pc EXCEPT ![k] = "subscribed"]
    /\ from' = [from EXCEPT ![k] = latest]
    /\ UNCHANGED <<msg, sent, browserVars, lost>>

(* Mutant: the copy misses the newest slot. *)
HandlerReadsShort(k) ==
    /\ pc[k] = "subscribed"
    /\ msg' = [msg EXCEPT ![k] =
                 Hello(SubSeq(Contents(ring), 1, Len(Contents(ring)) - 1))]
    /\ pc' = [pc EXCEPT ![k] = "write"]
    /\ UNCHANGED <<collectorVars, sub, sent, browserVars, history>>

(***************************************************************************)
(* Recent: the copy of the ring the hello will carry.                      *)
(***************************************************************************)
HandlerReadsRecent(k) ==
    /\ pc[k] = "subscribed"
    /\ msg' = [msg EXCEPT ![k] = Hello(Contents(ring))]
    /\ pc' = [pc EXCEPT ![k] = "write"]
    /\ UNCHANGED <<collectorVars, sub, sent, browserVars, history>>

(***************************************************************************)
(* One event reaches the connection: it has room, whether or not anybody   *)
(* still reads at the other end.                                           *)
(***************************************************************************)
HandlerWrites(k) ==
    /\ pc[k] = "write"
    /\ Encodable(msg[k])
    /\ Len(sent[k]) - got[k] < WireCap
    /\ sent' = [sent EXCEPT ![k] = Append(@, msg[k])]
    /\ pc' = [pc EXCEPT ![k] = "loop"]
    /\ UNCHANGED <<collectorVars, sub, msg, browserVars, history>>

(***************************************************************************)
(* event cannot marshal what it was given: it is logged and skipped before *)
(* the connection is touched, and the stream goes on.  A hello is skipped  *)
(* as a whole when one of the snapshots it carries is unfit.               *)
(***************************************************************************)
HandlerSkips(k) ==
    /\ pc[k] = "write"
    /\ ~Encodable(msg[k])
    /\ pc' = [pc EXCEPT ![k] = "loop"]
    /\ UNCHANGED <<collectorVars, sub, msg, sent, browserVars, history>>

HandlerReceives(k) ==
    /\ pc[k] = "loop"
    /\ sub[k] \in SubIds
    /\ chan[sub[k]].buf # <<>>
    /\ msg' = [msg EXCEPT ![k] = Snapshot(Head(chan[sub[k]].buf))]
    /\ Receive(sub[k])
    /\ pc' = [pc EXCEPT ![k] = "write"]
    /\ UNCHANGED <<sub, sent, browserVars, history>>

(* Mutant: no heartbeat finds out that the browser is gone. *)
MayLeaveNoHeartbeat(k) ==
    \/ pc[k] = "write" /\ Encodable(msg[k]) /\ (~alive[k] \/ Len(sent[k]) - got[k] >= WireCap)
    \/ pc[k] = "loop" /\ (Drained(sub[k]) \/ ctxDone)

(* Mutant: a write has no deadline. *)
MayLeaveNoDeadline(k) ==
    \/ pc[k] = "write" /\ Encodable(msg[k]) /\ ~alive[k]
    \/ pc[k] = "loop" /\ (Drained(sub[k]) \/ ctxDone \/ ~alive[k])

(***************************************************************************)
(* The ways out: a write that fails or runs into its deadline; in the      *)
(* loop, the closed channel, or the request context, which ends with the   *)
(* server's (BaseContext), with the connection, or by a failed heartbeat.  *)
(* The deferred unsubscribe runs on every one of them.                     *)
(***************************************************************************)
MayLeave(k) ==
    \/ /\ pc[k] = "write" /\ Encodable(msg[k])
       /\ ~alive[k] \/ Len(sent[k]) - got[k] >= WireCap
    \/ pc[k] = "loop" /\ (Drained(sub[k]) \/ ctxDone \/ ~alive[k])

HandlerLeaves(k) ==
    /\ MayLeave(k)
    /\ Cancel(sub[k])
    /\ pc' = [pc EXCEPT ![k] = "done"]
    /\ UNCHANGED <<sub, msg, sent, browserVars, history>>

HandlerStep(k) ==
    \/ HandlerSubscribes(k)
    \/ HandlerReadsRecent(k)
    \/ HandlerWrites(k)
    \/ HandlerSkips(k)
    \/ HandlerReceives(k)
    \/ HandlerLeaves(k)

-----------------------------------------------------------------------------
(* The browser. *)

(***************************************************************************)
(* open: a new request, accepted while a stream slot is free.  A refused   *)
(* one (429) changes nothing and is retried.                               *)
(***************************************************************************)
BrowserConnects(k) ==
    /\ cur = 0
    /\ pc[k] = "unused"
    /\ \A j \in Conns : j < k => pc[j] # "unused"
    /\ Cardinality(Serving) < MaxSSE
    /\ cur' = k
    /\ alive' = [alive EXCEPT ![k] = TRUE]
    /\ pc' = [pc EXCEPT ![k] = "accepted"]
    /\ UNCHANGED <<collectorVars, sub, msg, sent, got, view, history>>

(***************************************************************************)
(* pushRing.                                                               *)
(***************************************************************************)
PushView(s) == Newest(Append(view, s), ViewCap)

(***************************************************************************)
(* consume: a hello replaces what is shown, a snapshot is appended.        *)
(***************************************************************************)
BrowserReads ==
    /\ cur # 0
    /\ got[cur] < Len(sent[cur])
    /\ LET m == sent[cur][got[cur] + 1] IN
       view' = IF m.hello THEN Newest(m.snaps, ViewCap) ELSE PushView(m.snaps[1])
    /\ got' = [got EXCEPT ![cur] = @ + 1]
    /\ UNCHANGED <<collectorVars, handlerVars, alive, cur, history>>

(***************************************************************************)
(* The browser lets go of its stream: it saw the end of it, or cuts it     *)
(* (stall watchdog, navigation, network) and forgets what was on the way.  *)
(***************************************************************************)
BrowserLetsGo ==
    /\ cur # 0
    /\ alive' = [alive EXCEPT ![cur] = FALSE]
    /\ cur' = 0
    /\ UNCHANGED <<collectorVars, handlerVars, got, view, history>>

LiveNext ==
    \/ CollectorSamples \/ CollectorReturns \/ ServerIsTold
    \/ \E k \in Conns : HandlerStep(k) \/ BrowserConnects(k)
    \/ BrowserReads
    \/ BrowserLetsGo

(***************************************************************************)
(* Goroutines are scheduled; a write either completes or meets its         *)
(* deadline.  Nothing is assumed of the browser, and that the server is    *)
(* told to stop is no more than possible.                                  *)
(***************************************************************************)
LiveSpec ==
    /\ LiveInit
    /\ [][LiveNext]_vars
    /\ WF_vars(CollectorSamples) /\ WF_vars(CollectorReturns)
    /\ \A k \in Conns : WF_vars(HandlerStep(k))

-----------------------------------------------------------------------------
LiveTypeOK ==
    /\ CollectorTypeOK
    /\ pc \in [Conns -> {"unused", "accepted", "subscribed", "write", "loop", "done"}]
    /\ sub \in [Conns -> SubIds \cup {NoSub}]
    /\ msg \in [Conns -> Msgs] /\ sent \in [Conns -> Seq(Msgs)]
    /\ got \in [Conns -> Nat]
    /\ \A k \in Conns : got[k] <= Len(sent[k]) /\ Len(sent[k]) - got[k] <= WireCap
    /\ alive \in [Conns -> BOOLEAN]
    /\ cur \in Conns \cup {0}
    /\ view \in Seq(Snapshots) /\ Len(view) <= ViewCap
    /\ lost \in [SubIds -> SUBSET Snapshots]
    /\ from \in [Conns -> 0 .. MaxTick]

(***************************************************************************)
(* The places of connection k's stream that hold a snapshot event, and the *)
(* snapshots it followed the collector by.                                 *)
(***************************************************************************)
Events(k) == {i \in 1 .. Len(sent[k]) : ~sent[k][i].hello}
Followed(k) == {sent[k][i].snaps[1] : i \in Events(k)}

(***************************************************************************)
(* Nothing falls between the ring copy and the channel (handleLive         *)
(* subscribes before it reads the ring).  Once a stream is in its loop,    *)
(* every snapshot published since it subscribed was written, waits in the  *)
(* channel, was lost to a full one, or is one event cannot marshal; and a  *)
(* hello, if it could be written, reaches up to the subscription.  Whole   *)
(* hellos that were skipped are excepted with what they would have shown.  *)
(***************************************************************************)
NothingFallsBetween ==
    \A k \in Conns :
        pc[k] = "loop" /\ sub[k] \in subs =>
            LET waiting == {chan[sub[k]].buf[i] : i \in 1 .. Len(chan[sub[k]].buf)}
                hello == sent[k][1].snaps
            IN /\ from[k] + 1 .. latest
                     \subseteq Followed(k) \cup waiting \cup lost[sub[k]] \cup Unfit
               /\ sent[k] # <<>> /\ sent[k][1].hello /\ from[k] # 0 =>
                     hello # <<>> /\ hello[Len(hello)] >= from[k]

(***************************************************************************)
(* The snapshot events of a stream never go back in time or repeat one.    *)
(***************************************************************************)
SnapshotsAscend ==
    \A k \in Conns : \A i, j \in Events(k) :
        i < j => sent[k][i].snaps[1] < sent[k][j].snaps[1]

(***************************************************************************)
(* A reconnect never takes the dashboard back in time: a hello shows       *)
(* nothing older than what was shown as the newest before it (useLive      *)
(* replaces its buffer by the hello's).                                    *)
(***************************************************************************)
ReconnectNeverGoesBack ==
    [][cur # 0 /\ got' # got /\ sent[cur][got[cur] + 1].hello /\ view # <<>>
         => view' # <<>> /\ view'[Len(view')] >= view[Len(view)]]_vars

(***************************************************************************)
(* A connection nobody reads any more does not keep its goroutine, its     *)
(* stream slot and its subscription.                                       *)
(***************************************************************************)
DeadStreamsAreReaped ==
    \A k \in Conns :
        pc[k] # "unused" /\ ~alive[k] ~> pc[k] = "done" /\ sub[k] \notin subs

(***************************************************************************)
(* Shutting down ends every stream, however slow its reader is.            *)
(***************************************************************************)
ShutdownEndsStreams == ctxDone ~> Serving = {} /\ subs = {}
=============================================================================
