------------------------------- MODULE HubLive -------------------------------
(***************************************************************************)
(* What the hub shows of its peers: handleServerLive serving the page of   *)
(* one peer (useLive.ts) and handleOverviewLive serving the fleet          *)
(* (Overview.tsx), both from the cache and the event channels of           *)
(* PeerClient.  A handler writes the events of one turn of its loop before *)
(* it takes the next; a browser that stops reading fills the connection    *)
(* and so, through the blocked handler, the channel.                       *)
(*                                                                         *)
(* Local snapshots on the overview are left out: they touch no peer's      *)
(* card.  A handler whose browser went away is gone at once here;          *)
(* LiveStream has the ones that linger.                                    *)
(***************************************************************************)
EXTENDS PeerClient

CONSTANTS
    Page,       \* the viewer of one peer's page
    Overview,   \* the viewer of the fleet
    Shown,      \* the peer Page shows
    MaxSSE,     \* MaxSSEClients: streams served at once (withRequestLimits)
    WireCap     \* messages a connection holds before a write blocks

ASSUME HubLiveAssumption ==
    /\ Viewers = {Page, Overview} /\ Page # Overview
    /\ Shown \in Peers
    /\ WireCap \in Nat \ {0} /\ MaxSSE \in Nat \ {0}

VARIABLES
    serving,    \* serving[v]: "no", "starting" (subscribed) or "loop"
    helloSent,  \* handleServerLive's flag
    out,        \* out[v]: messages the handler is writing, in order
    wire,       \* wire[v]: messages on the way to the browser
    shows,      \* shows[v][p]: what the browser says of p: "live" or "offline"
    misled      \* history: misled[v], see Misleads

viewVars == <<serving, helloSent, out, wire, shows>>
vars == <<clientVars, viewVars, misled>>

Status(p, on) == [type |-> "status", id |-> p, online |-> on]
Snap(p)       == [type |-> "snapshot", id |-> p]
HelloMsg      == [type |-> "hello"]
Resync        == [type |-> "servers"]    \* its content is what is known when written
Fleet(on)     == [type |-> "servers", online |-> on]

Messages ==
    {HelloMsg, Resync}
        \cup {Snap(p) : p \in Peers}
        \cup {Status(p, on) : p \in Peers, on \in BOOLEAN}
        \cup {Fleet(on) : on \in [Peers -> BOOLEAN]}

HubInit ==
    /\ PeerClientInit
    /\ serving = [v \in Viewers |-> "no"]
    /\ helloSent = FALSE
    /\ out = [v \in Viewers |-> <<>>]
    /\ wire = [v \in Viewers |-> <<>>]
    /\ shows = [v \in Viewers |-> [p \in Peers |-> "live"]]
    /\ misled = [v \in Viewers |-> FALSE]

(***************************************************************************)
(* The client's own steps, noting the two ways an event channel misleads   *)
(* its viewer: it is too full for a transition, or it carries a snapshot   *)
(* of a peer that is not online, which a skipped hello makes possible.     *)
(***************************************************************************)
Misleads(v, p) ==
    /\ chan[v].state = "open"
    /\ \/ online'[p] # online[p] /\ chan'[v].buf = chan[v].buf
       \/ latest'[p] # latest[p] /\ conn[p] = "mute"

ClientStep ==
    /\ ClientNext
    /\ misled' = [v \in Viewers |->
                    misled[v] \/ \E p \in Peers : Misleads(v, p)]
    /\ UNCHANGED viewVars

EnvStep == EnvNext /\ UNCHANGED <<viewVars, misled>>

-----------------------------------------------------------------------------
(***************************************************************************)
(* A browser opens its stream, if there is a slot left (a refused one is   *)
(* retried and changes nothing): the handler subscribes before it reads the*)
(* cache.  The page keeps what it showed before (useLive resets it only    *)
(* when it is mounted).                                                    *)
(***************************************************************************)
Open(v) ==
    /\ serving[v] = "no"
    /\ Cardinality({w \in Viewers : serving[w] # "no"}) < MaxSSE
    /\ ~ctxDone
    /\ chan' = Subscribed(v)
    /\ serving' = [serving EXCEPT ![v] = "starting"]
    /\ misled' = [misled EXCEPT ![v] = FALSE]
    /\ UNCHANGED <<peerVars, stopped, ctxDone, envVars, helloSent, out, wire, shows>>

(* Mutant: a cached hello is sent without the status. *)
StartPageHelloOnly ==
    /\ serving[Page] = "starting"
    /\ serving' = [serving EXCEPT ![Page] = "loop"]
    /\ helloSent' = known[Shown]
    /\ out' = [out EXCEPT ![Page] =
                 IF known[Shown] THEN <<HelloMsg>> ELSE <<Status(Shown, FALSE)>>]
    /\ UNCHANGED <<clientVars, wire, shows, misled>>

(***************************************************************************)
(* handleServerLive reads the peer's summary: the cached hello, with a     *)
(* status if the peer is offline; or only the status if no hello of it was *)
(* ever cached.                                                            *)
(***************************************************************************)
StartPage ==
    /\ serving[Page] = "starting"
    /\ serving' = [serving EXCEPT ![Page] = "loop"]
    /\ helloSent' = known[Shown]
    /\ out' = [out EXCEPT ![Page] =
                 IF ~known[Shown] THEN <<Status(Shown, FALSE)>>
                 ELSE IF online[Shown] THEN <<HelloMsg>>
                 ELSE <<HelloMsg, Status(Shown, FALSE)>>]
    /\ UNCHANGED <<clientVars, wire, shows, misled>>

(* Mutant: the hello is sent on connect or never. *)
PageTurnNoHello ==
    /\ serving[Page] = "loop" /\ out[Page] = <<>> /\ chan[Page].buf # <<>>
    /\ LET ev == Head(chan[Page].buf) IN
       out' = [out EXCEPT ![Page] =
                 CASE ev.id # Shown -> <<>>
                   [] ev.id = Shown /\ ev.kind # "snapshot" ->
                         <<Status(Shown, ev.kind = "online")>>
                   [] ev.id = Shown /\ ev.kind = "snapshot" ->
                         IF helloSent THEN <<Snap(Shown)>> ELSE <<>>]
    /\ chan' = Received(Page)
    /\ UNCHANGED <<peerVars, stopped, ctxDone, envVars, serving, helloSent, wire, shows, misled>>

(***************************************************************************)
(* One turn of its loop on a peer event: the deferred hello if it was      *)
(* never sent and is cached by now, then the transition or the snapshot; a *)
(* snapshot that the deferred hello carries is not sent again.             *)
(***************************************************************************)
PageTurn ==
    /\ serving[Page] = "loop" /\ out[Page] = <<>> /\ chan[Page].buf # <<>>
    /\ LET ev == Head(chan[Page].buf)
           deferred == ev.id = Shown /\ ~helloSent /\ known[Shown]
       IN /\ helloSent' = (helloSent \/ deferred)
          /\ out' = [out EXCEPT ![Page] =
                (IF deferred THEN <<HelloMsg>> ELSE <<>>)
                \o (CASE ev.id # Shown -> <<>>
                      [] ev.id = Shown /\ ev.kind # "snapshot" ->
                            <<Status(Shown, ev.kind = "online")>>
                      [] ev.id = Shown /\ ev.kind = "snapshot" ->
                            IF helloSent /\ ~deferred THEN <<Snap(Shown)>> ELSE <<>>)]
    /\ chan' = Received(Page)
    /\ UNCHANGED <<peerVars, stopped, ctxDone, envVars, serving, wire, shows, misled>>

(***************************************************************************)
(* handleOverviewLive: the whole fleet first, then each event; a           *)
(* transition and every heartbeat send the fleet again.                    *)
(***************************************************************************)
StartOverview ==
    /\ serving[Overview] = "starting"
    /\ serving' = [serving EXCEPT ![Overview] = "loop"]
    /\ out' = [out EXCEPT ![Overview] = <<Resync>>]
    /\ UNCHANGED <<clientVars, helloSent, wire, shows, misled>>

OverviewTurn ==
    /\ serving[Overview] = "loop" /\ out[Overview] = <<>> /\ chan[Overview].buf # <<>>
    /\ LET ev == Head(chan[Overview].buf) IN
       out' = [out EXCEPT ![Overview] =
                 IF ev.kind = "snapshot" THEN <<Snap(ev.id)>>
                 ELSE <<Status(ev.id, ev.kind = "online"), Resync>>]
    /\ chan' = Received(Overview)
    /\ UNCHANGED <<peerVars, stopped, ctxDone, envVars, serving, helloSent, wire, shows, misled>>

(* Mutant: a heartbeat without the fleet. *)
OverviewHeartbeatBare ==
    /\ serving[Overview] = "loop" /\ out[Overview] = <<>>
    /\ UNCHANGED vars

OverviewHeartbeat ==
    /\ serving[Overview] = "loop" /\ out[Overview] = <<>>
    /\ out' = [out EXCEPT ![Overview] = <<Resync>>]
    /\ UNCHANGED <<clientVars, serving, helloSent, wire, shows, misled>>

(***************************************************************************)
(* allServers: the fleet as the cache has it.                              *)
(***************************************************************************)
Servers == Fleet(online)

Write(v) ==
    /\ out[v] # <<>> /\ Len(wire[v]) < WireCap
    /\ wire' = [wire EXCEPT ![v] =
                  Append(@, IF Head(out[v]) = Resync THEN Servers ELSE Head(out[v]))]
    /\ out' = [out EXCEPT ![v] = Tail(@)]
    /\ UNCHANGED <<clientVars, serving, helloSent, shows, misled>>

(***************************************************************************)
(* The fleet holds the local sample, and that may hold a float that is not *)
(* finite: the event cannot be marshalled, and is skipped.  (What came     *)
(* from a peer was decoded and can be.)                                    *)
(***************************************************************************)
FleetSkipped ==
    /\ out[Overview] # <<>> /\ Head(out[Overview]) = Resync
    /\ out' = [out EXCEPT ![Overview] = Tail(@)]
    /\ UNCHANGED <<clientVars, serving, helloSent, wire, shows, misled>>

(***************************************************************************)
(* The stream ends: the browser closes it, a write meets its deadline, the *)
(* server shuts down, or the channel is closed and drained.  The deferred  *)
(* unsubscribe runs; the browser keeps showing what it has.                *)
(***************************************************************************)
End(v) ==
    /\ serving[v] # "no"
    /\ serving' = [serving EXCEPT ![v] = "no"]
    /\ out' = [out EXCEPT ![v] = <<>>]
    /\ wire' = [wire EXCEPT ![v] = <<>>]
    /\ chan' = Cancelled(v)
    /\ misled' = [misled EXCEPT ![v] = FALSE]
    /\ helloSent' = (v # Page /\ helloSent)
    /\ UNCHANGED <<peerVars, stopped, ctxDone, envVars, shows>>

(***************************************************************************)
(* useLive: a snapshot means live whatever was said before, a hello says   *)
(* nothing of it.  Overview.tsx: the same per card, and servers replaces   *)
(* all cards.                                                              *)
(***************************************************************************)
Says(on) == IF on THEN "live" ELSE "offline"

Read(v) ==
    /\ wire[v] # <<>>
    /\ wire' = [wire EXCEPT ![v] = Tail(@)]
    /\ LET m == Head(wire[v]) IN
       shows' = CASE m.type = "status" -> [shows EXCEPT ![v][m.id] = Says(m.online)]
                  [] m.type = "snapshot" -> [shows EXCEPT ![v][m.id] = "live"]
                  [] m.type = "servers" ->
                        [shows EXCEPT ![v] = [p \in Peers |-> Says(m.online[p])]]
                  [] m.type = "hello" -> shows
    /\ UNCHANGED <<clientVars, serving, helloSent, out, misled>>

HandlerStep(v) ==
    \/ v = Page /\ (StartPage \/ PageTurn)
    \/ v = Overview /\ (StartOverview \/ OverviewTurn \/ FleetSkipped)
    \/ Write(v)

HubNext ==
    \/ ClientStep
    \/ EnvStep
    \/ \E v \in Viewers : Open(v) \/ HandlerStep(v) \/ Read(v) \/ End(v)
    \/ OverviewHeartbeat

(***************************************************************************)
(* Goroutines, timers and open browsers move on.  The event channel and    *)
(* the heartbeat compete in a select, which picks either: the heartbeat is *)
(* not passed over for ever.                                               *)
(***************************************************************************)
HubSpec ==
    /\ HubInit
    /\ [][HubNext]_vars
    /\ \A v \in Viewers : WF_vars(HandlerStep(v)) /\ WF_vars(Read(v))
    /\ SF_vars(OverviewHeartbeat)

-----------------------------------------------------------------------------
HubTypeOK ==
    /\ PeerClientTypeOK
    /\ serving \in [Viewers -> {"no", "starting", "loop"}]
    /\ helloSent \in BOOLEAN
    /\ out \in [Viewers -> Seq(Messages)] /\ wire \in [Viewers -> Seq(Messages)]
    /\ \A v \in Viewers : Len(wire[v]) <= WireCap /\ Len(out[v]) <= 2
    /\ shows \in [Viewers -> [Peers -> {"live", "offline"}]]
    /\ misled \in [Viewers -> BOOLEAN]

(***************************************************************************)
(* All that was to be told has been told.                                  *)
(***************************************************************************)
Settled(v) ==
    /\ serving[v] = "loop"
    /\ chan[v].buf = <<>> /\ out[v] = <<>> /\ wire[v] = <<>>

(***************************************************************************)
(* There is no stream to the peer: it is down, or being dialled.           *)
(***************************************************************************)
Dead(p) == conn[p] \in {"dialing", "waiting", "exited"}

(***************************************************************************)
(* A page with nothing on the way to it, whose channel did not mislead it, *)
(* does not show a dead peer as live, whenever it connected: before the    *)
(* peer's first hello, between two connections, or between the cached      *)
(* hello and its announcement (handleServerLive).                          *)
(***************************************************************************)
NoDeadPeerShownLive ==
    Settled(Page) /\ ~misled[Page] /\ Dead(Shown) => shows[Page][Shown] = "offline"

(***************************************************************************)
(* The same with no condition on what was lost: "every transition is       *)
(* forwarded ... a dashboard must never show a dead peer as live".         *)
(***************************************************************************)
NeverShownLiveWhenDead ==
    Settled(Page) /\ Dead(Shown) => shows[Page][Shown] = "offline"

(***************************************************************************)
(* The page gets its hello as soon as it can: once the peer was announced  *)
(* and nothing is on the way, the hello was sent.                          *)
(***************************************************************************)
HelloNotForgotten ==
    Settled(Page) /\ ~misled[Page] /\ online[Shown] => helloSent

(***************************************************************************)
(* Whatever was lost or skipped, an overview that stays open ends up       *)
(* showing what the hub knows, once that no longer changes and the fleet   *)
(* can be marshalled again (the resync on heartbeats).                     *)
(***************************************************************************)
OverviewHeals ==
    \A p \in Peers :
        <>[](serving[Overview] # "no" /\ Dead(p)) /\ <>[][~FleetSkipped]_vars
            => <>[](shows[Overview][p] = "offline")
=============================================================================
