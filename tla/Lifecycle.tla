------------------------------ MODULE Lifecycle ------------------------------
(***************************************************************************)
(* The life of the process: main's loop over run, signals, the reboot      *)
(* through the API, the HTTP server's graceful shutdown, and the order in  *)
(* which goroutines, store and process go away.                            *)
(*                                                                         *)
(* One pass of run is an incarnation.  Times are abstracted to what may    *)
(* outlast what: a request of kind "slow" (a test mail in a hung SMTP      *)
(* conversation, a stream in a blocked write) may outlast the ten seconds  *)
(* Shutdown waits; others end well within them.                            *)
(***************************************************************************)
EXTENDS Naturals, FiniteSets

CONSTANTS
    Requests,   \* requests that may be in flight at once
    MaxRuns     \* bound: incarnations

ASSUME LifecycleAssumption == IsFiniteSet(Requests) /\ MaxRuns \in Nat \ {0}

Workers == {"collector", "persist", "peers", "alerts"}

VARIABLES
    main,       \* where main is, see MainStates
    runs,       \* incarnations so far
    ctxDone,    \* run's context is cancelled
    signals,    \* what a SIGTERM does: "captured" by NotifyContext or "default"
    wanted,     \* rebootRequested
    once,       \* Server.reboot, the sync.Once, was done
    timer,      \* the 100 ms timer of handleReboot: "unset", "armed", "fired"
    accepted,   \* a reboot was answered 202 in this incarnation
    serveErr,   \* what ListenAndServe returned, "nil" before
    working,    \* goroutines counted by wg
    store,      \* "open" or "closed"
    inflight,   \* inflight[q]: the kind of request q, "none" if it is over
    writing,    \* the goroutines using the store right now
    told        \* history: a SIGTERM arrived in this incarnation

vars == <<main, runs, ctxDone, signals, wanted, once, timer, accepted, serveErr,
          working, store, inflight, writing, told>>

MainStates == {"serving",    \* ListenAndServe, up to the end of ctx or an error
               "draining",   \* Shutdown with its ten seconds
               "waiting",    \* wg.Wait
               "closing",    \* st.Close
               "deciding",   \* the returns of run
               "exited",     \* main returned
               "fatal",      \* log.Fatalf
               "killed"}     \* by a signal nobody captured
Gone == {"exited", "fatal", "killed"}
Kinds == {"brief", "stream", "slow"}

LifecycleInit ==
    /\ main = "serving" /\ runs = 1
    /\ ctxDone = FALSE /\ signals = "captured"
    /\ wanted = FALSE /\ once = FALSE /\ timer = "unset" /\ accepted = FALSE
    /\ serveErr = "nil"
    /\ working = Workers
    /\ store = "open"
    /\ inflight = [q \in Requests |-> "none"]
    /\ writing = {}
    /\ told = FALSE

rebootVars == <<wanted, once, timer, accepted>>
storeVars == <<store, writing>>

(***************************************************************************)
(* stop, of signal.NotifyContext: cancel ctx and give signals back.        *)
(***************************************************************************)
Stop == ctxDone' = TRUE /\ signals' = "default"

-----------------------------------------------------------------------------
(* Requests and what they ask for. *)

Arrives(q, kind) ==
    /\ main = "serving"
    /\ inflight[q] = "none"
    /\ inflight' = [inflight EXCEPT ![q] = kind]
    /\ UNCHANGED <<main, runs, ctxDone, signals, rebootVars, serveErr, working,
                   storeVars, told>>

(***************************************************************************)
(* A request ends: a stream with its client or with ctx, the others when   *)
(* they are done.                                                          *)
(***************************************************************************)
Ends(q) ==
    /\ inflight[q] # "none" /\ main \notin Gone
    /\ inflight' = [inflight EXCEPT ![q] = "none"]
    /\ writing' = writing \ {q}
    /\ UNCHANGED <<main, runs, ctxDone, signals, rebootVars, serveErr, working,
                   store, told>>

(***************************************************************************)
(* A stream blocks in a write.                                             *)
(***************************************************************************)
Blocks(q) ==
    /\ inflight[q] = "stream" /\ main \notin Gone
    /\ inflight' = [inflight EXCEPT ![q] = "slow"]
    /\ UNCHANGED <<main, runs, ctxDone, signals, rebootVars, serveErr, working,
                   storeVars, told>>

(***************************************************************************)
(* handleReboot: 202 first, then arm the timer, once per server.  MaxRuns  *)
(* bounds the model here.                                                  *)
(***************************************************************************)
RebootRequest(q) ==
    /\ inflight[q] = "brief" /\ main \notin Gone
    /\ runs < MaxRuns
    /\ accepted' = TRUE
    /\ IF once THEN UNCHANGED <<once, timer>>
       ELSE once' = TRUE /\ timer' = "armed"
    /\ UNCHANGED <<main, runs, ctxDone, signals, wanted, serveErr, working,
                   storeVars, inflight, told>>

(* Mutant: the context is cancelled before the flag is set. *)
TimerFiresFlagLast ==
    /\ timer \in {"armed", "cancelled"} /\ main \notin Gone
    /\ IF timer = "armed"
       THEN timer' = "cancelled" /\ Stop /\ UNCHANGED wanted
       ELSE timer' = "fired" /\ wanted' = TRUE /\ UNCHANGED <<ctxDone, signals>>
    /\ UNCHANGED <<main, runs, once, accepted, serveErr, working, storeVars,
                   inflight, told>>

(***************************************************************************)
(* The timer fires: run's Reboot closure.                                  *)
(***************************************************************************)
TimerFires ==
    /\ timer = "armed" /\ main \notin Gone
    /\ timer' = "fired"
    /\ IF wanted THEN UNCHANGED <<wanted, ctxDone, signals>>
       ELSE wanted' = TRUE /\ Stop
    /\ UNCHANGED <<main, runs, once, accepted, serveErr, working, storeVars,
                   inflight, told>>

(***************************************************************************)
(* A goroutine or a request uses the store: an insert, a prune, a query    *)
(* (closed, it only returns an error).                                     *)
(***************************************************************************)
StoreUsers == {"persist"} \cup Requests

MayUse(u) ==
    IF u = "persist" THEN "persist" \in working ELSE inflight[u] = "brief"

UseStore(u) ==
    /\ main \notin Gone /\ u \notin writing /\ MayUse(u)
    /\ store = "open"
    /\ writing' = writing \cup {u}
    /\ UNCHANGED <<main, runs, ctxDone, signals, rebootVars, serveErr, working,
                   store, inflight, told>>

DoneWithStore(u) ==
    /\ main \notin Gone /\ u \in writing
    /\ writing' = writing \ {u}
    /\ UNCHANGED <<main, runs, ctxDone, signals, rebootVars, serveErr, working,
                   store, inflight, told>>

-----------------------------------------------------------------------------
(* Signals, and main's goroutine. *)

(***************************************************************************)
(* SIGTERM: cancels ctx while it is captured, a second one changes         *)
(* nothing; once stop was called it kills.                                 *)
(***************************************************************************)
Signal ==
    /\ main \notin Gone
    /\ told' = TRUE
    /\ IF signals = "captured" THEN ctxDone' = TRUE /\ UNCHANGED main
       ELSE main' = "killed" /\ UNCHANGED ctxDone
    /\ UNCHANGED <<runs, signals, rebootVars, serveErr, working, storeVars, inflight>>

(***************************************************************************)
(* ListenAndServe: binding or accepting fails, or ctx ends and Shutdown    *)
(* stops the listener.                                                     *)
(***************************************************************************)
ServeFails ==
    /\ main = "serving"
    /\ main' = "waiting" /\ serveErr' = "failed"
    /\ Stop
    /\ UNCHANGED <<runs, rebootVars, working, storeVars, inflight, told>>

BeginShutdown ==
    /\ main = "serving" /\ ctxDone
    /\ main' = "draining"
    /\ UNCHANGED <<runs, ctxDone, signals, rebootVars, serveErr, working,
                   storeVars, inflight, told>>

Busy == {q \in Requests : inflight[q] # "none"}


(***************************************************************************)
(* Shutdown returns: when no request is left, or with an error after the   *)
(* grace, which only a slow request can exceed.  run calls stop.           *)
(***************************************************************************)
ShutdownReturns ==
    /\ main = "draining"
    /\ \/ Busy = {} /\ UNCHANGED serveErr
       \/ /\ \E q \in Busy : inflight[q] = "slow"
          /\ serveErr' = "grace exceeded"
    /\ main' = "waiting"
    /\ Stop
    /\ UNCHANGED <<runs, rebootVars, working, storeVars, inflight, told>>

(***************************************************************************)
(* A goroutine of run sees ctx end, or the collector's channel, and leaves;*)
(* persistLoop not in the middle of an insert.                             *)
(***************************************************************************)
WorkerLeaves(w) ==
    /\ w \in working /\ w \notin writing
    /\ ctxDone /\ main \notin Gone
    /\ working' = working \ {w}
    /\ UNCHANGED <<main, runs, ctxDone, signals, rebootVars, serveErr, storeVars,
                   inflight, told>>

(* Mutant: the store is closed while goroutines still run. *)
WaitReturnsAtOnce ==
    /\ main = "waiting"
    /\ main' = "closing"
    /\ UNCHANGED <<runs, ctxDone, signals, rebootVars, serveErr, working,
                   storeVars, inflight, told>>

WaitReturns ==
    /\ main = "waiting" /\ working = {}
    /\ main' = "closing"
    /\ UNCHANGED <<runs, ctxDone, signals, rebootVars, serveErr, working,
                   storeVars, inflight, told>>

(***************************************************************************)
(* st.Close waits for nobody: a query under way ends with an error.        *)
(***************************************************************************)
CloseStore ==
    /\ main = "closing"
    /\ store' = "closed"
    /\ main' = "deciding"
    /\ UNCHANGED <<runs, ctxDone, signals, rebootVars, serveErr, working,
                   writing, inflight, told>>

(***************************************************************************)
(* The returns of run and main's loop: an error of ListenAndServe first,   *)
(* then the reboot, then a plain exit.  Another incarnation starts over    *)
(* with a context, goroutines, a store and a server of its own, unless it  *)
(* cannot open the store.                                                  *)
(***************************************************************************)
Restart ==
    /\ main' = "serving" /\ runs' = runs + 1
    /\ ctxDone' = FALSE /\ signals' = "captured"
    /\ wanted' = FALSE /\ once' = FALSE /\ timer' = "unset" /\ accepted' = FALSE
    /\ serveErr' = "nil" /\ working' = Workers /\ store' = "open"
    /\ told' = FALSE
    /\ UNCHANGED <<inflight, writing>>

Leave(how) ==
    /\ main' = how
    /\ UNCHANGED <<runs, ctxDone, signals, rebootVars, serveErr, working,
                   storeVars, inflight, told>>

OpenFails == Leave("fatal")

(* Mutant: a reboot request outweighs the error of the shutdown. *)
DecideRebootFirst ==
    /\ main = "deciding"
    /\ CASE wanted                      -> Restart \/ OpenFails
         [] ~wanted /\ serveErr # "nil" -> Leave("fatal")
         [] ~wanted /\ serveErr = "nil" -> Leave("exited")

Decide ==
    /\ main = "deciding"
    /\ CASE serveErr # "nil"            -> Leave("fatal")
         [] serveErr = "nil" /\ wanted  -> Restart \/ OpenFails
         [] serveErr = "nil" /\ ~wanted -> Leave("exited")

MainStep ==
    \/ ServeFails
    \/ BeginShutdown
    \/ ShutdownReturns
    \/ WaitReturns
    \/ CloseStore
    \/ Decide

LifecycleNext ==
    \/ MainStep
    \/ \E w \in Workers : WorkerLeaves(w)
    \/ TimerFires
    \/ Signal
    \/ \E q \in Requests :
          \/ \E kind \in Kinds : Arrives(q, kind)
          \/ Ends(q)
          \/ Blocks(q)
          \/ RebootRequest(q)
    \/ \E u \in StoreUsers : UseStore(u) \/ DoneWithStore(u)

(***************************************************************************)
(* Main, timers and goroutines move on; with ctx cancelled requests end,   *)
(* in time or not; an insert ends.  persistLoop's select may pick another  *)
(* tick over the cancelled context, but not for ever.                      *)
(***************************************************************************)
LifecycleSpec ==
    /\ LifecycleInit
    /\ [][LifecycleNext]_vars
    /\ WF_vars(BeginShutdown) /\ WF_vars(ShutdownReturns)
    /\ WF_vars(WaitReturns) /\ WF_vars(CloseStore) /\ WF_vars(Decide)
    /\ WF_vars(TimerFires)
    /\ \A q \in Requests : WF_vars(ctxDone /\ inflight[q] # "slow" /\ Ends(q))
    /\ WF_vars(DoneWithStore("persist"))
    /\ \A w \in Workers : SF_vars(WorkerLeaves(w))

-----------------------------------------------------------------------------
LifecycleTypeOK ==
    /\ main \in MainStates /\ runs \in 1 .. MaxRuns
    /\ ctxDone \in BOOLEAN /\ signals \in {"captured", "default"}
    /\ wanted \in BOOLEAN /\ once \in BOOLEAN /\ accepted \in BOOLEAN
    /\ timer \in {"unset", "armed", "fired"}
    /\ serveErr \in {"nil", "failed", "grace exceeded"}
    /\ working \subseteq Workers
    /\ store \in {"open", "closed"}
    /\ inflight \in [Requests -> Kinds \cup {"none"}]
    /\ writing \subseteq StoreUsers
    /\ told \in BOOLEAN

(***************************************************************************)
(* The store is closed only once nothing of run can write to it any more,  *)
(* however the shutdown began (run's wg.Wait before st.Close).             *)
(***************************************************************************)
NoWriteAfterClose ==
    store = "closed" => working = {} /\ "persist" \notin writing

(***************************************************************************)
(* A process that starts over or exits normally has let go of the store    *)
(* and of the listener: no request is in flight, no goroutine that wg      *)
(* counts is left, nobody uses the store and it is closed (run,            *)
(* ListenAndServe).  Probes of hung mounts are counted by nobody and do    *)
(* outlive the incarnation that started them (Sampling).                   *)
(***************************************************************************)
NothingLeftBehind ==
    [][runs' # runs \/ (main' # main /\ main' = "exited")
         => /\ Busy = {} /\ working = {} /\ writing = {}
            /\ store = "closed"]_vars

(***************************************************************************)
(* The process exits normally only when it was told to: a reboot through   *)
(* the API never ends that way (handleReboot, the Reboot closure and the   *)
(* order of flag and cancellation in it).                                  *)
(***************************************************************************)
ExitsOnlyWhenTold == main = "exited" => told

(***************************************************************************)
(* The process keeps what Process promises of it: it leaves for an         *)
(* accepted reboot, serves again only after one, and no shutdown hangs,    *)
(* whatever is in flight.                                                  *)
(***************************************************************************)
Outside ==
    INSTANCE Process WITH
        up    <- IF main \in Gone THEN "gone" ELSE IF ctxDone THEN "leaving" ELSE "serving",
        asked <- accepted


(***************************************************************************)
(* An accepted reboot "begins a graceful shutdown and starts again": the   *)
(* requests in flight do not turn it into the end of the process.          *)
(***************************************************************************)
RebootStartsAgain ==
    ~(main = "fatal" /\ wanted /\ serveErr = "grace exceeded")
=============================================================================
