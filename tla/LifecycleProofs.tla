--------------------------- MODULE LifecycleProofs ---------------------------
(***************************************************************************)
(* What the process lifecycle guarantees for any number of requests in     *)
(* flight and of incarnations.  The safety properties rest on one          *)
(* inductive invariant: what each place of main says of the context, of    *)
(* the goroutines, of the store and of the requests.  Last, a page of the  *)
(* process that this lifecycle implements (Console).                       *)
(***************************************************************************)
EXTENDS Lifecycle, Console, TLAPS

(* Who uses the store is still there: persistLoop, or a request under way. *)
UsersPresent ==
    /\ "persist" \in writing => "persist" \in working
    /\ \A q \in writing : q # "persist" => inflight[q] # "none"

(* Main is past serving only with ctx cancelled, and for a reason. *)
DoneForAReason ==
    /\ main \in {"draining", "waiting", "closing", "deciding"} => ctxDone
    /\ ctxDone => told \/ wanted \/ serveErr # "nil"
    /\ main = "exited" => told

(* The order in which run takes things down. *)
TakenDown ==
    /\ main \in {"closing", "deciding"} => working = {}
    /\ main = "deciding" => store = "closed"
    /\ store = "closed" => working = {}
    /\ main \in {"waiting", "closing", "deciding"} /\ serveErr = "nil" => Busy = {}

(* The bound of the model: a reboot is only under way if a run is left. *)
RunLeft ==
    /\ timer # "unset" => runs < MaxRuns
    /\ wanted => timer = "fired"
    /\ ~once => timer = "unset"

LifecycleInv ==
    LifecycleTypeOK /\ RunLeft /\ UsersPresent /\ DoneForAReason /\ TakenDown

(* A step of each kind, by name: the cases of the proofs below. *)
LEMMA StepCases ==
    ASSUME [LifecycleNext]_vars
    PROVE  \/ ServeFails \/ BeginShutdown \/ ShutdownReturns
           \/ WaitReturns \/ CloseStore \/ Decide
           \/ TimerFires \/ Signal
           \/ \E w \in Workers : WorkerLeaves(w)
           \/ \E q \in Requests : \E kind \in Kinds : Arrives(q, kind)
           \/ \E q \in Requests : Ends(q)
           \/ \E q \in Requests : Blocks(q)
           \/ \E q \in Requests : RebootRequest(q)
           \/ \E u \in StoreUsers : UseStore(u)
           \/ \E u \in StoreUsers : DoneWithStore(u)
           \/ UNCHANGED vars
  BY DEF LifecycleNext, MainStep

(* Decide, one return of run after the other. *)
LEMMA DecideCases ==
    ASSUME Decide
    PROVE  /\ main = "deciding"
           /\ \/ serveErr # "nil" /\ Leave("fatal")
              \/ serveErr = "nil" /\ wanted /\ Restart
              \/ serveErr = "nil" /\ wanted /\ Leave("fatal")
              \/ serveErr = "nil" /\ ~wanted /\ Leave("exited")
  BY Zenon DEF Decide, OpenFails

(* A reboot that is wanted stays within the bound of the model. *)
LEMMA AnotherRun ==
    ASSUME LifecycleTypeOK, RunLeft, wanted
    PROVE  runs + 1 \in 1 .. MaxRuns
<1>1. timer = "fired"
  BY Zenon DEF RunLeft
<1>2. runs < MaxRuns
  BY <1>1 DEF RunLeft
<1>3. runs \in 1 .. MaxRuns
  BY Zenon DEF LifecycleTypeOK
<1> QED  BY <1>2, <1>3, LifecycleAssumption

(* Types at the start of the first incarnation. *)
LEMMA TypeInit ==
    ASSUME LifecycleInit
    PROVE  LifecycleTypeOK
<1>1. main \in MainStates /\ runs \in 1 .. MaxRuns /\ signals \in {"captured", "default"}
         /\ timer \in {"unset", "armed", "fired"}
         /\ serveErr \in {"nil", "failed", "grace exceeded"}
    BY LifecycleAssumption
    DEF LifecycleInit, MainStates, Kinds, StoreUsers
<1>2. ctxDone \in BOOLEAN /\ wanted \in BOOLEAN /\ once \in BOOLEAN
         /\ accepted \in BOOLEAN /\ told \in BOOLEAN
    BY LifecycleAssumption
    DEF LifecycleInit, MainStates, Kinds, StoreUsers
<1>3. working \subseteq Workers /\ store \in {"open", "closed"}
         /\ inflight \in [Requests -> Kinds \cup {"none"}]
         /\ writing \subseteq StoreUsers
    BY LifecycleAssumption
    DEF LifecycleInit, MainStates, Kinds, StoreUsers
<1> QED  BY <1>1, <1>2, <1>3 DEF LifecycleTypeOK

(* Types are kept by every step. *)
LEMMA TypeStep ==
    ASSUME LifecycleTypeOK, RunLeft, [LifecycleNext]_vars
    PROVE  LifecycleTypeOK'
<1> USE DEF LifecycleTypeOK, MainStates, Kinds, StoreUsers, rebootVars, storeVars, Stop
<1>1. CASE ServeFails       BY <1>1 DEF ServeFails
<1>2. CASE BeginShutdown    BY <1>2 DEF BeginShutdown
<1>3. CASE ShutdownReturns  BY <1>3 DEF ShutdownReturns
<1>4. CASE WaitReturns      BY <1>4 DEF WaitReturns
<1>5. CASE CloseStore       BY <1>5 DEF CloseStore
<1>6. CASE Decide
  <2>1. CASE wanted /\ Restart
    <3>1. runs' \in 1 .. MaxRuns
      BY <2>1, AnotherRun DEF Restart
    <3> QED  BY <2>1, <3>1 DEF Restart
  <2>2. CASE Leave("fatal") \/ Leave("exited")
    BY <2>2 DEF Leave
  <2> QED  BY <1>6, <2>1, <2>2, DecideCases
<1>7. CASE TimerFires       BY <1>7 DEF TimerFires
<1>8. CASE Signal           BY <1>8 DEF Signal
<1>9. ASSUME NEW w \in Workers, WorkerLeaves(w)
      PROVE  LifecycleTypeOK'
  <2>1. (main \in MainStates /\ runs \in 1 .. MaxRuns /\ signals \in {"captured", "default"}
         /\ timer \in {"unset", "armed", "fired"}
         /\ serveErr \in {"nil", "failed", "grace exceeded"})'
    BY <1>9 DEF WorkerLeaves
  <2>2. (ctxDone \in BOOLEAN /\ wanted \in BOOLEAN /\ once \in BOOLEAN
         /\ accepted \in BOOLEAN /\ told \in BOOLEAN)'
    BY <1>9 DEF WorkerLeaves
  <2>3. (working \subseteq Workers /\ store \in {"open", "closed"}
         /\ inflight \in [Requests -> Kinds \cup {"none"}]
         /\ writing \subseteq StoreUsers)'
    BY <1>9 DEF WorkerLeaves
  <2> QED  BY <2>1, <2>2, <2>3
<1>10. ASSUME NEW q \in Requests, NEW kind \in Kinds, Arrives(q, kind)
       PROVE  LifecycleTypeOK'
  BY <1>10 DEF Arrives
<1>11. ASSUME NEW q \in Requests, Ends(q)
       PROVE  LifecycleTypeOK'
  <2>1. (main \in MainStates /\ runs \in 1 .. MaxRuns /\ signals \in {"captured", "default"}
         /\ timer \in {"unset", "armed", "fired"}
         /\ serveErr \in {"nil", "failed", "grace exceeded"})'
    BY <1>11 DEF Ends
  <2>2. (ctxDone \in BOOLEAN /\ wanted \in BOOLEAN /\ once \in BOOLEAN
         /\ accepted \in BOOLEAN /\ told \in BOOLEAN)'
    BY <1>11 DEF Ends
  <2>3. (working \subseteq Workers /\ store \in {"open", "closed"}
         /\ inflight \in [Requests -> Kinds \cup {"none"}]
         /\ writing \subseteq StoreUsers)'
    BY <1>11 DEF Ends
  <2> QED  BY <2>1, <2>2, <2>3
<1>12. ASSUME NEW q \in Requests, Blocks(q)
       PROVE  LifecycleTypeOK'
  <2>1. (main \in MainStates /\ runs \in 1 .. MaxRuns /\ signals \in {"captured", "default"}
         /\ timer \in {"unset", "armed", "fired"}
         /\ serveErr \in {"nil", "failed", "grace exceeded"})'
    BY <1>12 DEF Blocks
  <2>2. (ctxDone \in BOOLEAN /\ wanted \in BOOLEAN /\ once \in BOOLEAN
         /\ accepted \in BOOLEAN /\ told \in BOOLEAN)'
    BY <1>12 DEF Blocks
  <2>3. (working \subseteq Workers /\ store \in {"open", "closed"}
         /\ inflight \in [Requests -> Kinds \cup {"none"}]
         /\ writing \subseteq StoreUsers)'
    BY <1>12 DEF Blocks
  <2> QED  BY <2>1, <2>2, <2>3
<1>13. ASSUME NEW q \in Requests, RebootRequest(q)
       PROVE  LifecycleTypeOK'
  <2>1. (main \in MainStates /\ runs \in 1 .. MaxRuns /\ signals \in {"captured", "default"}
         /\ timer \in {"unset", "armed", "fired"}
         /\ serveErr \in {"nil", "failed", "grace exceeded"})'
    BY <1>13 DEF RebootRequest
  <2>2. (ctxDone \in BOOLEAN /\ wanted \in BOOLEAN /\ once \in BOOLEAN
         /\ accepted \in BOOLEAN /\ told \in BOOLEAN)'
    BY <1>13 DEF RebootRequest
  <2>3. (working \subseteq Workers /\ store \in {"open", "closed"}
         /\ inflight \in [Requests -> Kinds \cup {"none"}]
         /\ writing \subseteq StoreUsers)'
    BY <1>13 DEF RebootRequest
  <2> QED  BY <2>1, <2>2, <2>3
<1>14. ASSUME NEW u \in StoreUsers, UseStore(u)
       PROVE  LifecycleTypeOK'
  <2>1. (main \in MainStates /\ runs \in 1 .. MaxRuns /\ signals \in {"captured", "default"}
         /\ timer \in {"unset", "armed", "fired"}
         /\ serveErr \in {"nil", "failed", "grace exceeded"})'
    BY <1>14 DEF UseStore
  <2>2. (ctxDone \in BOOLEAN /\ wanted \in BOOLEAN /\ once \in BOOLEAN
         /\ accepted \in BOOLEAN /\ told \in BOOLEAN)'
    BY <1>14 DEF UseStore
  <2>3. (working \subseteq Workers /\ store \in {"open", "closed"}
         /\ inflight \in [Requests -> Kinds \cup {"none"}]
         /\ writing \subseteq StoreUsers)'
    BY <1>14 DEF UseStore
  <2> QED  BY <2>1, <2>2, <2>3
<1>15. ASSUME NEW u \in StoreUsers, DoneWithStore(u)
       PROVE  LifecycleTypeOK'
  <2>1. (main \in MainStates /\ runs \in 1 .. MaxRuns /\ signals \in {"captured", "default"}
         /\ timer \in {"unset", "armed", "fired"}
         /\ serveErr \in {"nil", "failed", "grace exceeded"})'
    BY <1>15 DEF DoneWithStore
  <2>2. (ctxDone \in BOOLEAN /\ wanted \in BOOLEAN /\ once \in BOOLEAN
         /\ accepted \in BOOLEAN /\ told \in BOOLEAN)'
    BY <1>15 DEF DoneWithStore
  <2>3. (working \subseteq Workers /\ store \in {"open", "closed"}
         /\ inflight \in [Requests -> Kinds \cup {"none"}]
         /\ writing \subseteq StoreUsers)'
    BY <1>15 DEF DoneWithStore
  <2> QED  BY <2>1, <2>2, <2>3
<1>16. CASE UNCHANGED vars
  <2>1. (main \in MainStates /\ runs \in 1 .. MaxRuns /\ signals \in {"captured", "default"}
         /\ timer \in {"unset", "armed", "fired"}
         /\ serveErr \in {"nil", "failed", "grace exceeded"})'
    BY <1>16 DEF vars
  <2>2. (ctxDone \in BOOLEAN /\ wanted \in BOOLEAN /\ once \in BOOLEAN
         /\ accepted \in BOOLEAN /\ told \in BOOLEAN)'
    BY <1>16 DEF vars
  <2>3. (working \subseteq Workers /\ store \in {"open", "closed"}
         /\ inflight \in [Requests -> Kinds \cup {"none"}]
         /\ writing \subseteq StoreUsers)'
    BY <1>16 DEF vars
  <2> QED  BY <2>1, <2>2, <2>3
<1> QED
  BY StepCases, <1>1, <1>2, <1>3, <1>4, <1>5, <1>6, <1>7, <1>8, <1>9, <1>10,
     <1>11, <1>12, <1>13, <1>14, <1>15, <1>16

(***************************************************************************)
(* A reboot needs a run that is left.                                      *)
(***************************************************************************)
LEMMA RunLeftStep ==
    ASSUME RunLeft, [LifecycleNext]_vars
    PROVE  RunLeft'
<1> USE DEF RunLeft, rebootVars, storeVars, Stop
<1>1. CASE ServeFails  BY <1>1 DEF ServeFails
<1>2. CASE BeginShutdown  BY <1>2 DEF BeginShutdown
<1>3. CASE ShutdownReturns  BY <1>3 DEF ShutdownReturns
<1>4. CASE WaitReturns  BY <1>4 DEF WaitReturns
<1>5. CASE CloseStore  BY <1>5 DEF CloseStore
<1>6. CASE Decide
  <2>1. CASE Restart  BY <2>1 DEF Restart
  <2>2. CASE main = "deciding" /\ Leave("fatal")
    BY <2>2 DEF Leave
  <2>3. CASE main = "deciding" /\ serveErr = "nil" /\ ~wanted /\ Leave("exited")
    BY <2>3 DEF Leave
  <2> QED  BY <1>6, <2>1, <2>2, <2>3, DecideCases
<1>7. CASE TimerFires  BY <1>7 DEF TimerFires
<1>8. CASE Signal  BY <1>8 DEF Signal
<1>9. ASSUME NEW w \in Workers, WorkerLeaves(w)
       PROVE  RunLeft'
  BY <1>9 DEF WorkerLeaves
<1>10. ASSUME NEW q \in Requests, NEW kind \in Kinds, Arrives(q, kind)
       PROVE  RunLeft'
  BY <1>10 DEF Arrives
<1>11. ASSUME NEW q \in Requests, Ends(q)
       PROVE  RunLeft'
  BY <1>11 DEF Ends
<1>12. ASSUME NEW q \in Requests, Blocks(q)
       PROVE  RunLeft'
  BY <1>12 DEF Blocks
<1>13. ASSUME NEW q \in Requests, RebootRequest(q)
       PROVE  RunLeft'
  BY <1>13 DEF RebootRequest
<1>14. ASSUME NEW u \in StoreUsers, UseStore(u)
       PROVE  RunLeft'
  BY <1>14 DEF UseStore
<1>15. ASSUME NEW u \in StoreUsers, DoneWithStore(u)
       PROVE  RunLeft'
  BY <1>15 DEF DoneWithStore
<1>16. CASE UNCHANGED vars  BY <1>16 DEF vars
<1> QED
  BY StepCases, <1>1, <1>2, <1>3, <1>4, <1>5, <1>6, <1>7, <1>8, <1>9, <1>10, <1>11, <1>12, <1>13, <1>14, <1>15, <1>16

(***************************************************************************)
(* Who leaves first let go of the store.                                   *)
(***************************************************************************)
LEMMA UsersStep ==
    ASSUME writing \subseteq StoreUsers,
           inflight \in [Requests -> Kinds \cup {"none"}],
           UsersPresent, [LifecycleNext]_vars
    PROVE  UsersPresent'
<1> USE DEF UsersPresent, StoreUsers, rebootVars, storeVars, Stop, Kinds
<1>1. CASE ServeFails  BY <1>1 DEF ServeFails
<1>2. CASE BeginShutdown  BY <1>2 DEF BeginShutdown
<1>3. CASE ShutdownReturns  BY <1>3 DEF ShutdownReturns
<1>4. CASE WaitReturns  BY <1>4 DEF WaitReturns
<1>5. CASE CloseStore  BY <1>5 DEF CloseStore
<1>6. CASE Decide
  <2>1. CASE Restart  BY <2>1 DEF Restart, Workers
  <2>2. CASE main = "deciding" /\ Leave("fatal")
    BY <2>2 DEF Leave
  <2>3. CASE main = "deciding" /\ serveErr = "nil" /\ ~wanted /\ Leave("exited")
    BY <2>3 DEF Leave
  <2> QED  BY <1>6, <2>1, <2>2, <2>3, DecideCases
<1>7. CASE TimerFires  BY <1>7 DEF TimerFires
<1>8. CASE Signal  BY <1>8 DEF Signal
<1>9. ASSUME NEW w \in Workers, WorkerLeaves(w)
       PROVE  UsersPresent'
  BY <1>9 DEF WorkerLeaves
<1>10. ASSUME NEW q \in Requests, NEW kind \in Kinds, Arrives(q, kind)
       PROVE  UsersPresent'
  BY <1>10 DEF Arrives
<1>11. ASSUME NEW q \in Requests, Ends(q)
       PROVE  UsersPresent'
  BY <1>11 DEF Ends
<1>12. ASSUME NEW q \in Requests, Blocks(q)
       PROVE  UsersPresent'
  BY <1>12 DEF Blocks
<1>13. ASSUME NEW q \in Requests, RebootRequest(q)
       PROVE  UsersPresent'
  BY <1>13 DEF RebootRequest
<1>14. ASSUME NEW u \in StoreUsers, UseStore(u)
       PROVE  UsersPresent'
  BY <1>14 DEF UseStore, MayUse
<1>15. ASSUME NEW u \in StoreUsers, DoneWithStore(u)
       PROVE  UsersPresent'
  BY <1>15 DEF DoneWithStore
<1>16. CASE UNCHANGED vars  BY <1>16 DEF vars
<1> QED
  BY StepCases, <1>1, <1>2, <1>3, <1>4, <1>5, <1>6, <1>7, <1>8, <1>9, <1>10, <1>11, <1>12, <1>13, <1>14, <1>15, <1>16

(***************************************************************************)
(* The context is cancelled by a signal, a reboot or a failure to serve.   *)
(***************************************************************************)
LEMMA ReasonStep ==
    ASSUME LifecycleTypeOK, DoneForAReason, [LifecycleNext]_vars
    PROVE  DoneForAReason'
<1> USE DEF DoneForAReason, rebootVars, storeVars, Stop
<1>1. CASE ServeFails  BY <1>1 DEF ServeFails
<1>2. CASE BeginShutdown  BY <1>2 DEF BeginShutdown
<1>3. CASE ShutdownReturns  BY <1>3 DEF ShutdownReturns
<1>4. CASE WaitReturns  BY <1>4 DEF WaitReturns
<1>5. CASE CloseStore  BY <1>5 DEF CloseStore
<1>6. CASE Decide
  <2>1. CASE Restart  BY <2>1 DEF Restart
  <2>2. CASE main = "deciding" /\ Leave("fatal")
    BY <2>2 DEF Leave
  <2>3. CASE main = "deciding" /\ serveErr = "nil" /\ ~wanted /\ Leave("exited")
    BY <2>3 DEF Leave
  <2> QED  BY <1>6, <2>1, <2>2, <2>3, DecideCases
<1>7. CASE TimerFires  BY <1>7 DEF TimerFires
<1>8. CASE Signal  BY <1>8 DEF Signal
<1>9. ASSUME NEW w \in Workers, WorkerLeaves(w)
       PROVE  DoneForAReason'
  BY <1>9 DEF WorkerLeaves
<1>10. ASSUME NEW q \in Requests, NEW kind \in Kinds, Arrives(q, kind)
       PROVE  DoneForAReason'
  BY <1>10 DEF Arrives
<1>11. ASSUME NEW q \in Requests, Ends(q)
       PROVE  DoneForAReason'
  BY <1>11 DEF Ends
<1>12. ASSUME NEW q \in Requests, Blocks(q)
       PROVE  DoneForAReason'
  BY <1>12 DEF Blocks
<1>13. ASSUME NEW q \in Requests, RebootRequest(q)
       PROVE  DoneForAReason'
  BY <1>13 DEF RebootRequest
<1>14. ASSUME NEW u \in StoreUsers, UseStore(u)
       PROVE  DoneForAReason'
  BY <1>14 DEF UseStore
<1>15. ASSUME NEW u \in StoreUsers, DoneWithStore(u)
       PROVE  DoneForAReason'
  BY <1>15 DEF DoneWithStore
<1>16. CASE UNCHANGED vars  BY <1>16 DEF vars
<1> QED
  BY StepCases, <1>1, <1>2, <1>3, <1>4, <1>5, <1>6, <1>7, <1>8, <1>9, <1>10, <1>11, <1>12, <1>13, <1>14, <1>15, <1>16

(***************************************************************************)
(* Requests, goroutines, store: in this order.                             *)
(***************************************************************************)
LEMMA TakenDownStep ==
    ASSUME LifecycleTypeOK, TakenDown, [LifecycleNext]_vars
    PROVE  TakenDown'
<1> USE DEF TakenDown, LifecycleTypeOK, Busy, rebootVars, storeVars, Stop, Gone
<1>1. CASE ServeFails  BY <1>1 DEF ServeFails
<1>2. CASE BeginShutdown  BY <1>2 DEF BeginShutdown
<1>3. CASE ShutdownReturns  BY <1>3 DEF ShutdownReturns
<1>4. CASE WaitReturns  BY <1>4 DEF WaitReturns
<1>5. CASE CloseStore  BY <1>5 DEF CloseStore
<1>6. CASE Decide
  <2>1. CASE Restart  BY <2>1 DEF Restart
  <2>2. CASE main = "deciding" /\ Leave("fatal")
    BY <2>2 DEF Leave
  <2>3. CASE main = "deciding" /\ serveErr = "nil" /\ ~wanted /\ Leave("exited")
    BY <2>3 DEF Leave
  <2> QED  BY <1>6, <2>1, <2>2, <2>3, DecideCases
<1>7. CASE TimerFires  BY <1>7 DEF TimerFires
<1>8. CASE Signal  BY <1>8 DEF Signal
<1>9. ASSUME NEW w \in Workers, WorkerLeaves(w)
       PROVE  TakenDown'
  BY <1>9 DEF WorkerLeaves
<1>10. ASSUME NEW q \in Requests, NEW kind \in Kinds, Arrives(q, kind)
       PROVE  TakenDown'
  BY <1>10 DEF Arrives
<1>11. ASSUME NEW q \in Requests, Ends(q)
       PROVE  TakenDown'
  BY <1>11 DEF Ends
<1>12. ASSUME NEW q \in Requests, Blocks(q)
       PROVE  TakenDown'
  BY <1>12 DEF Blocks
<1>13. ASSUME NEW q \in Requests, RebootRequest(q)
       PROVE  TakenDown'
  BY <1>13 DEF RebootRequest
<1>14. ASSUME NEW u \in StoreUsers, UseStore(u)
       PROVE  TakenDown'
  BY <1>14 DEF UseStore
<1>15. ASSUME NEW u \in StoreUsers, DoneWithStore(u)
       PROVE  TakenDown'
  BY <1>15 DEF DoneWithStore
<1>16. CASE UNCHANGED vars  BY <1>16 DEF vars
<1> QED
  BY StepCases, <1>1, <1>2, <1>3, <1>4, <1>5, <1>6, <1>7, <1>8, <1>9, <1>10, <1>11, <1>12, <1>13, <1>14, <1>15, <1>16

-----------------------------------------------------------------------------
(* The invariant is established by run and kept by every step. *)
LEMMA InvariantHolds == LifecycleSpec => []LifecycleInv
<1>1. ASSUME LifecycleInit
      PROVE  LifecycleInv
  <2>1. LifecycleTypeOK  BY <1>1, TypeInit
  <2>2. RunLeft  BY <1>1 DEF LifecycleInit, RunLeft
  <2>3. UsersPresent  BY <1>1 DEF LifecycleInit, UsersPresent
  <2>4. DoneForAReason  BY <1>1 DEF LifecycleInit, DoneForAReason
  <2>5. TakenDown  BY <1>1 DEF LifecycleInit, TakenDown
  <2> QED  BY <2>1, <2>2, <2>3, <2>4, <2>5 DEF LifecycleInv
<1>2. ASSUME LifecycleInv, [LifecycleNext]_vars
      PROVE  LifecycleInv'
  <2>1. LifecycleTypeOK /\ RunLeft /\ UsersPresent /\ DoneForAReason /\ TakenDown
    BY <1>2 DEF LifecycleInv
  <2>2. /\ writing \subseteq StoreUsers
        /\ inflight \in [Requests -> Kinds \cup {"none"}]
    BY <2>1, Zenon DEF LifecycleTypeOK
  <2>3. LifecycleTypeOK'  BY <1>2, <2>1, TypeStep
  <2>4. RunLeft'  BY <1>2, <2>1, RunLeftStep
  <2>5. UsersPresent'  BY <1>2, <2>1, <2>2, UsersStep
  <2>6. DoneForAReason'  BY <1>2, <2>1, ReasonStep
  <2>7. TakenDown'  BY <1>2, <2>1, TakenDownStep
  <2> QED  BY <2>3, <2>4, <2>5, <2>6, <2>7 DEF LifecycleInv
<1> QED  BY <1>1, <1>2, PTL DEF LifecycleSpec

(***************************************************************************)
(* Every variable of main, its server and its goroutines keeps its type.   *)
(***************************************************************************)
THEOREM TypeCorrect == LifecycleSpec => []LifecycleTypeOK
<1>1. LifecycleInv => LifecycleTypeOK
  BY DEF LifecycleInv
<1> QED  BY <1>1, InvariantHolds, PTL

(***************************************************************************)
(* However the shutdown began, the store is closed only when no goroutine  *)
(* of run is left and persistLoop is not in the middle of an insert (run's *)
(* wg.Wait before st.Close).                                               *)
(***************************************************************************)
THEOREM ClosedAfterLastWrite == LifecycleSpec => []NoWriteAfterClose
<1>1. LifecycleInv => NoWriteAfterClose
  BY DEF LifecycleInv, TakenDown, UsersPresent, NoWriteAfterClose
<1> QED  BY <1>1, InvariantHolds, PTL

(***************************************************************************)
(* The process exits normally only after a signal: neither a reboot        *)
(* through the API nor a failure to serve ends that way (run's returns and *)
(* the order of flag and cancellation in its Reboot closure).              *)
(***************************************************************************)
THEOREM ExitIsTold == LifecycleSpec => []ExitsOnlyWhenTold
<1>1. LifecycleInv => ExitsOnlyWhenTold
  BY DEF LifecycleInv, DoneForAReason, ExitsOnlyWhenTold
<1> QED  BY <1>1, InvariantHolds, PTL

(* A step that exits or starts over is a return of run, and finds all gone. *)
LEMMA CleanStep ==
    ASSUME LifecycleInv, [LifecycleNext]_vars,
           runs' # runs \/ (main' # main /\ main' = "exited")
    PROVE  Busy = {} /\ working = {} /\ writing = {} /\ store = "closed"
<1>1. LifecycleTypeOK /\ UsersPresent /\ TakenDown
  BY DEF LifecycleInv
<1>2. Decide
  BY StepCases
  DEF ServeFails, BeginShutdown, ShutdownReturns, WaitReturns, CloseStore,
      TimerFires, Signal, WorkerLeaves, Arrives, Ends, Blocks, RebootRequest,
      UseStore, DoneWithStore, vars
<1>3. main = "deciding" /\ serveErr = "nil"
  <2>1. ~Leave("fatal")
    BY DEF Leave
  <2> QED  BY <1>2, <2>1, DecideCases
<1>4. Busy = {} /\ working = {} /\ store = "closed"
  BY <1>1, <1>3 DEF TakenDown
<1>5. writing = {}
  <2>1. ASSUME NEW u \in writing
        PROVE  FALSE
    <3>1. u # "persist"
      BY <1>1, <1>4, <2>1 DEF UsersPresent
    <3>2. inflight[u] # "none"
      BY <1>1, <2>1, <3>1 DEF UsersPresent
    <3>3. u \in Requests
      BY <1>1, <2>1, <3>1 DEF LifecycleTypeOK, StoreUsers
    <3> QED  BY <1>4, <3>2, <3>3 DEF Busy
  <2> QED  BY <2>1
<1> QED  BY <1>4, <1>5

(***************************************************************************)
(* A plain exit and a new incarnation find no request in flight, no        *)
(* goroutine that wg counts, no user of the store and a closed store       *)
(* (ListenAndServe, run, main).                                            *)
(***************************************************************************)
THEOREM NextFindsNothingLeft == LifecycleSpec => NothingLeftBehind
<1>1. LifecycleInv /\ [LifecycleNext]_vars =>
        [runs' # runs \/ (main' # main /\ main' = "exited")
           => Busy = {} /\ working = {} /\ writing = {} /\ store = "closed"]_vars
  BY CleanStep
<1>2. LifecycleSpec => [][LifecycleNext]_vars
  BY PTL DEF LifecycleSpec
<1> QED  BY <1>1, <1>2, InvariantHolds, PTL DEF NothingLeftBehind

-----------------------------------------------------------------------------
(* What the process looks like from outside (Process). *)

(* A reboot that was armed was accepted; signals are given back with ctx. *)
Promised ==
    /\ once => accepted
    /\ signals # "captured" => ctxDone

LEMMA PromisedStep ==
    ASSUME Promised, [LifecycleNext]_vars
    PROVE  Promised'
<1> USE DEF Promised, rebootVars, storeVars, Stop
<1>1. CASE ServeFails  BY <1>1 DEF ServeFails
<1>2. CASE BeginShutdown  BY <1>2 DEF BeginShutdown
<1>3. CASE ShutdownReturns  BY <1>3 DEF ShutdownReturns
<1>4. CASE WaitReturns  BY <1>4 DEF WaitReturns
<1>5. CASE CloseStore  BY <1>5 DEF CloseStore
<1>6. CASE Decide
  <2>1. CASE Restart  BY <2>1 DEF Restart
  <2>2. CASE Leave("fatal")  BY <2>2 DEF Leave
  <2>3. CASE Leave("exited")  BY <2>3 DEF Leave
  <2> QED  BY <1>6, <2>1, <2>2, <2>3, DecideCases
<1>7. CASE TimerFires  BY <1>7 DEF TimerFires
<1>8. CASE Signal  BY <1>8 DEF Signal
<1>9. ASSUME NEW w \in Workers, WorkerLeaves(w)
       PROVE  Promised'
  BY <1>9 DEF WorkerLeaves
<1>10. ASSUME NEW q \in Requests, NEW kind \in Kinds, Arrives(q, kind)
       PROVE  Promised'
  BY <1>10 DEF Arrives
<1>11. ASSUME NEW q \in Requests, Ends(q)
       PROVE  Promised'
  BY <1>11 DEF Ends
<1>12. ASSUME NEW q \in Requests, Blocks(q)
       PROVE  Promised'
  BY <1>12 DEF Blocks
<1>13. ASSUME NEW q \in Requests, RebootRequest(q)
       PROVE  Promised'
  BY <1>13 DEF RebootRequest
<1>14. ASSUME NEW u \in StoreUsers, UseStore(u)
       PROVE  Promised'
  BY <1>14 DEF UseStore
<1>15. ASSUME NEW u \in StoreUsers, DoneWithStore(u)
       PROVE  Promised'
  BY <1>15 DEF DoneWithStore
<1>16. CASE UNCHANGED vars  BY <1>16 DEF vars
<1> QED
  BY StepCases, <1>1, <1>2, <1>3, <1>4, <1>5, <1>6, <1>7, <1>8, <1>9, <1>10, <1>11, <1>12, <1>13, <1>14, <1>15, <1>16

LEMMA PromisedHolds == LifecycleSpec => []Promised
<1>1. LifecycleInit => Promised
  BY DEF LifecycleInit, Promised
<1>2. Promised /\ [LifecycleNext]_vars => Promised'
  BY PromisedStep
<1> QED  BY <1>1, <1>2, PTL DEF LifecycleSpec

(***************************************************************************)
(* A step of the process is one of Process, or nothing anyone sees.        *)
(***************************************************************************)
LEMMA OutsideStep ==
    ASSUME RunLeft, DoneForAReason, Promised, [LifecycleNext]_vars
    PROVE  [Outside!ProcessNext]_(Outside!processVars)
<1> DEFINE Unseen == UNCHANGED <<main, ctxDone, accepted>>
<1> USE DEF Promised, rebootVars, storeVars, Stop, Gone
<1>0. ASSUME Unseen
      PROVE  UNCHANGED Outside!processVars
  BY <1>0 DEF Outside!processVars
<1> USE DEF Outside!ProcessNext, Outside!processVars
<1>1. CASE ServeFails  BY <1>1 DEF ServeFails, Outside!Depart
<1>2. CASE BeginShutdown  BY <1>2 DEF BeginShutdown
<1>3. CASE ShutdownReturns  BY <1>3 DEF ShutdownReturns, DoneForAReason
<1>4. CASE WaitReturns  BY <1>4 DEF WaitReturns
<1>5. CASE CloseStore  BY <1>5 DEF CloseStore
<1>6. CASE Decide
  <2>1. main = "deciding" /\ ctxDone
    BY <1>6, DecideCases DEF DoneForAReason
  <2>2. CASE wanted /\ Restart
    <3>1. accepted
      BY <2>2 DEF RunLeft
    <3> QED  BY <2>1, <2>2, <3>1 DEF Restart, Outside!ServeAgain
  <2>3. CASE Leave("fatal")  BY <2>1, <2>3 DEF Leave, Outside!Vanish
  <2>4. CASE Leave("exited")  BY <2>1, <2>4 DEF Leave, Outside!Vanish
  <2> QED  BY <1>6, <2>2, <2>3, <2>4, DecideCases
<1>7. CASE TimerFires  BY <1>7 DEF TimerFires, Outside!Depart
<1>8. CASE Signal
  <2>1. CASE signals = "captured"  BY <1>8, <2>1 DEF Signal, Outside!Depart
  <2>2. CASE signals # "captured"
    <3>1. ctxDone
      BY <2>2, <1>8 DEF Signal
    <3> QED  BY <1>8, <2>2, <3>1 DEF Signal, Outside!Vanish
  <2> QED  BY <2>1, <2>2
<1>9. ASSUME NEW w \in Workers, WorkerLeaves(w)
       PROVE  Unseen
  BY <1>9 DEF WorkerLeaves
<1>10. ASSUME NEW q \in Requests, NEW kind \in Kinds, Arrives(q, kind)
       PROVE  Unseen
  BY <1>10 DEF Arrives
<1>11. ASSUME NEW q \in Requests, Ends(q)
       PROVE  Unseen
  BY <1>11 DEF Ends
<1>12. ASSUME NEW q \in Requests, Blocks(q)
       PROVE  Unseen
  BY <1>12 DEF Blocks
<1>13. ASSUME NEW q \in Requests, RebootRequest(q)
       PROVE  Outside!AcceptReboot
  BY <1>13 DEF RebootRequest, Outside!AcceptReboot
<1>14. ASSUME NEW u \in StoreUsers, UseStore(u)
       PROVE  Unseen
  BY <1>14 DEF UseStore
<1>15. ASSUME NEW u \in StoreUsers, DoneWithStore(u)
       PROVE  Unseen
  BY <1>15 DEF DoneWithStore
<1>16. CASE UNCHANGED vars  BY <1>16 DEF vars
<1> HIDE DEF Unseen
<1> QED
  BY StepCases, <1>0, <1>1, <1>2, <1>3, <1>4, <1>5, <1>6, <1>7, <1>8, <1>9, <1>10, <1>11, <1>12, <1>13, <1>14, <1>15, <1>16

(***************************************************************************)
(* Seen from outside, the process behaves as Process says: it serves again *)
(* only after an accepted reboot, and nothing brings back one that is gone *)
(* (the safety half of ImplementsProcess).                                 *)
(***************************************************************************)
THEOREM BehavesAsProcess ==
    LifecycleSpec =>
        Outside!ProcessInit /\ [][Outside!ProcessNext]_(Outside!processVars)
<1>1. LifecycleInit => Outside!ProcessInit
  BY DEF LifecycleInit, Outside!ProcessInit, Gone
<1>2. LifecycleInv /\ Promised /\ [LifecycleNext]_vars
        => [Outside!ProcessNext]_(Outside!processVars)
  BY OutsideStep DEF LifecycleInv
<1> QED  BY <1>1, <1>2, InvariantHolds, PromisedHolds, PTL DEF LifecycleSpec

-----------------------------------------------------------------------------
(***************************************************************************)
(* The watchdog of the event stream, for every sample interval, heartbeat  *)
(* and default threshold: it cuts no stream that is well.  The invariant:  *)
(* a connection whose hello was read has a threshold of four intervals,    *)
(* and no stream is reopened that is still being read.                     *)
(***************************************************************************)
Adapted ==
    /\ stallMs \in Nat \ {0}
    /\ greeting \in {"awaited", "read", "skipped"}
    /\ greeting = "read" => stallMs >= 4 * Interval
    /\ reopen => fetch = "none"

(* The steps of the stream by name; all others leave it alone. *)
LEMMA StreamCases ==
    ASSUME [ConsoleNext]_consoleVars
    PROVE  \/ Open \/ StreamAccepted \/ ResponseArrives \/ RequestFails
           \/ Hello \/ HelloSkipped \/ EventTooLong \/ HandlerReturns \/ LinkDies
           \/ StreamEnds \/ StallFires \/ NetChanges
           \/ UNCHANGED streamVars
<1>1. CASE StreamStep  BY <1>1 DEF StreamStep
<1>2. CASE ProcessStep  BY <1>2 DEF ProcessStep
<1>3. ASSUME NEW p \in Posts, Click(p) \/ PostAccepted(p) \/ PostFails(p) \/ PostHeard(p)
      PROVE  UNCHANGED streamVars
  BY <1>3 DEF Click, PostAccepted, PostFails, PostHeard
<1>4. CASE UNCHANGED consoleVars  BY <1>4 DEF consoleVars
<1> QED  BY <1>1, <1>2, <1>3, <1>4 DEF ConsoleNext

LEMMA AdaptedStep ==
    ASSUME Adapted, [ConsoleNext]_consoleVars
    PROVE  Adapted'
<1> USE EventStreamAssumption DEF Adapted
<1>1. CASE Hello  BY <1>1 DEF Hello
<1>2. ASSUME GenerationEnds  PROVE Adapted'
  BY <1>2 DEF GenerationEnds
<1>3. ASSUME UNCHANGED <<stallMs, greeting>>, reopen' => reopen /\ UNCHANGED fetch
      PROVE  Adapted'
  BY <1>3
<1>4. CASE \/ Open \/ StreamAccepted \/ ResponseArrives \/ EventTooLong
           \/ HandlerReturns \/ LinkDies \/ NetChanges
  BY <1>3, <1>4
  DEF Open, StreamAccepted, ResponseArrives, EventTooLong, HandlerReturns, LinkDies,
      NetChanges
<1>5. CASE RequestFails \/ StreamEnds \/ StallFires
  BY <1>2, <1>5 DEF RequestFails, StreamEnds, StallFires
<1>6. CASE UNCHANGED streamVars  BY <1>3, <1>6 DEF streamVars
<1>7. CASE HelloSkipped  BY <1>7 DEF HelloSkipped
<1> QED  BY StreamCases, <1>1, <1>4, <1>5, <1>6, <1>7

(* The longest silence of a stream that is well is below the threshold. *)
LEMMA SilenceIsShort ==
    ASSUME Adapted, greeting # "skipped"
    PROVE  ~(Silence >= stallMs)
  BY EventStreamAssumption DEF Adapted, Silence

(***************************************************************************)
(* The watchdog never cuts a stream that is well and whose hello was not   *)
(* skipped, whatever the interval at which the server samples              *)
(* (connectStream, setStallMs, connectLive).                               *)
(***************************************************************************)
THEOREM WellStreamsAreKept == ConsoleSpec => HealthyStreamIsKept
<1>1. ConsoleInit => Adapted
  BY EventStreamAssumption DEF ConsoleInit, StreamInit, Adapted
<1>2. Adapted /\ [ConsoleNext]_consoleVars => Adapted'
  BY AdaptedStep
<1>3. ASSUME Adapted, [ConsoleNext]_consoleVars,
             fetch = "reading", conn = "live", net, greeting # "skipped"
      PROVE  fetch' = "reading"
  <2>1. ~StallFires
    BY <1>3, SilenceIsShort DEF StallFires
  <2>2. fetch = "reading" /\ conn = "live"
    BY <1>3
  <2>3. ASSUME UNCHANGED fetch  PROVE fetch' = "reading"
    BY <2>2, <2>3
  <2>4. \/ Open \/ StreamAccepted \/ ResponseArrives \/ RequestFails
        \/ Hello \/ HelloSkipped \/ EventTooLong \/ HandlerReturns \/ LinkDies
        \/ StreamEnds \/ NetChanges \/ UNCHANGED streamVars
    BY <1>3, <2>1, StreamCases
  <2>5. ~StreamAccepted /\ ~ResponseArrives /\ ~RequestFails /\ ~StreamEnds
    BY <2>2 DEF StreamAccepted, ResponseArrives, RequestFails, StreamEnds
  <2>6. ~Open
    BY <1>3, <2>2 DEF Open, Adapted
  <2> QED
    BY <2>3, <2>4, <2>5, <2>6
    DEF Hello, HelloSkipped, EventTooLong, HandlerReturns, LinkDies, NetChanges, streamVars
<1>4. Adapted /\ [ConsoleNext]_consoleVars
        => [fetch = "reading" /\ conn = "live" /\ net /\ greeting # "skipped"
              => fetch' = "reading"]_consoleVars
  BY <1>3
<1> QED  BY <1>1, <1>2, <1>4, PTL DEF ConsoleSpec, HealthyStreamIsKept
=============================================================================
