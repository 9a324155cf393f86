-------------------------------- MODULE Store --------------------------------
(***************************************************************************)
(* internal/store and the persistence pump of main.go: persistLoop keeps   *)
(* the freshest snapshot it has received and writes it on every tick of    *)
(* one timer, prunes on every tick of another and once at start, while     *)
(* history requests read the same database.  The database has ONE          *)
(* connection: a transaction or an open result set holds it, and everybody *)
(* else waits for it.                                                      *)
(*                                                                         *)
(* A transaction is atomic for every other user of the connection, so      *)
(* Insert and Prune are one step each, commit or rollback.  QueryContext   *)
(* runs two statements and lets the connection go between them.  Averages  *)
(* and GPU columns are left out: a row is the snapshot it came from.       *)
(***************************************************************************)
EXTENDS Integers, Sequences

CONSTANTS
    Mounts,             \* mount points; a snapshot lists those that answered
    Queries,            \* history requests that may run at once
    Retention,          \* -olderThan of Prune
    Dur, Bucket,        \* the Range that is asked for
    SubscriberBuffer,   \* capacity of the channel of persistLoop
    MaxTime,            \* bound: the wall clock stays within 0..MaxTime
    MaxSamples,         \* bound: snapshots taken
    MaxSteps,           \* bound: times the wall clock is set
    MaxRestarts         \* bound: times the process ends and starts again

ASSUME StoreAssumption ==
    /\ Retention \in Nat \ {0}
    /\ Dur \in Nat \ {0}
    /\ Bucket \in Nat \ {0}
    /\ SubscriberBuffer \in Nat \ {0}
    /\ MaxTime \in Nat /\ MaxSamples \in Nat
    /\ MaxSteps \in Nat /\ MaxRestarts \in Nat
    /\ "free" \notin Queries

VARIABLES
    now,            \* the wall clock, in milliseconds of the model
    taken,          \* snapshots taken so far
    chan,           \* the channel of persistLoop
    pump,           \* persistLoop: "loop", "insert" or "prune"
    latest, fresh,  \* the freshest snapshot, and whether it awaits Insert
    cutoff,         \* of the Prune that waits for the connection
    samples,        \* rows of table samples
    disks,          \* rows of table disk_samples
    conn,           \* who holds the connection: a query, or "free"
    query,          \* query[q]: where QueryContext of request q is
    window,         \* window[q]: since and until of q
    seen,           \* seen[q]: timestamps of the samples its points come from
    shown,          \* shown[q]: bucket and mount of the entries of its Disks maps
    inserted,       \* history: the last snapshot a transaction committed
    steps, restarts

pumpVars == <<chan, pump, latest, fresh, cutoff>>
tables == <<samples, disks, inserted>>
queryVars == <<conn, query, window, seen, shown>>
bounds == <<steps, restarts>>
vars == <<now, taken, pumpVars, tables, queryVars, bounds>>

Times == 0 .. MaxTime
Snapshots == [ts : Times, n : 1 .. MaxSamples, mounts : SUBSET Mounts]
DiskRows == [ts : Times, mount : Mounts, n : 1 .. MaxSamples]
BucketOf(ts) == (ts \div Bucket) * Bucket

NoSnapshot == [ts |-> 0, n |-> 0, mounts |-> {}]
NoWindow == [since |-> 0, until |-> 0]

(* One row per primary key, a bounded channel, one holder of the connection. *)
StoreTypeOK ==
    /\ now \in Times /\ taken \in 0 .. MaxSamples
    /\ chan \in Seq(Snapshots) /\ Len(chan) <= SubscriberBuffer
    /\ pump \in {"loop", "insert", "prune"}
    /\ latest \in Snapshots \cup {NoSnapshot} /\ fresh \in BOOLEAN
    /\ cutoff \in Int
    /\ samples \subseteq Snapshots
    /\ \A r, s \in samples : r.ts = s.ts => r = s
    /\ disks \subseteq DiskRows
    /\ \A r, s \in disks : r.ts = s.ts /\ r.mount = s.mount => r = s
    /\ conn \in Queries \cup {"free"}
    /\ query \in [Queries -> {"idle", "select", "points", "merge", "disks"}]
    /\ window \in [Queries -> [since : Int, until : Times]]
    /\ seen \in [Queries -> SUBSET Times]
    /\ shown \in [Queries -> SUBSET (Int \X Mounts)]
    /\ inserted \in 0 .. MaxSamples
    /\ steps \in 0 .. MaxSteps /\ restarts \in 0 .. MaxRestarts

(***************************************************************************)
(* Open on an empty database; persistLoop is about to prune.               *)
(***************************************************************************)
StoreInit ==
    /\ now = 0 /\ taken = 0
    /\ chan = <<>>
    /\ pump = "prune" /\ cutoff = 0 - Retention
    /\ latest = NoSnapshot /\ fresh = FALSE
    /\ samples = {} /\ disks = {} /\ inserted = 0
    /\ conn = "free"
    /\ query = [q \in Queries |-> "idle"]
    /\ window = [q \in Queries |-> NoWindow]
    /\ seen = [q \in Queries |-> {}]
    /\ shown = [q \in Queries |-> {}]
    /\ steps = 0 /\ restarts = 0
-----------------------------------------------------------------------------
(***************************************************************************)
(* Time passes, or somebody sets the clock forward or back.                *)
(***************************************************************************)
ClockAdvances ==
    /\ now < MaxTime
    /\ now' = now + 1
    /\ UNCHANGED <<taken, pumpVars, tables, queryVars, bounds>>

ClockIsSet ==
    /\ steps < MaxSteps
    /\ steps' = steps + 1
    /\ now' \in Times \ {now}
    /\ UNCHANGED <<taken, pumpVars, tables, queryVars, restarts>>

(***************************************************************************)
(* The collector publishes a snapshot with the mounts that answered; a     *)
(* full channel loses it.                                                  *)
(***************************************************************************)
Sample ==
    /\ taken < MaxSamples
    /\ taken' = taken + 1
    /\ \E up \in SUBSET Mounts :
         chan' = IF Len(chan) < SubscriberBuffer
                 THEN Append(chan, [ts |-> now, n |-> taken + 1, mounts |-> up])
                 ELSE chan
    /\ UNCHANGED <<now, pump, latest, fresh, cutoff,
                   tables, queryVars, bounds>>

-----------------------------------------------------------------------------
(***************************************************************************)
(* The cases of persistLoop's select.  The two timers tick at any moment   *)
(* and the order in which select takes what is ready is arbitrary, so the  *)
(* ticks need no state of their own.                                       *)
(***************************************************************************)
PumpReceives ==
    /\ pump = "loop" /\ chan # <<>>
    /\ latest' = Head(chan) /\ fresh' = TRUE
    /\ chan' = Tail(chan)
    /\ UNCHANGED <<now, taken, pump, cutoff, tables, queryVars,
                   bounds>>

(* Mutant: the flag is left standing. *)
PumpPersistsAgain ==
    /\ pump = "loop" /\ fresh
    /\ pump' = "insert"
    /\ UNCHANGED <<now, taken, chan, latest, fresh, cutoff, tables, queryVars,
                   bounds>>

(***************************************************************************)
(* A tick without a new sample is skipped; otherwise fresh is cleared      *)
(* before Insert asks for the connection.                                  *)
(***************************************************************************)
PumpPersists ==
    /\ pump = "loop" /\ fresh
    /\ pump' = "insert"
    /\ fresh' = FALSE
    /\ UNCHANGED <<now, taken, chan, latest, cutoff, tables, queryVars,
                   bounds>>

(* Prune reads the clock before it asks for the connection. *)
PumpPrunes ==
    /\ pump = "loop"
    /\ pump' = "prune" /\ cutoff' = now - Retention
    /\ UNCHANGED <<now, taken, chan, latest, fresh, tables, queryVars,
                   bounds>>

(* The rows of one snapshot, INSERT OR REPLACE by primary key. *)
WithSample(rows, s) == {r \in rows : r.ts # s.ts} \cup {s}
WithDisks(rows, s) ==
    {r \in rows : ~(r.ts = s.ts /\ r.mount \in s.mounts)}
        \cup {[ts |-> s.ts, mount |-> m, n |-> s.n] : m \in s.mounts}

(* Mutant: without the transaction, a failure leaves the row of samples. *)
InsertBare ==
    /\ pump = "insert" /\ conn = "free"
    /\ pump' = "loop"
    /\ samples' = WithSample(samples, latest)
    /\ inserted' = latest.n
    /\ \/ disks' = WithDisks(disks, latest)
       \/ UNCHANGED disks
    /\ UNCHANGED <<now, taken, chan, latest, fresh, cutoff, queryVars, bounds>>

(***************************************************************************)
(* Insert: both tables in one transaction, or an error and a rollback.     *)
(***************************************************************************)
Insert ==
    /\ pump = "insert" /\ conn = "free"
    /\ pump' = "loop"
    /\ \/ /\ samples' = WithSample(samples, latest)
          /\ disks' = WithDisks(disks, latest)
          /\ inserted' = latest.n
       \/ UNCHANGED tables
    /\ UNCHANGED <<now, taken, chan, latest, fresh, cutoff, queryVars, bounds>>

(***************************************************************************)
(* Prune: both tables in one transaction, or an error and a rollback.      *)
(***************************************************************************)
Prune ==
    /\ pump = "prune" /\ conn = "free"
    /\ pump' = "loop"
    /\ \/ /\ samples' = {r \in samples : r.ts >= cutoff}
          /\ disks' = {r \in disks : r.ts >= cutoff}
       \/ UNCHANGED <<samples, disks>>
    /\ UNCHANGED <<now, taken, chan, latest, fresh, cutoff, inserted,
                   queryVars, bounds>>
-----------------------------------------------------------------------------
(***************************************************************************)
(* handleHistory asks for the window that ends now.                        *)
(***************************************************************************)
Ask(q) ==
    /\ query[q] = "idle"
    /\ query' = [query EXCEPT ![q] = "select"]
    /\ window' = [window EXCEPT ![q] = [since |-> now - Dur, until |-> now]]
    /\ UNCHANGED <<now, taken, pumpVars, tables, conn, seen, shown, bounds>>

Within(ts, w) == w.since <= ts /\ ts <= w.until

(* QueryContext, the statement on samples: one point per bucket. *)
SelectSamples(q) ==
    /\ query[q] = "select" /\ conn = "free"
    /\ conn' = q
    /\ query' = [query EXCEPT ![q] = "points"]
    /\ seen' = [seen EXCEPT ![q] =
           {r.ts : r \in {s \in samples : Within(s.ts, window[q])}}]
    /\ UNCHANGED <<now, taken, pumpVars, tables, window, shown, bounds>>

(* What a request leaves when it is over. *)
Forget(q) ==
    /\ query' = [query EXCEPT ![q] = "idle"]
    /\ window' = [window EXCEPT ![q] = NoWindow]
    /\ seen' = [seen EXCEPT ![q] = {}]
    /\ shown' = [shown EXCEPT ![q] = {}]

(* Mutant: mergeDisks asks while the rows are still open. *)
PointsReadRowsOpen(q) ==
    /\ query[q] = "points"
    /\ query' = [query EXCEPT ![q] = "merge"]
    /\ UNCHANGED <<now, taken, pumpVars, tables, conn, window, seen, shown, bounds>>

(***************************************************************************)
(* The last rows.Next closes the rows and lets the connection go; without  *)
(* points there is nothing to merge.                                       *)
(***************************************************************************)
PointsRead(q) ==
    /\ query[q] = "points"
    /\ conn' = "free"
    /\ IF seen[q] = {}
       THEN Forget(q)
       ELSE /\ query' = [query EXCEPT ![q] = "merge"]
            /\ UNCHANGED <<window, seen, shown>>
    /\ UNCHANGED <<now, taken, pumpVars, tables, bounds>>

(* Mutant: mergeDisks takes the time again. *)
SelectDisksLater(q) ==
    /\ query[q] = "merge" /\ conn = "free"
    /\ conn' = q
    /\ query' = [query EXCEPT ![q] = "disks"]
    /\ shown' = [shown EXCEPT ![q] =
           {p \in {<<BucketOf(r.ts), r.mount>> :
                     r \in {d \in disks : now - Dur <= d.ts /\ d.ts <= now}} :
              p[1] \in {BucketOf(t) : t \in seen[q]}}]
    /\ UNCHANGED <<now, taken, pumpVars, tables, window, seen, bounds>>

(***************************************************************************)
(* mergeDisks, the statement on disk_samples: a bucket that has no point   *)
(* is dropped.                                                             *)
(***************************************************************************)
SelectDisks(q) ==
    /\ query[q] = "merge" /\ conn = "free"
    /\ conn' = q
    /\ query' = [query EXCEPT ![q] = "disks"]
    /\ shown' = [shown EXCEPT ![q] =
           {p \in {<<BucketOf(r.ts), r.mount>> :
                     r \in {d \in disks : Within(d.ts, window[q])}} :
              p[1] \in {BucketOf(t) : t \in seen[q]}}]
    /\ UNCHANGED <<now, taken, pumpVars, tables, window, seen, bounds>>

(* The points are complete and are answered. *)
Answered(q) ==
    /\ query[q] = "disks"
    /\ conn' = "free"
    /\ Forget(q)
    /\ UNCHANGED <<now, taken, pumpVars, tables, bounds>>

(* Mutant: the deferred rows.Close is missing. *)
GivesUpRowsOpen(q) ==
    /\ query[q] # "idle"
    /\ Forget(q)
    /\ UNCHANGED <<now, taken, pumpVars, tables, conn, bounds>>

(***************************************************************************)
(* The request is cancelled or a statement fails; rows.Close gives the     *)
(* connection back.                                                        *)
(***************************************************************************)
GivesUp(q) ==
    /\ query[q] # "idle"
    /\ conn' = IF conn = q THEN "free" ELSE conn
    /\ Forget(q)
    /\ UNCHANGED <<now, taken, pumpVars, tables, bounds>>
-----------------------------------------------------------------------------
(***************************************************************************)
(* The process ends, orderly or not, and starts again: what was committed  *)
(* stays, the rest is gone.                                                *)
(***************************************************************************)
Restart ==
    /\ restarts < MaxRestarts
    /\ restarts' = restarts + 1
    /\ chan' = <<>>
    /\ pump' = "prune" /\ cutoff' = now - Retention
    /\ latest' = NoSnapshot /\ fresh' = FALSE
    /\ conn' = "free"
    /\ query' = [q \in Queries |-> "idle"]
    /\ window' = [q \in Queries |-> NoWindow]
    /\ seen' = [q \in Queries |-> {}]
    /\ shown' = [q \in Queries |-> {}]
    /\ UNCHANGED <<now, taken, tables, steps>>

PersistLoop == PumpReceives \/ PumpPersists \/ PumpPrunes \/ Insert \/ Prune
QueryStep(q) ==
    SelectSamples(q) \/ PointsRead(q) \/ SelectDisks(q) \/ Answered(q)
StoreNext ==
    \/ ClockAdvances \/ ClockIsSet \/ Sample
    \/ PersistLoop
    \/ \E q \in Queries : Ask(q) \/ QueryStep(q) \/ GivesUp(q)
    \/ Restart

(***************************************************************************)
(* A waiter is picked at random when the connection comes back, so none is *)
(* passed over forever: strong fairness for those that wait for it.        *)
(***************************************************************************)
StoreSpec ==
    /\ StoreInit /\ [][StoreNext]_vars
    /\ SF_vars(Insert) /\ SF_vars(Prune)
    /\ \A q \in Queries : SF_vars(SelectSamples(q)) /\ SF_vars(SelectDisks(q))
    /\ \A q \in Queries : WF_vars(PointsRead(q)) /\ WF_vars(Answered(q))
-----------------------------------------------------------------------------
(***************************************************************************)
(* The two tables agree whatever fails, is pruned, repeats a timestamp or  *)
(* is cut off by a restart: every sample has the row of each of its disks, *)
(* and every disk row belongs to a stored timestamp (store.Insert,         *)
(* store.Prune).                                                           *)
(***************************************************************************)
TablesAgree ==
    /\ \A s \in samples : \A m \in s.mounts :
         [ts |-> s.ts, mount |-> m, n |-> s.n] \in disks
    /\ \A d \in disks : \E s \in samples : s.ts = d.ts

(***************************************************************************)
(* No snapshot is written twice, so one that was pruned never comes back,  *)
(* whatever the clock does (the fresh flag of persistLoop).                *)
(***************************************************************************)
NeverWrittenAgain == [][\A s \in samples' \ samples : s.n > inserted]_vars

(***************************************************************************)
(* Between its two statements a query may be overtaken by Insert, Prune    *)
(* and the clock.  Still each point shows every disk of the samples it was *)
(* made from, as far as they are stored, and no bucket without a point     *)
(* gets one (QueryContext, mergeDisks).                                    *)
(***************************************************************************)
PointsShowTheirDisks ==
    [][\A q \in Queries : query[q] = "merge" /\ query'[q] = "disks" =>
         /\ \A s \in samples : s.ts \in seen[q] =>
              \A m \in s.mounts : <<BucketOf(s.ts), m>> \in shown'[q]
         /\ \A p \in shown'[q] : \E t \in seen[q] : BucketOf(t) = p[1]]_vars

(***************************************************************************)
(* One connection is enough: no request waits forever for it, not even for *)
(* the second statement (SetMaxOpenConns(1)).                              *)
(***************************************************************************)
QueriesAreAnswered ==
    \A q \in Queries : query[q] # "idle" ~> query[q] = "idle"

(***************************************************************************)
(* A request that is aborted half-way does not keep the pump out of the    *)
(* database (the deferred rows.Close).                                     *)
(***************************************************************************)
PumpIsNeverLockedOut == pump # "loop" ~> pump = "loop"
=============================================================================
