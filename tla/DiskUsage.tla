------------------------------ MODULE DiskUsage ------------------------------
(***************************************************************************)
(* internal/collector/disk_usage.go: requests that ask for the largest     *)
(* children of a directory.  Each walks the directory with workers of its  *)
(* own, which share a counter of visited entries, a deadline and the       *)
(* request's context; the results are kept for a while in a cache that all *)
(* requests share.                                                         *)
(*                                                                         *)
(* A directory is a sequence of children; below a child is what WalkDir    *)
(* visits there, where "mount" stands for all that has no size and is not  *)
(* entered.  Files have size 1.  Checks of the path are left out, but any  *)
(* may fail, as may every entry.  The file system answers and does not     *)
(* change during a walk.                                                   *)
(***************************************************************************)
EXTENDS Integers, Sequences, FiniteSets, Functions

CONSTANTS
    Requests,   \* requests that may run at once
    Tree,       \* Tree[p]: the children of directory p
    MaxWorkers, \* diskBreakdownWorkers
    Limit,      \* diskBreakdownLimit, entries of one scan
    MaxItems,   \* diskBreakdownItems
    TTL,        \* diskBreakdownCacheTTL
    CacheCap,   \* diskBreakdownCacheCap
    MaxTime     \* bound: the clock stays within 0..MaxTime

Paths == DOMAIN Tree
Children(p) == DOMAIN Tree[p]
Kinds == {"file", "dir", "link", "mount"}

ASSUME DiskUsageAssumption ==
    /\ \A p \in Paths : Tree[p] \in
         Seq([kind : Kinds, below : Seq({"file", "mount"})])
    /\ {MaxWorkers, Limit, MaxItems, TTL, CacheCap} \subseteq Nat \ {0}
    /\ MaxTime \in Nat

VARIABLES
    clock,      \* the monotonic clock
    cache,      \* diskUsageCache, a function on the paths that have an entry
    scan        \* scanDiskChildren of the requests that are in it

usageVars == <<clock, cache, scan>>

Workers == 1 .. MaxWorkers

(* A result slot, empty for what is not to be listed. *)
Items == [listed : BOOLEAN, size : Nat, skipped : Nat, incomplete : BOOLEAN]
NoItem == [listed |-> FALSE, size |-> 0, skipped |-> 0, incomplete |-> FALSE]

(* A worker waits for a job, measures a child, or has left. *)
Walks == [at : {"jobs", "walk", "left"}, child : Nat, pos : Nat, size : Nat,
          skipped : Nat]
NoWalk == [at |-> "jobs", child |-> 0, pos |-> 0, size |-> 0, skipped |-> 0]

Scans == [path : Paths, parent : {"live", "canceled"},
          ctx : {"live", "canceled", "deadline"}, next : Nat \ {0},
          visited : Nat, limitHit : BOOLEAN, walk : [Workers -> Walks],
          result : Seq(Items)]

(* The cache is bounded, and every result slot belongs to a child. *)
DiskTypeOK ==
    /\ clock \in 0 .. MaxTime
    /\ DOMAIN cache \subseteq Paths /\ Cardinality(DOMAIN cache) <= CacheCap
    /\ \A p \in DOMAIN cache :
         /\ cache[p].at \in 0 .. clock
         /\ {cache[p].usage.skipped, cache[p].usage.truncated} \subseteq BOOLEAN
         /\ Cardinality(cache[p].usage.items) <= MaxItems
    /\ DOMAIN scan \subseteq Requests
    /\ \A r \in DOMAIN scan :
         /\ scan[r] \in Scans
         /\ DOMAIN scan[r].result = Children(scan[r].path)

DiskInit == clock = 0 /\ cache = <<>> /\ scan = <<>>

ClockAdvances ==
    /\ clock < MaxTime
    /\ clock' = clock + 1
    /\ UNCHANGED <<cache, scan>>
-----------------------------------------------------------------------------
Without(f, x) == Restrict(f, DOMAIN f \ {x})
With(f, x, v) == [y \in DOMAIN f \cup {x} |-> IF y = x THEN v ELSE f[y]]

(* cachedDiskUsage: an entry that is too old counts as none and goes. *)
Fresh(p) == p \in DOMAIN cache /\ clock - cache[p].at < TTL

(* storeDiskUsage: a full cache loses its oldest entry, whichever path it has. *)
Stored(p, usage) ==
    LET oldest == CHOOSE q \in DOMAIN cache :
                      \A o \in DOMAIN cache : cache[q].at <= cache[o].at
        kept   == IF Cardinality(DOMAIN cache) >= CacheCap
                  THEN Without(cache, oldest) ELSE cache
    IN  With(kept, p, [at |-> clock, usage |-> usage])

(* scanDiskChildren begins: all jobs queued, a worker for each at most. *)
Begun(p) ==
    [path |-> p, parent |-> "live", ctx |-> "live", next |-> 1,
     visited |-> 0, limitHit |-> FALSE,
     walk |-> [w \in Workers |->
                 IF w <= Len(Tree[p]) THEN NoWalk ELSE [NoWalk EXCEPT !.at = "left"]],
     result |-> [c \in Children(p) |-> NoItem]]

(***************************************************************************)
(* DiskUsage up to the walk: a fresh entry answers, a stale one is         *)
(* deleted before anything can fail.                                       *)
(***************************************************************************)
Ask(r, p) ==
    /\ r \notin DOMAIN scan /\ ~Fresh(p)
    /\ cache' = Without(cache, p)
    /\ scan' = scan \/ scan' = With(scan, r, Begun(p))
    /\ UNCHANGED clock

(* The client goes away; its context takes that of the scan with it. *)
ClientLeaves(r) ==
    /\ r \in DOMAIN scan /\ scan[r].parent = "live"
    /\ scan' = [scan EXCEPT ![r].parent = "canceled",
                            ![r].ctx = IF @ = "live" THEN "canceled" ELSE @]
    /\ UNCHANGED <<clock, cache>>

(* diskBreakdownTimeout is over. *)
DeadlinePasses(r) ==
    /\ r \in DOMAIN scan /\ scan[r].ctx = "live"
    /\ scan' = [scan EXCEPT ![r].ctx = "deadline"]
    /\ UNCHANGED <<clock, cache>>
-----------------------------------------------------------------------------
(***************************************************************************)
(* A worker takes the next child.  A mount point, a symbolic link and,     *)
(* once the context is done, every child leave an empty slot.              *)
(***************************************************************************)
TakeJob(r, w) ==
    /\ r \in DOMAIN scan /\ scan[r].walk[w].at = "jobs"
    /\ LET s == scan[r]
           c == s.next
           kind == Tree[s.path][c].kind
           taken == [s EXCEPT !.next = c + 1]
           measured == s.ctx = "live" /\ kind \in {"file", "dir"}
           Becomes(t) == scan' = [scan EXCEPT ![r] = t]
       IN  /\ c <= Len(Tree[s.path])
           /\ \/ ~measured /\ Becomes(taken)
              \/ /\ measured          \* entry.Info fails
                 /\ Becomes([taken EXCEPT !.result[c] =
                        [listed |-> TRUE, size |-> 0, skipped |-> 1,
                         incomplete |-> TRUE]])
              \/ /\ measured /\ kind = "file"
                 /\ Becomes([taken EXCEPT
                        !.visited = @ + 1,
                        !.result[c] = [listed |-> TRUE, size |-> 1, skipped |-> 0,
                                       incomplete |-> FALSE]])
              \/ /\ measured /\ kind = "dir"
                 /\ Becomes([taken EXCEPT
                        !.walk[w] = [NoWalk EXCEPT !.at = "walk", !.child = c]])
    /\ UNCHANGED <<clock, cache>>

(* WalkDir returns, with an error if it was cut short. *)
Measured(s, w, cut) ==
    LET k == s.walk[w] IN
    [s EXCEPT !.walk[w] = NoWalk,
              !.result[k.child] =
                  [listed |-> TRUE, size |-> k.size, skipped |-> k.skipped,
                   incomplete |-> cut \/ k.skipped > 0]]

(* On to position next, or past the last one and out of WalkDir. *)
Onward(s, w, next) ==
    IF next > Len(Tree[s.path][s.walk[w].child].below)
    THEN Measured(s, w, FALSE)
    ELSE [s EXCEPT !.walk[w].pos = next]

(***************************************************************************)
(* One call of WalkDir's callback, at position 0 for the child itself.  It *)
(* counts the entry, and the one beyond the limit cancels all workers.  An *)
(* entry that fails is skipped, a directory with what is below it; a mount *)
(* point is not entered.  Looking at the context and counting are one step *)
(* since a worker that counts late exceeds the limit all the same.         *)
(***************************************************************************)
Visit(r, w) ==
    /\ r \in DOMAIN scan /\ scan[r].walk[w].at = "walk"
    /\ LET s == scan[r]
           k == s.walk[w]
           below == Tree[s.path][k.child].below
           over == s.visited + 1 > Limit
           counted == [s EXCEPT !.visited = @ + 1]
           Becomes(t) == scan' = [scan EXCEPT ![r] = t]
       IN  \/ s.ctx # "live" /\ Becomes(Measured(s, w, TRUE))
           \/ /\ s.ctx = "live" /\ over
              /\ Becomes(Measured([counted EXCEPT !.limitHit = TRUE,
                                                  !.ctx = "canceled"], w, TRUE))
           \/ /\ s.ctx = "live" /\ ~over
              /\ \E next \in {k.pos + 1, Len(below) + 1} :
                   Becomes(Onward([counted EXCEPT !.walk[w].skipped = @ + 1], w, next))
           \/ /\ s.ctx = "live" /\ ~over
              /\ LET size == IF k.pos > 0 /\ below[k.pos] = "file"
                             THEN k.size + 1 ELSE k.size
                 IN  Becomes(Onward([counted EXCEPT !.walk[w].size = size], w, k.pos + 1))
    /\ UNCHANGED <<clock, cache>>

(* Mutant: nobody closed the channel of the jobs. *)
WorkerLeavesWhenDone(r, w) ==
    /\ r \in DOMAIN scan /\ scan[r].walk[w].at = "jobs"
    /\ scan[r].next > Len(Tree[scan[r].path]) /\ scan[r].ctx # "live"
    /\ scan' = [scan EXCEPT ![r].walk[w].at = "left"]
    /\ UNCHANGED <<clock, cache>>

(* The channel of the jobs is closed and empty. *)
WorkerLeaves(r, w) ==
    /\ r \in DOMAIN scan /\ scan[r].walk[w].at = "jobs"
    /\ scan[r].next > Len(Tree[scan[r].path])
    /\ scan' = [scan EXCEPT ![r].walk[w].at = "left"]
    /\ UNCHANGED <<clock, cache>>
-----------------------------------------------------------------------------
(* The children to be listed, largest first and in their order otherwise. *)
Listed(result) == {c \in DOMAIN result : result[c].listed}
Before(result, c, d) ==
    \/ result[c].size > result[d].size
    \/ result[c].size = result[d].size /\ c < d
Rank(result, c) == Cardinality({e \in Listed(result) : Before(result, e, c)})

(* As many of them as are shown. *)
Top(result) == {c \in Listed(result) : Rank(result, c) < MaxItems}
Largest(result) ==
    {[child |-> c, size |-> result[c].size, incomplete |-> result[c].incomplete] :
        c \in Top(result)}

(* scanDiskChildren's answer once all workers have left; of SkippedEntries, *)
(* the sum over the slots, only whether it is 0.                            *)
Usage(s) ==
    [items     |-> Largest(s.result),
     skipped   |-> \E c \in DOMAIN s.result : s.result[c].skipped > 0,
     truncated |-> s.limitHit \/ s.ctx = "deadline"]

Returned(r) ==
    /\ r \in DOMAIN scan
    /\ \A w \in Workers : scan[r].walk[w].at = "left"
    /\ scan' = Without(scan, r)
    /\ UNCHANGED clock

(* Mutant: the context of the request is not looked at again. *)
ScanReturnsUnchecked(r) ==
    /\ Returned(r)
    /\ cache' = Stored(scan[r].path, Usage(scan[r]))

(***************************************************************************)
(* wg.Wait returns and DiskUsage ends: the walk of a client that went away *)
(* is an error, any other is stored and answered.  Nothing waits between   *)
(* the two; a client that leaves then might as well have left before.      *)
(***************************************************************************)
ScanReturns(r) ==
    /\ Returned(r)
    /\ cache' = IF scan[r].parent = "live"
                THEN Stored(scan[r].path, Usage(scan[r])) ELSE cache

WorkerStep(r, w) ==
    TakeJob(r, w) \/ Visit(r, w) \/ WorkerLeaves(r, w)

DiskNext ==
    \/ ClockAdvances
    \/ \E r \in Requests :
         \/ \E p \in Paths : Ask(r, p)
         \/ ClientLeaves(r) \/ DeadlinePasses(r) \/ ScanReturns(r)
         \/ \E w \in Workers : WorkerStep(r, w)

(***************************************************************************)
(* Workers run, as goroutines do; nothing is assumed of the deadline.      *)
(***************************************************************************)
DiskSpec ==
    /\ DiskInit /\ [][DiskNext]_usageVars
    /\ \A r \in Requests :
         /\ WF_usageVars(ScanReturns(r))
         /\ \A w \in Workers : WF_usageVars(WorkerStep(r, w))
-----------------------------------------------------------------------------
(* What a walk that nothing disturbs finds. *)
Listable(p) == {c \in Children(p) : Tree[p][c].kind \in {"file", "dir"}}
TrueSize(child) ==
    IF child.kind = "file" THEN 1
    ELSE Cardinality({i \in DOMAIN child.below : child.below[i] = "file"})

(***************************************************************************)
(* What is cached, and with it every answer, says what it lacks, whoever   *)
(* cut it short: limit, deadline, errors or a client that went away.  An   *)
(* item that is not marked incomplete has its true size, and a result that *)
(* is neither truncated nor has skipped anything shows the largest         *)
(* children of all (scanDiskChildren, measureDiskItem, DiskUsage).         *)
(***************************************************************************)
AnswersAreHonest ==
    \A p \in DOMAIN cache :
       LET usage == cache[p].usage
           shown == {item.child : item \in usage.items}
       IN  /\ \A item \in usage.items :
                ~item.incomplete => item.size = TrueSize(Tree[p][item.child])
           /\ ~usage.truncated /\ ~usage.skipped =>
                /\ \A item \in usage.items : ~item.incomplete
                /\ \A c \in Listable(p) \ shown :
                     /\ Cardinality(shown) = MaxItems
                     /\ \A d \in shown : TrueSize(Tree[p][d]) >= TrueSize(Tree[p][c])

(***************************************************************************)
(* Every walk ends without the help of its deadline: no worker waits for a *)
(* job that does not come, however the walk was cut short (the closed      *)
(* channel of jobs, wg.Wait).                                              *)
(***************************************************************************)
ScansEnd == \A r \in Requests : r \in DOMAIN scan ~> r \notin DOMAIN scan
=============================================================================
