------------------------------ MODULE Sampling ------------------------------
(***************************************************************************)
(* What one call of Collector.sample does before it publishes: the walk of *)
(* the process table, a statfs of every mount, a query of nvidia-smi.      *)
(* Each has a time limit and is tried again only after a pause; but only   *)
(* the statfs of a mount is left behind when it blocks.  A read of /proc,  *)
(* and a driver no signal reaches, are waited for, whatever the limit      *)
(* says.  Only the Run goroutine acts here; mounts and the kernel hang and *)
(* recover, and processes come and go, while it works.                     *)
(*                                                                         *)
(* Time is counted in sample intervals.                                    *)
(***************************************************************************)
EXTENDS Integers, FiniteSets

CONSTANTS
    MountCount,         \* mounts filterPartitions keeps, in the order probed
    DiskUsageTimeout,   \* diskUsageTimeout
    DiskReprobe,        \* diskReprobeInterval
    GPUQueryTimeout,    \* gpuQueryTimeout
    GPUReprobe,         \* gpuReprobeInterval
    ProcessInterval,    \* processSampleInterval
    ProcessTimeout,     \* processSampleTimeout
    MaxNow              \* bound: no sample begins later

ASSUME SamplingAssumption ==
    /\ MountCount \in Nat
    /\ DiskUsageTimeout \in Nat \ {0} /\ DiskReprobe \in Nat \ {0}
    /\ GPUQueryTimeout \in Nat \ {0} /\ GPUReprobe \in Nat \ {0}
    /\ ProcessInterval \in Nat \ {0} /\ ProcessTimeout \in Nat
    /\ MaxNow \in Nat

Mounts == 1 .. MountCount
NotHung == 0

VARIABLES
    now,        \* the monotonic clock
    tick,       \* the ticker's channel holds a tick
    at,         \* where sample is
    stuck,      \* mounts whose statfs blocks
    hangs,      \* the call the Run goroutine is in does not return
    unread,     \* history: unread[m], when m last recovered or failed to be
                \* read, Never if it was read since
    \* diskUsages and usage
    began,      \* its now: when the loop over the mounts began
    next,       \* the mount the loop is at
    disks,      \* mounts in the section built so far
    hung,       \* hungMounts: earliest next probe, or NotHung
    abandoned,  \* abandoned[m]: probe goroutines left behind and still blocked
    \* gpuPoller
    available, nextProbe,
    failures,   \* queries that failed so far
    \* processSampler, for one PID
    started,    \* its now: when the walk under way began
    nextWalk, lastWalk,
    baseline,   \* its entry in cpuTimes
    share       \* its row in topCPU

clockVars == <<now, tick>>
diskVars  == <<began, next, disks, hung, abandoned, unread>>
gpuVars   == <<available, nextProbe, failures>>
procVars  == <<started, nextWalk, lastWalk, baseline, share>>
worldVars == <<stuck, hangs>>
vars == <<clockVars, at, worldVars, diskVars, gpuVars, procVars>>

Never == -1

(***************************************************************************)
(* A reading of the PID: the creation time, which tells the process from   *)
(* another that takes over its PID, or Unknown (zero) where it could not   *)
(* be read; and the CPU time used at the time read, or Blank (zero         *)
(* seconds) where that could not be read.  The process the baseline is of  *)
(* is always called Mine, whichever it is.                                 *)
(***************************************************************************)
Blank == -1
Unknown == 0
Mine == 1
Other == 2
Reading(created, t) == [created |-> created, read |-> t]
NoReading == Reading(Unknown, -2)
NoShare == [within |-> TRUE, same |-> TRUE, known |-> FALSE, blank |-> FALSE]

(***************************************************************************)
(* New; its first query of the GPU works or not.                           *)
(***************************************************************************)
SamplingInit ==
    /\ now = 0 /\ tick = TRUE /\ at = "idle"
    /\ stuck = {} /\ hangs = FALSE
    /\ unread = [m \in Mounts |-> Never]
    /\ began = 0 /\ next = 1 /\ disks = {}
    /\ hung = [m \in Mounts |-> NotHung]
    /\ abandoned = [m \in Mounts |-> 0]
    /\ \/ available = TRUE /\ nextProbe = 0 /\ failures = 0
       \/ available = FALSE /\ nextProbe = GPUReprobe /\ failures = 1
    /\ started = 0 /\ nextWalk = 0 /\ lastWalk = Never
    /\ baseline = NoReading /\ share = NoShare

Elapse(d) == now' = now + d /\ tick' = (tick \/ d > 0)

-----------------------------------------------------------------------------
(* The world. *)

DisksDone == at = "loop" /\ next \notin Mounts
MayQuery == DisksDone /\ (available \/ now >= nextProbe)

TimePasses ==
    /\ at = "idle" \/ hangs
    /\ now < MaxNow
    /\ Elapse(1)
    /\ UNCHANGED <<at, worldVars, diskVars, gpuVars, procVars>>

(***************************************************************************)
(* The calls the Run goroutine makes itself, and waits for however long    *)
(* they take: reads under /proc (usage, memory, the process table and its  *)
(* rows, the mount table), and nvidia-smi until it and whoever inherited   *)
(* its output are gone (Output, without a WaitDelay).                      *)
(***************************************************************************)
Calling == at \in {"reads", "table", "mounts"} \/ MayQuery

KernelBlocks ==
    /\ Calling /\ ~hangs
    /\ hangs' = TRUE
    /\ UNCHANGED <<clockVars, at, stuck, diskVars, gpuVars, procVars>>

KernelReturns ==
    /\ hangs
    /\ hangs' = FALSE
    /\ UNCHANGED <<clockVars, at, stuck, diskVars, gpuVars, procVars>>

MountHangs(m) ==
    /\ m \notin stuck
    /\ stuck' = stuck \cup {m}
    /\ unread' = [unread EXCEPT ![m] = Never]
    /\ UNCHANGED <<clockVars, at, hangs, began, next, disks, hung, abandoned,
                   gpuVars, procVars>>

(***************************************************************************)
(* A mount recovers: every statfs on it returns, and the goroutines that   *)
(* usage abandoned send into their buffered channels and end.              *)
(***************************************************************************)
MountRecovers(m) ==
    /\ m \in stuck
    /\ stuck' = stuck \ {m}
    /\ abandoned' = [abandoned EXCEPT ![m] = 0]
    /\ unread' = [unread EXCEPT ![m] = now]
    /\ UNCHANGED <<clockVars, at, hangs, began, next, disks, hung, gpuVars, procVars>>

-----------------------------------------------------------------------------
(***************************************************************************)
(* Run takes a tick and sample begins: CPU and memory are read (a reading  *)
(* that fails leaves zeros and never skips the tick).                      *)
(***************************************************************************)
SampleBegins ==
    /\ at = "idle"
    /\ tick /\ now <= MaxNow
    /\ tick' = FALSE
    /\ at' = "reads"
    /\ UNCHANGED <<now, worldVars, diskVars, gpuVars, procVars>>

(***************************************************************************)
(* sampleProcesses between two walks: the rankings of the last one.        *)
(***************************************************************************)
RankingsCached ==
    /\ at = "reads" /\ ~hangs
    /\ now < nextWalk
    /\ at' = "mounts"
    /\ UNCHANGED <<clockVars, worldVars, diskVars, gpuVars, procVars>>

(***************************************************************************)
(* A walk is due: it begins, with its deadline, and no other does before   *)
(* the next interval.                                                      *)
(***************************************************************************)
WalkBegins ==
    /\ at = "reads" /\ ~hangs
    /\ now >= nextWalk
    /\ started' = now
    /\ nextWalk' = now + ProcessInterval
    /\ at' = "table"
    /\ UNCHANGED <<clockVars, worldVars, diskVars, gpuVars, lastWalk, baseline, share>>

(***************************************************************************)
(* When the walk may end.  The deadline is looked at between two calls: a  *)
(* walk that was not blocked ends by then, one that was ends with the call *)
(* that blocked it.                                                        *)
(***************************************************************************)
WalkEnds(end) ==
    /\ at = "table" /\ ~hangs
    /\ end \in now .. started + ProcessTimeout \/ end = now
    /\ now' = end
    /\ tick' = (tick \/ end > now)
    /\ at' = "mounts"
    /\ started' = 0
    /\ UNCHANGED <<worldVars, diskVars, gpuVars>>

EndTimes == now .. now + ProcessTimeout

(***************************************************************************)
(* The table could not be listed, or not before the deadline.              *)
(***************************************************************************)
WalkFails ==
    /\ \E end \in EndTimes : WalkEnds(end)
    /\ UNCHANGED <<nextWalk, lastWalk, baseline, share>>

(***************************************************************************)
(* The row of the PID, and whether it is sound: what was used is within    *)
(* the time from the beginning of the earlier walk to the end of the       *)
(* later; both readings are of the same process; their creation time is    *)
(* known; the earlier is blank.                                            *)
(***************************************************************************)
Share(who, reading, end) ==
    IF /\ lastWalk # Never /\ started > lastWalk
       /\ baseline # NoReading /\ reading # NoReading
       /\ baseline.created = reading.created
       /\ reading.read > baseline.read
    THEN [within |-> reading.read - baseline.read <= end - lastWalk,
          same |-> who = Mine,
          known |-> reading.created # Unknown, blank |-> baseline.read = Blank]
    ELSE NoShare

(* Of the next walk's baseline: its process is then the one called Mine. *)
Renamed(reading) == [reading EXCEPT !.created = IF @ = Unknown THEN Unknown ELSE Mine]

(* Mutant: processes a walk missed keep the baseline of an older one. *)
UpdateMerging(who, reading, end) ==
    /\ share' = Share(who, reading, end)
    /\ baseline' = IF reading = NoReading THEN baseline ELSE Renamed(reading)
    /\ lastWalk' = started

(***************************************************************************)
(* update: the readings of this walk rank the processes and replace the    *)
(* baseline of the one before.                                             *)
(***************************************************************************)
Update(who, reading, end) ==
    /\ share' = Share(who, reading, end)
    /\ baseline' = Renamed(reading)
    /\ lastWalk' = started

(***************************************************************************)
(* A walk that ends with readings.  The process was read at some time      *)
(* between its two ends, without creation time, without CPU time, or not   *)
(* at all (the row failed, or the deadline came first).  The first walk is *)
(* followed by another at the next tick.                                   *)
(***************************************************************************)
Walk ==
    \E end \in EndTimes :
        /\ WalkEnds(end)
        /\ \E who \in {Mine, Other} :
              \/ Update(who, NoReading, end)
              \/ \E created \in {who, Unknown}, t \in (started .. end) \cup {Blank} :
                    Update(who, Reading(created, t), end)
        /\ nextWalk' = IF lastWalk = Never THEN started ELSE nextWalk

-----------------------------------------------------------------------------
(***************************************************************************)
(* sampleDisks: the partitions cannot be listed.                           *)
(***************************************************************************)
ListingFails ==
    /\ at = "mounts" /\ ~hangs
    /\ began' = now
    /\ next' = MountCount + 1
    /\ unread' = [m \in Mounts |-> now]
    /\ at' = "loop"
    /\ UNCHANGED <<clockVars, worldVars, disks, hung, abandoned, gpuVars, procVars>>

(***************************************************************************)
(* diskUsages begins: one reading of the clock serves the whole loop.      *)
(***************************************************************************)
DisksBegin ==
    /\ at = "mounts" /\ ~hangs
    /\ began' = now
    /\ at' = "loop"
    /\ UNCHANGED <<clockVars, worldVars, next, disks, hung, abandoned, unread, gpuVars, procVars>>

(* Mutant: a mount is probed whatever happened to it. *)
AlwaysProbed(m) == FALSE

(***************************************************************************)
(* A mount that timed out is left alone until its pause is over.           *)
(***************************************************************************)
Skipped(m) == hung[m] # NotHung /\ began < hung[m]

MountSkipped ==
    /\ at = "loop" /\ next \in Mounts
    /\ Skipped(next)
    /\ next' = next + 1
    /\ UNCHANGED <<clockVars, at, worldVars, began, disks, hung, abandoned, unread,
                   gpuVars, procVars>>

(***************************************************************************)
(* The entry of an earlier timeout is dropped and usage starts its         *)
(* goroutine.                                                              *)
(***************************************************************************)
ProbeStarts ==
    /\ at = "loop" /\ next \in Mounts
    /\ ~Skipped(next)
    /\ hung' = [hung EXCEPT ![next] = NotHung]
    /\ at' = "probe"
    /\ UNCHANGED <<clockVars, worldVars, began, next, disks, abandoned, unread,
                   gpuVars, procVars>>

(***************************************************************************)
(* The probe returns in time: a usage, or an error or an empty filesystem, *)
(* which leave the mount out of this sample only.                          *)
(***************************************************************************)
ProbeAnswers ==
    /\ at = "probe"
    /\ next \notin stuck
    /\ \/ /\ disks' = disks \cup {next}
          /\ unread' = [unread EXCEPT ![next] = Never]
       \/ /\ unread' = [unread EXCEPT ![next] = now]
          /\ UNCHANGED disks
    /\ next' = next + 1
    /\ at' = "loop"
    /\ UNCHANGED <<clockVars, worldVars, began, hung, abandoned, gpuVars, procVars>>

(* Mutant: usage waits for as long as statfs takes. *)
ProbeNeverTimesOut == FALSE /\ UNCHANGED vars

(* Mutant: one mount that hangs ends the loop. *)
ProbeTimesOutForAll ==
    /\ at = "probe"
    /\ next \in stuck
    /\ Elapse(DiskUsageTimeout)
    /\ abandoned' = [abandoned EXCEPT ![next] = @ + 1]
    /\ hung' = [hung EXCEPT ![next] = began + DiskReprobe]
    /\ next' = MountCount + 1
    /\ at' = "loop"
    /\ UNCHANGED <<worldVars, began, disks, unread, gpuVars, procVars>>

(***************************************************************************)
(* usage gives up: its goroutine stays behind, blocked, and the mount is   *)
(* put aside until DiskReprobe after the loop began.                       *)
(***************************************************************************)
ProbeTimesOut ==
    /\ at = "probe"
    /\ next \in stuck
    /\ Elapse(DiskUsageTimeout)
    /\ abandoned' = [abandoned EXCEPT ![next] = @ + 1]
    /\ hung' = [hung EXCEPT ![next] = began + DiskReprobe]
    /\ next' = next + 1
    /\ at' = "loop"
    /\ UNCHANGED <<worldVars, began, disks, unread, gpuVars, procVars>>

-----------------------------------------------------------------------------
(***************************************************************************)
(* gpuPoller.sample: nothing between probes while there is no GPU.         *)
(***************************************************************************)
GPUSkipped ==
    /\ DisksDone
    /\ ~available /\ now < nextProbe
    /\ at' = "publish"
    /\ UNCHANGED <<clockVars, worldVars, diskVars, gpuVars, procVars>>

GPUAnswers ==
    /\ MayQuery /\ ~hangs
    /\ available' = TRUE
    /\ at' = "publish"
    /\ UNCHANGED <<clockVars, worldVars, diskVars, nextProbe, failures, procVars>>

(***************************************************************************)
(* nvidia-smi is missing, fails, shows no GPU, or is killed at its timeout *)
(* if a signal reaches it.                                                 *)
(***************************************************************************)
GPUFails ==
    /\ MayQuery /\ ~hangs
    /\ \E d \in {0, GPUQueryTimeout} :
          /\ Elapse(d)
          /\ nextProbe' = now + d + GPUReprobe
    /\ available' = FALSE
    /\ failures' = failures + 1
    /\ at' = "publish"
    /\ UNCHANGED <<worldVars, diskVars, procVars>>

(***************************************************************************)
(* The sections are complete: publish (module Collector) takes them, and   *)
(* the locals of diskUsages are gone.                                      *)
(***************************************************************************)
Publishes ==
    /\ at = "publish"
    /\ at' = "idle"
    /\ began' = 0 /\ next' = 1 /\ disks' = {}
    /\ UNCHANGED <<clockVars, worldVars, hung, abandoned, unread, gpuVars, procVars>>

SampleStep ==
    \/ RankingsCached \/ WalkBegins \/ WalkFails \/ Walk
    \/ ListingFails \/ DisksBegin \/ MountSkipped \/ ProbeStarts
    \/ ProbeAnswers \/ ProbeTimesOut
    \/ GPUSkipped \/ GPUAnswers \/ GPUFails
    \/ Publishes

SamplingNext ==
    \/ TimePasses
    \/ \E m \in Mounts : MountHangs(m) \/ MountRecovers(m)
    \/ KernelBlocks \/ KernelReturns
    \/ SampleBegins
    \/ SampleStep

(***************************************************************************)
(* A sample that began is carried on: its goroutine is scheduled and its   *)
(* timers fire.  Nothing is assumed of mounts, drivers and processes.      *)
(***************************************************************************)
SamplingSpec ==
    /\ SamplingInit
    /\ [][SamplingNext]_vars
    /\ WF_vars(SampleStep)

-----------------------------------------------------------------------------
SamplingTypeOK ==
    /\ now \in Nat /\ tick \in BOOLEAN
    /\ at \in {"idle", "reads", "table", "mounts", "loop", "probe", "publish"}
    /\ hangs \in BOOLEAN /\ (hangs => Calling)
    /\ stuck \subseteq Mounts /\ disks \subseteq Mounts
    /\ unread \in [Mounts -> (0 .. now) \cup {Never}]
    /\ began \in 0 .. now
    /\ next \in 1 .. MountCount + 1
    /\ at = "probe" => next \in Mounts
    /\ hung \in [Mounts -> Nat]
    /\ abandoned \in [Mounts -> Nat]
    /\ available \in BOOLEAN
    /\ nextProbe \in Nat /\ failures \in Nat
    /\ started \in 0 .. now
    /\ nextWalk \in Nat /\ lastWalk \in (0 .. now) \cup {Never}
    /\ \/ baseline = NoReading
       \/ baseline \in [created : {Unknown, Mine}, read : Nat \cup {Blank}]
    /\ share \in [within : BOOLEAN, same : BOOLEAN, known : BOOLEAN, blank : BOOLEAN]

(***************************************************************************)
(* A mount that stays hung costs one blocked goroutine per pause and no    *)
(* more, and a host without a GPU forks one nvidia-smi per pause: neither  *)
(* grows with the number of samples (hungMounts of diskUsages, nextProbe   *)
(* of gpuPoller).                                                          *)
(***************************************************************************)
ProbesAreRationed ==
    /\ \A m \in Mounts : abandoned[m] * DiskReprobe <= now + DiskReprobe
    /\ failures * GPUReprobe <= now + GPUReprobe

(***************************************************************************)
(* A disk is missing from a finished sample only for a reason: it hangs,   *)
(* or less than DiskReprobe before the sample's loop began it could not be *)
(* read.  A mount that recovered is back within one pause, whatever the    *)
(* other mounts do (diskUsages).                                           *)
(***************************************************************************)
MissingForAReason ==
    at = "publish" =>
        \A m \in Mounts \ disks :
            m \in stuck \/ (unread[m] # Never /\ began < unread[m] + DiskReprobe)

(***************************************************************************)
(* A CPU share spans two walks that follow each other: what was used is no *)
(* more than the time from the beginning of the one to the end of the      *)
(* other (update after partial, failed and blocked walks).  A baseline     *)
(* that is Blank is excepted: it counts as zero seconds.  The share is     *)
(* of one process, except when neither reading got a creation time: the    *)
(* code then compares zero with zero and takes a process for the one whose *)
(* PID it reuses, which the comment at processes.go:28 rules out.          *)
(***************************************************************************)
SharesSpanOneInterval ==
    share # NoShare =>
        /\ ~share.blank => share.within
        /\ share.known => share.same

(***************************************************************************)
(* No mount wedges the sampler, and no walk or query that answers late:    *)
(* every sample ends (usage with its timeout, sampleProcesses with its     *)
(* deadline), unless /proc or the driver blocks for good.  That they do    *)
(* not is a premise: sample waits for them, although the comment at        *)
(* gpu.go:95 says that a hung driver can never wedge the sampler.          *)
(***************************************************************************)
EverySampleEnds == <>[]~hangs => (at # "idle" ~> at = "idle")
=============================================================================
