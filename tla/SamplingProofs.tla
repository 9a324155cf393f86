--------------------------- MODULE SamplingProofs ---------------------------
(***************************************************************************)
(* What the sampler guarantees for any number of mounts and any time       *)
(* limits: probes are rationed, a missing disk has a reason, and a CPU     *)
(* share spans one interval.  Three invariants, one for each, beside the   *)
(* types.  In the second half, what the disk usage walk of the same        *)
(* package guarantees.                                                     *)
(***************************************************************************)
EXTENDS Sampling, DiskUsage, TLAPS, FiniteSetTheorems, SequenceTheorems,
        WellFoundedInduction

(* Why a mount may be absent from the sample of a loop begun at b. *)
Excused(m, b) == m \in stuck \/ (unread[m] # Never /\ b < unread[m] + DiskReprobe)

(* Goroutines left behind against the time that passed: up to the end of    *)
(* the pause of a hung mount, up to the loop's own clock at a mount it has  *)
(* yet to probe, up to now otherwise.                                       *)
RationOf(m) ==
    /\ hung[m] # NotHung => /\ abandoned[m] * DiskReprobe <= hung[m]
                            /\ hung[m] <= now + DiskReprobe
    /\ hung[m] = NotHung => abandoned[m] * DiskReprobe <= now
    /\ at \in {"loop", "probe"} /\ m >= next /\ hung[m] = NotHung
         => abandoned[m] * DiskReprobe <= began
    /\ at = "probe" /\ m = next => hung[m] = NotHung

(* Failed queries likewise, up to the next probe while there is no GPU.     *)
GPURation ==
    /\ available => failures * GPUReprobe <= now
    /\ ~available => /\ failures * GPUReprobe <= nextProbe
                     /\ nextProbe <= now + GPUReprobe

Rationed == GPURation /\ \A m \in Mounts : RationOf(m)

(* A pause is excused to its end, and so is every mount the loop left out.  *)
PauseExcused(m) ==
    hung[m] # NotHung =>
        /\ hung[m] <= now + DiskReprobe
        /\ \/ m \in stuck
           \/ unread[m] # Never /\ hung[m] <= unread[m] + DiskReprobe

Accounted ==
    /\ \A m \in Mounts : PauseExcused(m)
    /\ at \in {"loop", "probe", "publish"} =>
          \A m \in Mounts \ disks : m < next => Excused(m, began)
    /\ at = "publish" => next = MountCount + 1
    /\ at \in {"idle", "reads", "table", "mounts"} => next = 1

(* The baseline is of the walk lastWalk names: it was read after that began. *)
BaselineOfLastWalk ==
    baseline # NoReading =>
        /\ lastWalk # Never
        /\ baseline.read # Blank => baseline.read >= lastWalk

(* A step of each kind, by name: the cases of the proofs below. *)
LEMMA StepCases ==
    ASSUME [SamplingNext]_vars
    PROVE  \/ TimePasses
           \/ \E m \in Mounts : MountHangs(m)
           \/ \E m \in Mounts : MountRecovers(m)
           \/ KernelBlocks \/ KernelReturns
           \/ SampleBegins \/ RankingsCached \/ WalkBegins
           \/ WalkFails \/ Walk
           \/ ListingFails \/ DisksBegin \/ MountSkipped \/ ProbeStarts
           \/ ProbeAnswers \/ ProbeTimesOut
           \/ GPUSkipped \/ GPUAnswers \/ GPUFails \/ Publishes
           \/ UNCHANGED vars
  BY DEF SamplingNext, SampleStep

(* The Run goroutine steps only while no call of its own blocks. *)
LEMMA StepsUnblocked ==
    ASSUME SamplingTypeOK,
           \/ SampleBegins \/ RankingsCached \/ WalkBegins \/ WalkFails \/ Walk
           \/ ListingFails \/ DisksBegin \/ MountSkipped \/ ProbeStarts
           \/ ProbeAnswers \/ ProbeTimesOut
           \/ GPUSkipped \/ GPUAnswers \/ GPUFails \/ Publishes
    PROVE  ~hangs /\ ~hangs' /\ stuck' = stuck
<1> USE DEF worldVars
<1>1. CASE SampleBegins \/ Publishes
  <2>1. at \in {"idle", "publish"} /\ hangs' = hangs /\ stuck' = stuck
    BY <1>1 DEF SampleBegins, Publishes
  <2>2. ~Calling
    BY <2>1 DEF Calling, MayQuery, DisksDone
  <2> QED  BY <2>1, <2>2 DEF SamplingTypeOK
<1>2. CASE RankingsCached \/ WalkBegins \/ ListingFails \/ DisksBegin
  BY <1>2 DEF RankingsCached, WalkBegins, ListingFails, DisksBegin
<1>3. CASE WalkFails \/ Walk
  BY <1>3 DEF WalkFails, Walk, WalkEnds
<1>4. CASE MountSkipped \/ ProbeStarts \/ ProbeAnswers \/ ProbeTimesOut
  <2>1. /\ at = "probe" \/ (at = "loop" /\ next \in Mounts)
        /\ hangs' = hangs /\ stuck' = stuck
    BY <1>4 DEF MountSkipped, ProbeStarts, ProbeAnswers, ProbeTimesOut
  <2>2. ~Calling
    BY <2>1 DEF Calling, MayQuery, DisksDone
  <2> QED  BY <2>1, <2>2 DEF SamplingTypeOK
<1>5. CASE GPUAnswers \/ GPUFails
  BY <1>5 DEF GPUAnswers, GPUFails
<1>6. CASE GPUSkipped
  <2>1. at = "loop" /\ ~(available \/ now >= nextProbe) /\ hangs' = hangs /\ stuck' = stuck
    BY <1>6 DEF GPUSkipped, DisksDone, SamplingTypeOK
  <2>2. ~Calling
    BY <2>1 DEF Calling, MayQuery
  <2> QED  BY <2>1, <2>2 DEF SamplingTypeOK
<1> QED  BY <1>1, <1>2, <1>3, <1>4, <1>5, <1>6

(* What a walk that ends does to the clock and to the rest. *)
LEMMA WalkSteps ==
    ASSUME SamplingTypeOK, WalkFails \/ Walk
    PROVE  /\ now' \in Nat /\ now <= now' /\ tick' \in BOOLEAN
           /\ at = "table" /\ at' = "mounts" /\ started' = 0
           /\ UNCHANGED <<stuck, hangs, diskVars, gpuVars>>
<1>1. PICK end \in EndTimes : WalkEnds(end)
  BY DEF WalkFails, Walk
<1>2. end \in Nat /\ now <= end
  BY SamplingAssumption DEF EndTimes, SamplingTypeOK
<1>3. tick' \in BOOLEAN
  <2>1. tick' = (tick \/ end > now) /\ tick \in BOOLEAN
    BY <1>1 DEF WalkEnds, SamplingTypeOK
  <2> QED  BY <2>1
<1> QED  BY <1>1, <1>2, <1>3 DEF WalkEnds, worldVars

-----------------------------------------------------------------------------
LEMMA TypeInit ==
    ASSUME SamplingInit
    PROVE  SamplingTypeOK
<1>1. /\ now \in Nat /\ tick \in BOOLEAN /\ at = "idle" /\ began \in 0 .. now
      /\ next \in 1 .. MountCount + 1
  BY SamplingAssumption DEF SamplingInit
<1>2. /\ stuck \subseteq Mounts /\ disks \subseteq Mounts
      /\ unread \in [Mounts -> (0 .. now) \cup {Never}]
      /\ hung \in [Mounts -> Nat] /\ abandoned \in [Mounts -> Nat]
  BY DEF SamplingInit, NotHung
<1>3. available \in BOOLEAN
  BY Zenon DEF SamplingInit
<1>5. nextProbe \in Nat /\ failures \in Nat
  BY SamplingAssumption DEF SamplingInit
<1>4. /\ nextWalk \in Nat /\ lastWalk \in (0 .. now) \cup {Never}
      /\ started \in 0 .. now /\ baseline = NoReading
  BY <1>1 DEF SamplingInit
<1>6. share \in [within : BOOLEAN, same : BOOLEAN, known : BOOLEAN, blank : BOOLEAN]
  BY DEF SamplingInit, NoShare
<1>7. hangs \in BOOLEAN /\ ~hangs
  BY Zenon DEF SamplingInit
<1> QED  BY <1>1, <1>2, <1>3, <1>4, <1>5, <1>6, <1>7 DEF SamplingTypeOK

(* What a walk stores: no reading, or one of it. *)
Readings == [created : {Mine, Other, Unknown}, read : Int]

LEMMA WalkStores ==
    ASSUME SamplingTypeOK, Walk
    PROVE  \E end \in Nat, who \in {Mine, Other}, r \in Readings :
              /\ now <= end /\ now' = end /\ lastWalk' = started
              /\ share' = Share(who, r, end)
              /\ \/ r = NoReading /\ baseline' = NoReading
                 \/ /\ r.created \in {who, Unknown}
                    /\ r.read \in (started .. end) \cup {Blank}
                    /\ baseline' = Reading(IF r.created = Unknown THEN Unknown ELSE Mine, r.read)
              /\ nextWalk' \in {started, nextWalk}
<1>1. PICK end \in EndTimes :
         /\ WalkEnds(end)
         /\ \E who \in {Mine, Other} :
               \/ Update(who, NoReading, end)
               \/ \E created \in {who, Unknown}, t \in (started .. end) \cup {Blank} :
                     Update(who, Reading(created, t), end)
         /\ nextWalk' = IF lastWalk = Never THEN started ELSE nextWalk
  BY DEF Walk
<1>2. end \in Nat /\ now <= end /\ now' = end
  BY <1>1, SamplingAssumption DEF EndTimes, SamplingTypeOK, WalkEnds
<1>3. PICK who \in {Mine, Other} :
         \/ Update(who, NoReading, end)
         \/ \E created \in {who, Unknown}, t \in (started .. end) \cup {Blank} :
               Update(who, Reading(created, t), end)
  BY <1>1
<1>4. CASE Update(who, NoReading, end)
  <2>1. Renamed(NoReading) = NoReading /\ NoReading \in Readings
    BY DEF Renamed, NoReading, Reading, Readings
  <2> QED  BY <1>1, <1>2, <1>4, <2>1 DEF Update
<1>5. CASE \E created \in {who, Unknown}, t \in (started .. end) \cup {Blank} :
              Update(who, Reading(created, t), end)
  <2>1. PICK created \in {who, Unknown}, t \in (started .. end) \cup {Blank} :
           Update(who, Reading(created, t), end)
    BY <1>5
  <2> DEFINE r == Reading(created, t)
  <2>2. /\ r.created = created /\ r.read = t
        /\ Renamed(r) = Reading(IF created = Unknown THEN Unknown ELSE Mine, t)
    BY DEF Renamed, Reading
  <2>3. share' = Share(who, r, end) /\ baseline' = Renamed(r) /\ lastWalk' = started
    BY <2>1 DEF Update
  <2>4. r \in Readings
    BY <1>2 DEF Reading, Readings, SamplingTypeOK, Blank
  <2> HIDE DEF r
  <2> QED  BY <1>1, <1>2, <2>2, <2>3, <2>4
<1> QED  BY <1>3, <1>4, <1>5

LEMMA ShareType ==
    ASSUME NEW who, NEW r, NEW end
    PROVE  Share(who, r, end) \in
             [within : BOOLEAN, same : BOOLEAN, known : BOOLEAN, blank : BOOLEAN]
<1> DEFINE w == r.read - baseline.read <= end - lastWalk
           s == who = Mine
           k == r.created # Unknown
           b == baseline.read = Blank
<1>1. w \in BOOLEAN /\ s \in BOOLEAN /\ k \in BOOLEAN /\ b \in BOOLEAN
  OBVIOUS
<1>2. Share(who, r, end) \in
        {[within |-> w, same |-> s, known |-> k, blank |-> b], NoShare}
  BY Zenon DEF Share
<1>3. NoShare \in [within : BOOLEAN, same : BOOLEAN, known : BOOLEAN, blank : BOOLEAN]
  BY DEF NoShare
<1> HIDE DEF w, s, k, b
<1> QED  BY <1>1, <1>2, <1>3

(* Types are kept by every step: one step each. *)
LEMMA TypeStep ==
    ASSUME SamplingTypeOK, [SamplingNext]_vars
    PROVE  SamplingTypeOK'
<1> USE SamplingAssumption
        DEF SamplingTypeOK, clockVars, diskVars, gpuVars, procVars, worldVars
<1>1. CASE TimePasses
  <2>1. /\ now' = now + 1 /\ tick' \in BOOLEAN
        /\ UNCHANGED <<at, stuck, hangs, diskVars, gpuVars, procVars>>
    BY <1>1 DEF TimePasses, Elapse
  <2>2. hangs' => Calling'
    BY <2>1 DEF Calling, MayQuery, DisksDone
  <2> QED  BY <2>1, <2>2
<1>2. ASSUME NEW m \in Mounts, MountHangs(m)
      PROVE  SamplingTypeOK'
  <2>1. hangs' => Calling'
    BY <1>2 DEF MountHangs, Calling, MayQuery, DisksDone
  <2> QED  BY <1>2, <2>1 DEF MountHangs
<1>3. ASSUME NEW m \in Mounts, MountRecovers(m)
      PROVE  SamplingTypeOK'
  <2>1. hangs' => Calling'
    BY <1>3 DEF MountRecovers, Calling, MayQuery, DisksDone
  <2> QED  BY <1>3, <2>1 DEF MountRecovers
<1>4. CASE KernelBlocks \/ KernelReturns
  <2>1. /\ UNCHANGED <<clockVars, at, stuck, diskVars, gpuVars, procVars>>
        /\ hangs' \in BOOLEAN /\ (hangs' => Calling)
    <3>1. CASE KernelBlocks    BY <3>1 DEF KernelBlocks
    <3>2. CASE KernelReturns   BY <3>2 DEF KernelReturns
    <3> QED  BY <1>4, <3>1, <3>2
  <2>2. hangs' => Calling'
    BY <2>1 DEF Calling, MayQuery, DisksDone
  <2> QED  BY <2>1, <2>2
<1>5. CASE SampleBegins
  <2>1. ~hangs' BY <1>5, StepsUnblocked
  <2> QED  BY <1>5, <2>1 DEF SampleBegins
<1>6. CASE RankingsCached
  <2>1. ~hangs' BY <1>6, StepsUnblocked
  <2> QED  BY <1>6, <2>1 DEF RankingsCached
<1>7. CASE WalkBegins
  <2>1. ~hangs' BY <1>7, StepsUnblocked
  <2> QED  BY <1>7, <2>1 DEF WalkBegins
<1>8. CASE WalkFails \/ Walk
  <2>1. /\ now' \in Nat /\ now <= now' /\ tick' \in BOOLEAN
        /\ at' = "mounts" /\ started' = 0 /\ UNCHANGED <<stuck, hangs, diskVars, gpuVars>>
    BY <1>8, WalkSteps
  <2>2. ~hangs'
    BY <1>8, StepsUnblocked
  <2>3. /\ unread' \in [Mounts -> (0 .. now') \cup {Never}] /\ began' \in 0 .. now'
        /\ started' \in 0 .. now'
    BY <2>1
  <2>4. /\ nextWalk' \in Nat /\ lastWalk' \in (0 .. now') \cup {Never}
        /\ \/ baseline' = NoReading
           \/ baseline' \in [created : {Unknown, Mine}, read : Nat \cup {Blank}]
        /\ share' \in [within : BOOLEAN, same : BOOLEAN, known : BOOLEAN, blank : BOOLEAN]
    <3>1. CASE WalkFails
      <4>1. UNCHANGED <<nextWalk, lastWalk, baseline, share>>
        BY <3>1 DEF WalkFails
      <4> QED  BY <2>1, <4>1
    <3>2. CASE Walk
      <4>1. PICK end \in Nat, who \in {Mine, Other}, r \in Readings :
               /\ now <= end /\ now' = end /\ lastWalk' = started
               /\ share' = Share(who, r, end)
               /\ \/ r = NoReading /\ baseline' = NoReading
                  \/ /\ r.created \in {who, Unknown}
                     /\ r.read \in (started .. end) \cup {Blank}
                     /\ baseline' = Reading(IF r.created = Unknown THEN Unknown ELSE Mine,
                                            r.read)
               /\ nextWalk' \in {started, nextWalk}
        BY <3>2, WalkStores
      <4>2. nextWalk' \in Nat /\ lastWalk' \in 0 .. now'
        BY <4>1
      <4>3. share' \in [within : BOOLEAN, same : BOOLEAN, known : BOOLEAN, blank : BOOLEAN]
        BY <4>1, ShareType
      <4>4. \/ baseline' = NoReading
            \/ baseline' \in [created : {Unknown, Mine}, read : Nat \cup {Blank}]
        BY <4>1 DEF Reading
      <4> QED  BY <4>2, <4>3, <4>4
    <3> QED  BY <1>8, <3>1, <3>2
  <2> QED  BY <2>1, <2>2, <2>3, <2>4
<1>9. CASE ListingFails
  <2>1. ~hangs' BY <1>9, StepsUnblocked
  <2> QED  BY <1>9, <2>1 DEF ListingFails
<1>10. CASE DisksBegin
  <2>1. ~hangs' BY <1>10, StepsUnblocked
  <2> QED  BY <1>10, <2>1 DEF DisksBegin
<1>11. CASE MountSkipped
  <2>1. ~hangs' BY <1>11, StepsUnblocked
  <2> QED  BY <1>11, <2>1 DEF MountSkipped, Mounts
<1>12. CASE ProbeStarts
  <2>1. ~hangs' BY <1>12, StepsUnblocked
  <2> QED  BY <1>12, <2>1 DEF ProbeStarts, NotHung
<1>13. CASE ProbeAnswers
  <2>1. /\ at = "probe" /\ next' = next + 1 /\ at' = "loop"
        /\ UNCHANGED <<clockVars, worldVars, began, hung, abandoned, gpuVars, procVars>>
    BY <1>13 DEF ProbeAnswers
  <2>2. next' \in 1 .. MountCount + 1 /\ next \in Mounts
    BY <2>1 DEF Mounts
  <2>3. disks' \subseteq Mounts /\ unread' \in [Mounts -> (0 .. now) \cup {Never}]
    <3>1. CASE /\ disks' = disks \cup {next}
               /\ unread' = [unread EXCEPT ![next] = Never]
      BY <2>2, <3>1
    <3>2. CASE unread' = [unread EXCEPT ![next] = now] /\ UNCHANGED disks
      <4>1. now \in 0 .. now
        OBVIOUS
      <4> QED  BY <2>2, <3>2, <4>1
    <3> QED  BY <1>13, <3>1, <3>2 DEF ProbeAnswers
  <2>4. ~hangs'
    BY <1>13, StepsUnblocked
  <2> QED  BY <2>1, <2>2, <2>3, <2>4
<1>14. CASE ProbeTimesOut
  <2>1. /\ now' = now + DiskUsageTimeout /\ tick' \in BOOLEAN
        /\ next' = next + 1 /\ at' = "loop" /\ next \in Mounts
        /\ UNCHANGED <<worldVars, began, disks, unread, gpuVars, procVars>>
    BY <1>14 DEF ProbeTimesOut, Elapse
  <2>2. now' \in Nat /\ now <= now' /\ next' \in 1 .. MountCount + 1
    BY <2>1 DEF Mounts
  <2>3. /\ unread' \in [Mounts -> (0 .. now') \cup {Never}]
        /\ began' \in 0 .. now' /\ lastWalk' \in (0 .. now') \cup {Never}
        /\ started' \in 0 .. now'
    BY <2>1, <2>2
  <2>4. /\ abandoned' = [abandoned EXCEPT ![next] = @ + 1]
        /\ hung' = [hung EXCEPT ![next] = began + DiskReprobe]
    BY <1>14 DEF ProbeTimesOut
  <2>5. hung' \in [Mounts -> Nat] /\ abandoned' \in [Mounts -> Nat]
    BY <2>1, <2>4
  <2>6. ~hangs'
    BY <1>14, StepsUnblocked
  <2> QED  BY <2>1, <2>2, <2>3, <2>5, <2>6
<1>15. CASE GPUSkipped
  <2>1. ~hangs' BY <1>15, StepsUnblocked
  <2> QED  BY <1>15, <2>1 DEF GPUSkipped
<1>16. CASE GPUAnswers
  <2>1. ~hangs' BY <1>16, StepsUnblocked
  <2> QED  BY <1>16, <2>1 DEF GPUAnswers
<1>17. CASE GPUFails
  <2>1. PICK d \in {0, GPUQueryTimeout} : Elapse(d) /\ nextProbe' = now + d + GPUReprobe
    BY <1>17 DEF GPUFails
  <2>2. /\ now' \in Nat /\ now <= now' /\ tick' \in BOOLEAN /\ nextProbe' \in Nat
    BY <2>1 DEF Elapse
  <2>3. /\ available' = FALSE /\ failures' = failures + 1 /\ at' = "publish"
        /\ UNCHANGED <<worldVars, diskVars, procVars>>
    BY <1>17 DEF GPUFails
  <2>4. /\ began' \in 0 .. now' /\ lastWalk' \in (0 .. now') \cup {Never}
        /\ unread' \in [Mounts -> (0 .. now') \cup {Never}] /\ started' \in 0 .. now'
    BY <2>2, <2>3
  <2>5. available' \in BOOLEAN
    BY <2>3, Zenon
  <2>7. failures' \in Nat
    BY <2>3
  <2>6. /\ UNCHANGED <<stuck, hangs, next, disks, hung, abandoned, nextWalk, baseline, share>>
        /\ at' = "publish"
    BY <2>3
  <2>8. ~hangs'
    BY <1>17, StepsUnblocked
  <2> QED  BY <2>2, <2>4, <2>5, <2>6, <2>7, <2>8
<1>18. CASE Publishes
  <2>1. ~hangs' BY <1>18, StepsUnblocked
  <2> QED  BY <1>18, <2>1 DEF Publishes
<1>19. CASE UNCHANGED vars
  BY <1>19 DEF vars, Calling, MayQuery, DisksDone
<1> QED  BY <1>1, <1>2, <1>3, <1>4, <1>5, <1>6, <1>7, <1>8, <1>9, <1>10,
            <1>11, <1>12, <1>13, <1>14, <1>15, <1>16, <1>17, <1>18, <1>19, StepCases

(* THEOREM: every variable of the sampler keeps its type, for any number of *)
(* mounts and any time limits (Collector.sample and what it calls).         *)
THEOREM TypeCorrect == SamplingSpec => []SamplingTypeOK
  BY TypeInit, TypeStep, PTL DEF SamplingSpec

-----------------------------------------------------------------------------
LEMMA OneMore ==
    ASSUME NEW a \in Nat, NEW pause \in Nat, NEW b \in Int, a * pause <= b
    PROVE  /\ (a + 1) * pause <= b + pause
           /\ a * pause \in Int
<1>1. (a + 1) * pause = a * pause + pause /\ a * pause \in Int
  OBVIOUS
<1> QED  BY <1>1

LEMMA StillWithin ==
    ASSUME NEW p \in Nat, NEW t \in Nat, NEW u \in Nat, NEW pause \in Nat,
           p <= t + pause, t <= u
    PROVE  p <= u + pause
  OBVIOUS

LEMMA RationInit ==
    ASSUME SamplingInit
    PROVE  Rationed
<1>1. GPURation
  BY SamplingAssumption DEF SamplingInit, GPURation
<1>2. ASSUME NEW m \in Mounts
      PROVE  RationOf(m)
  <2>1. hung[m] = NotHung /\ abandoned[m] = 0 /\ now = 0 /\ at = "idle"
    BY DEF SamplingInit
  <2>2. abandoned[m] * DiskReprobe = 0
    BY <2>1, SamplingAssumption
  <2> QED  BY <2>1, <2>2 DEF RationOf
<1> QED  BY <1>1, <1>2 DEF Rationed

(* The GPU's ration; every step but GPUAnswers and GPUFails only lets time  *)
(* pass.                                                                    *)
LEMMA GPURationStep ==
    ASSUME SamplingTypeOK, GPURation, [SamplingNext]_vars
    PROVE  GPURation'
<1> USE SamplingAssumption DEF SamplingTypeOK, GPURation
<1>1. CASE GPUFails
  <2>1. PICK d \in {0, GPUQueryTimeout} : Elapse(d) /\ nextProbe' = now + d + GPUReprobe
    BY <1>1 DEF GPUFails
  <2>2. failures * GPUReprobe <= now
    <3>1. CASE available   BY <3>1
    <3>2. CASE ~available
      <4>1. now >= nextProbe
        BY <1>1, <3>2 DEF GPUFails, MayQuery
      <4>2. failures * GPUReprobe \in Int
        OBVIOUS
      <4> QED  BY <3>2, <4>1, <4>2
    <3> QED  BY <3>1, <3>2
  <2>3. (failures + 1) * GPUReprobe <= now + GPUReprobe
    BY <2>2, OneMore
  <2>4. now' = now + d /\ d \in Nat /\ (failures + 1) * GPUReprobe \in Int
    BY <2>1 DEF Elapse
  <2>5. /\ failures' * GPUReprobe <= nextProbe'
        /\ nextProbe' <= now' + GPUReprobe
    <3>1. failures' = failures + 1
      BY <1>1 DEF GPUFails
    <3> QED  BY <2>1, <2>3, <2>4, <3>1
  <2>6. ~available'
    BY <1>1 DEF GPUFails
  <2> QED  BY <2>5, <2>6
<1>2. CASE GPUAnswers
  <2>1. failures * GPUReprobe <= now
    <3>1. CASE available   BY <3>1
    <3>2. CASE ~available
      <4>1. now >= nextProbe
        BY <1>2, <3>2 DEF GPUAnswers, MayQuery
      <4>2. failures * GPUReprobe \in Int
        OBVIOUS
      <4> QED  BY <3>2, <4>1, <4>2
    <3> QED  BY <3>1, <3>2
  <2> QED  BY <1>2, <2>1 DEF GPUAnswers, clockVars
<1>3. CASE UNCHANGED gpuVars /\ now' \in Nat /\ now <= now'
  <2>1. available' = available /\ nextProbe' = nextProbe /\ failures' = failures
    BY <1>3 DEF gpuVars
  <2>2. failures * GPUReprobe \in Int
    OBVIOUS
  <2>3. CASE available
    <3>1. failures' * GPUReprobe <= now'
      BY <1>3, <2>1, <2>2, <2>3
    <3>2. available'
      BY <2>1, <2>3
    <3> QED  BY <3>1, <3>2
  <2>4. CASE ~available
    <3>1. failures * GPUReprobe <= nextProbe
      BY <2>4, Zenon DEF GPURation
    <3>4. nextProbe <= now + GPUReprobe
      BY <2>4, Zenon DEF GPURation
    <3>5. nextProbe \in Nat /\ now \in Nat /\ GPUReprobe \in Nat
      OBVIOUS
    <3>6. now' \in Nat /\ now <= now' /\ nextProbe' = nextProbe
      BY <1>3, <2>1, Zenon
    <3>3. nextProbe' <= now' + GPUReprobe
      BY <3>4, <3>5, <3>6, StillWithin
    <3>2. ~available'
      BY <2>1, <2>4
    <3> QED  BY <2>1, <3>1, <3>2, <3>3
  <2> QED  BY <2>3, <2>4
<1>4. CASE TimePasses
  BY <1>3, <1>4 DEF TimePasses, Elapse
<1>5. CASE \E m \in Mounts : MountHangs(m) \/ MountRecovers(m)
  BY <1>3, <1>5 DEF MountHangs, MountRecovers, clockVars
<1>6. CASE WalkFails \/ Walk
  BY <1>3, <1>6, WalkSteps
<1>9. CASE KernelBlocks \/ KernelReturns \/ SampleBegins \/ RankingsCached \/ WalkBegins
  BY <1>3, <1>9
  DEF KernelBlocks, KernelReturns, SampleBegins, RankingsCached, WalkBegins, clockVars
<1>7. CASE ListingFails \/ DisksBegin \/ MountSkipped \/ ProbeStarts \/ ProbeAnswers
           \/ GPUSkipped \/ Publishes \/ UNCHANGED vars
  BY <1>3, <1>7 DEF ListingFails, DisksBegin, MountSkipped, ProbeStarts,
     ProbeAnswers, GPUSkipped, Publishes, vars, clockVars
<1>8. CASE ProbeTimesOut
  BY <1>3, <1>8 DEF ProbeTimesOut, Elapse
<1> QED  BY <1>1, <1>2, <1>4, <1>5, <1>6, <1>7, <1>8, <1>9, StepCases

(* The ration of a mount. *)
LEMMA RationStep ==
    ASSUME SamplingTypeOK, [SamplingNext]_vars,
           NEW m \in Mounts, RationOf(m)
    PROVE  RationOf(m)'
<1> USE SamplingAssumption DEF SamplingTypeOK, RationOf, worldVars
<1>t. /\ abandoned[m] \in Nat /\ hung[m] \in Nat /\ now \in Nat /\ began \in Nat
      /\ abandoned[m] * DiskReprobe \in Int /\ DiskReprobe \in Nat
      /\ m \in Nat /\ next \in Nat
  BY DEF Mounts
<1>g. abandoned[m] * DiskReprobe <= now + DiskReprobe
  BY <1>t DEF NotHung
<1>1. CASE /\ UNCHANGED <<hung, abandoned, at, next, began>>
           /\ now' \in Nat /\ now <= now'
  BY <1>t, <1>1
<1>2. CASE TimePasses
  BY <1>1, <1>2 DEF TimePasses, Elapse, diskVars
<1>3. ASSUME NEW x \in Mounts, MountHangs(x)
      PROVE  RationOf(m)'
  BY <1>1, <1>3 DEF MountHangs, clockVars
<1>4. ASSUME NEW x \in Mounts, MountRecovers(x)
      PROVE  RationOf(m)'
  <2>1. UNCHANGED <<hung, at, next, began, now>>
    BY <1>4 DEF MountRecovers, clockVars
  <2>2. CASE x = m
    <3>1. abandoned'[m] = 0
      BY <1>4, <2>2 DEF MountRecovers
    <3>2. abandoned'[m] * DiskReprobe = 0
      BY <1>t, <3>1
    <3> QED  BY <1>t, <2>1, <3>2 DEF NotHung
  <2>3. CASE x # m
    <3>1. abandoned'[m] = abandoned[m]
      BY <1>4, <2>3 DEF MountRecovers
    <3> QED  BY <1>t, <2>1, <3>1
  <2> QED  BY <2>2, <2>3
<1>5. CASE SampleBegins \/ RankingsCached \/ WalkBegins \/ WalkFails \/ Walk
  <2>1. CASE WalkFails \/ Walk
    <3>1. /\ now' \in Nat /\ now <= now' /\ at' = "mounts"
          /\ UNCHANGED <<hung, abandoned>>
      BY <2>1, WalkSteps DEF diskVars
    <3> QED  BY <1>t, <3>1
  <2>2. CASE SampleBegins \/ RankingsCached \/ WalkBegins
    <3>1. /\ now' = now /\ at' \in {"reads", "table", "mounts"}
          /\ UNCHANGED <<hung, abandoned>>
      BY <2>2 DEF SampleBegins, RankingsCached, WalkBegins, clockVars, diskVars
    <3> QED  BY <1>t, <3>1
  <2> QED  BY <1>5, <2>1, <2>2
<1>14. CASE KernelBlocks \/ KernelReturns
  BY <1>1, <1>14 DEF KernelBlocks, KernelReturns, clockVars, diskVars
<1>6. CASE ListingFails \/ DisksBegin
  <2>1. /\ now' = now /\ began' = now /\ at' = "loop"
        /\ UNCHANGED <<hung, abandoned>>
    BY <1>6 DEF ListingFails, DisksBegin, clockVars
  <2>2. CASE hung[m] = NotHung
    BY <1>t, <2>1, <2>2
  <2>3. CASE hung[m] # NotHung
    BY <1>t, <2>1, <2>3
  <2> QED  BY <2>2, <2>3
<1>7. CASE MountSkipped
  <2>1. /\ UNCHANGED <<hung, abandoned, at, began, now>> /\ next' = next + 1
    BY <1>7 DEF MountSkipped, clockVars
  <2>2. at = "loop" /\ next \in Mounts
    BY <1>7 DEF MountSkipped
  <2>3. CASE hung[m] = NotHung
    BY <1>t, <2>1, <2>2, <2>3
  <2>4. CASE hung[m] # NotHung
    BY <1>t, <2>1, <2>2, <2>4
  <2> QED  BY <2>3, <2>4
<1>8. CASE ProbeStarts
  <2>1. /\ UNCHANGED <<abandoned, began, now, next>>
        /\ at = "loop" /\ at' = "probe" /\ next \in Mounts /\ ~Skipped(next)
        /\ hung' = [hung EXCEPT ![next] = NotHung]
    BY <1>8 DEF ProbeStarts, clockVars
  <2>2. CASE m = next
    <3>1. abandoned[m] * DiskReprobe <= began
      <4>1. CASE hung[m] = NotHung
        BY <1>t, <2>1, <2>2, <4>1
      <4>2. CASE hung[m] # NotHung
        BY <1>t, <2>1, <2>2, <4>2 DEF Skipped
      <4> QED  BY <4>1, <4>2
    <3>2. hung'[m] = NotHung /\ began <= now
      BY <2>1, <2>2
    <3> QED  BY <1>t, <2>1, <3>1, <3>2
  <2>3. CASE m # next
    <3>1. hung'[m] = hung[m]
      BY <2>1, <2>3
    <3> QED  BY <1>t, <2>1, <3>1
  <2> QED  BY <2>2, <2>3
<1>9. CASE ProbeAnswers
  <2>1. /\ UNCHANGED <<hung, abandoned, began, now>>
        /\ at = "probe" /\ at' = "loop" /\ next' = next + 1
    BY <1>9 DEF ProbeAnswers, clockVars
  <2> QED  BY <1>t, <2>1
<1>10. CASE ProbeTimesOut
  <2>1. /\ now' = now + DiskUsageTimeout /\ began' = began
        /\ at = "probe" /\ at' = "loop" /\ next' = next + 1
        /\ abandoned' = [abandoned EXCEPT ![next] = @ + 1]
        /\ hung' = [hung EXCEPT ![next] = began + DiskReprobe]
    BY <1>10 DEF ProbeTimesOut, Elapse
  <2>2. CASE m = next
    <3>1. abandoned'[m] = abandoned[m] + 1 /\ hung'[m] = began + DiskReprobe
      BY <2>1, <2>2
    <3>2. abandoned[m] * DiskReprobe <= began
      BY <1>t, <2>1, <2>2
    <3>3. (abandoned[m] + 1) * DiskReprobe <= began + DiskReprobe
      BY <1>t, <3>2, OneMore
    <3>4. /\ hung'[m] # NotHung
          /\ hung'[m] <= now' + DiskReprobe
      BY <1>t, <2>1, <3>1 DEF NotHung
    <3>5. next' # m /\ at' = "loop"
      BY <1>t, <2>1, <2>2
    <3> QED  BY <3>1, <3>3, <3>4, <3>5
  <2>3. CASE m # next
    <3>1. abandoned'[m] = abandoned[m] /\ hung'[m] = hung[m]
      BY <2>1, <2>3
    <3> QED  BY <1>t, <2>1, <3>1
  <2> QED  BY <2>2, <2>3
<1>11. CASE GPUSkipped \/ GPUAnswers \/ GPUFails
  <2>1. now' \in Nat /\ now <= now'
    BY <1>11 DEF GPUSkipped, GPUAnswers, GPUFails, Elapse, clockVars
  <2>2. at' = "publish" /\ UNCHANGED <<hung, abandoned>>
    BY <1>11 DEF GPUSkipped, GPUAnswers, GPUFails, diskVars
  <2> QED  BY <1>t, <2>1, <2>2
<1>12. CASE Publishes
  BY <1>t, <1>12 DEF Publishes, clockVars
<1>13. CASE UNCHANGED vars
  BY <1>1, <1>13 DEF vars, clockVars, diskVars
<1> QED  BY <1>2, <1>3, <1>4, <1>5, <1>6, <1>7, <1>8, <1>9, <1>10, <1>11,
            <1>12, <1>13, <1>14, StepCases

(* THEOREM: probes are rationed by time, however many samples are taken:    *)
(* one goroutine left behind per hung mount and pause, one failed query of  *)
(* the GPU per pause (diskUsages, usage, gpuPoller).                        *)
THEOREM ProbesRationed == SamplingSpec => []ProbesAreRationed
<1>1. SamplingTypeOK /\ Rationed /\ [SamplingNext]_vars => Rationed'
  BY GPURationStep, RationStep DEF Rationed
<1>2. SamplingTypeOK /\ Rationed => ProbesAreRationed
  <2> SUFFICES ASSUME SamplingTypeOK, Rationed
               PROVE  ProbesAreRationed
    OBVIOUS
  <2>1. ASSUME NEW m \in Mounts
        PROVE  abandoned[m] * DiskReprobe <= now + DiskReprobe
    <3>1. RationOf(m) /\ abandoned[m] * DiskReprobe \in Int
      BY SamplingAssumption DEF Rationed, SamplingTypeOK
    <3> QED  BY <3>1, SamplingAssumption DEF RationOf, SamplingTypeOK
  <2>2. failures * GPUReprobe <= now + GPUReprobe
    <3>1. failures * GPUReprobe \in Int /\ GPURation
      BY SamplingAssumption DEF Rationed, SamplingTypeOK
    <3>2. CASE available
      BY <3>1, <3>2, SamplingAssumption DEF GPURation, SamplingTypeOK
    <3>3. CASE ~available
      BY <3>1, <3>3, SamplingAssumption DEF GPURation, SamplingTypeOK
    <3> QED  BY <3>2, <3>3
  <2> QED  BY <2>1, <2>2 DEF ProbesAreRationed
<1> QED  BY <1>1, <1>2, RationInit, TypeCorrect, PTL DEF SamplingSpec

-----------------------------------------------------------------------------
(* A pause keeps its excuse. *)
LEMMA PauseStep ==
    ASSUME SamplingTypeOK, [SamplingNext]_vars,
           NEW m \in Mounts, PauseExcused(m), RationOf(m)
    PROVE  PauseExcused(m)'
<1> USE SamplingAssumption DEF SamplingTypeOK, PauseExcused, worldVars
<1>t. /\ hung[m] \in Nat /\ now \in Nat /\ began \in Nat /\ began <= now
      /\ DiskReprobe \in Nat /\ unread[m] \in Nat \cup {Never}
  OBVIOUS
<1>1. CASE /\ UNCHANGED <<hung, stuck, unread>>
           /\ now' \in Nat /\ now <= now'
  BY <1>t, <1>1
<1>2. CASE TimePasses
  BY <1>1, <1>2 DEF TimePasses, Elapse, diskVars
<1>3. ASSUME NEW x \in Mounts, MountHangs(x)
      PROVE  PauseExcused(m)'
  <2>1. UNCHANGED <<hung, now>> /\ stuck' = stuck \cup {x}
        /\ unread' = [unread EXCEPT ![x] = Never]
    BY <1>3 DEF MountHangs, clockVars
  <2>2. CASE x = m
    BY <1>t, <2>1, <2>2
  <2>3. CASE x # m
    <3>1. unread'[m] = unread[m] /\ hung'[m] = hung[m]
      BY <2>1, <2>3
    <3> QED  BY <1>t, <2>1, <3>1
  <2> QED  BY <2>2, <2>3
<1>4. ASSUME NEW x \in Mounts, MountRecovers(x)
      PROVE  PauseExcused(m)'
  <2>1. UNCHANGED <<hung, now>> /\ stuck' = stuck \ {x}
        /\ unread' = [unread EXCEPT ![x] = now]
    BY <1>4 DEF MountRecovers, clockVars
  <2>2. CASE x = m
    <3>1. unread'[m] = now /\ now # Never
      BY <1>t, <2>1, <2>2 DEF Never
    <3> QED  BY <1>t, <2>1, <3>1
  <2>3. CASE x # m
    <3>1. unread'[m] = unread[m] /\ (m \in stuck' <=> m \in stuck)
      BY <2>1, <2>3
    <3> QED  BY <1>t, <2>1, <3>1
  <2> QED  BY <2>2, <2>3
<1>5. CASE WalkFails \/ Walk
  BY <1>1, <1>5, WalkSteps DEF diskVars
<1>13. CASE KernelBlocks \/ KernelReturns \/ SampleBegins \/ RankingsCached \/ WalkBegins
  BY <1>1, <1>13
  DEF KernelBlocks, KernelReturns, SampleBegins, RankingsCached, WalkBegins,
      clockVars, diskVars, worldVars
<1>6. CASE ListingFails
  <2>1. UNCHANGED <<hung, stuck, now>> /\ unread'[m] = now /\ now # Never
    BY <1>6 DEF ListingFails, clockVars, Never
  <2> QED  BY <1>t, <2>1
<1>7. CASE DisksBegin \/ MountSkipped \/ GPUSkipped \/ GPUAnswers \/ Publishes
  BY <1>1, <1>7
  DEF DisksBegin, MountSkipped, GPUSkipped, GPUAnswers, Publishes, clockVars,
      diskVars, worldVars
<1>8. CASE ProbeStarts
  <2>1. /\ UNCHANGED <<stuck, unread, now>>
        /\ hung'[m] = IF m = next THEN NotHung ELSE hung[m]
    BY <1>8 DEF ProbeStarts, clockVars
  <2> QED  BY <1>t, <2>1
<1>9. CASE GPUFails
  <2>1. now' \in Nat /\ now <= now'
    BY <1>9 DEF GPUFails, Elapse
  <2> QED  BY <1>1, <1>9, <2>1 DEF GPUFails, diskVars
<1>10. CASE ProbeAnswers
  <2>1. /\ UNCHANGED <<stuck, hung, now>> /\ at = "probe"
        /\ m # next => unread'[m] = unread[m]
    BY <1>10 DEF ProbeAnswers, clockVars
  <2>2. m = next => hung[m] = NotHung
    BY <2>1 DEF RationOf
  <2> QED  BY <1>t, <2>1, <2>2
<1>11. CASE ProbeTimesOut
  <2>1. /\ UNCHANGED <<stuck, unread>> /\ next \in stuck
        /\ now' = now + DiskUsageTimeout
        /\ hung'[m] = IF m = next THEN began + DiskReprobe ELSE hung[m]
    BY <1>11 DEF ProbeTimesOut, Elapse
  <2> QED  BY <1>t, <2>1
<1>12. CASE UNCHANGED vars
  BY <1>1, <1>12 DEF vars, clockVars, diskVars
<1> QED  BY <1>2, <1>3, <1>4, <1>5, <1>6, <1>7, <1>8, <1>9, <1>10, <1>11,
            <1>12, <1>13, StepCases

(* The disks left out of a sample have an excuse when it is published. *)
LEMMA AccountedStep ==
    ASSUME SamplingTypeOK, Rationed, Accounted, [SamplingNext]_vars
    PROVE  Accounted'
<1> USE SamplingAssumption DEF SamplingTypeOK, worldVars
<1>p. (\A m \in Mounts : PauseExcused(m))'
  BY PauseStep DEF Accounted, Rationed
<1>t. /\ began \in Nat /\ now \in Nat /\ began <= now /\ next \in Nat
      /\ DiskReprobe \in Nat \ {0} /\ Mounts \subseteq Nat
  BY DEF Mounts
<1>1. CASE UNCHANGED <<at, stuck, unread, began, next, disks>>
  BY <1>p, <1>1 DEF Accounted, Excused
<1>2. CASE at' \in {"idle", "reads", "table", "mounts"} /\ next' = 1
  BY <1>p, <1>2 DEF Accounted
<1>3. CASE TimePasses
  BY <1>1, <1>3 DEF TimePasses, diskVars
<1>4. ASSUME NEW x \in Mounts, MountHangs(x)
      PROVE  Accounted'
  <2>1. /\ UNCHANGED <<at, began, next, disks>> /\ stuck' = stuck \cup {x}
        /\ unread' = [unread EXCEPT ![x] = Never]
    BY <1>4 DEF MountHangs
  <2>2. ASSUME NEW m \in Mounts, Excused(m, began)
        PROVE  Excused(m, began)'
    BY <2>1, <2>2 DEF Excused
  <2> QED  BY <1>p, <2>1, <2>2 DEF Accounted
<1>5. ASSUME NEW x \in Mounts, MountRecovers(x)
      PROVE  Accounted'
  <2>1. /\ UNCHANGED <<at, began, next, disks>> /\ stuck' = stuck \ {x}
        /\ unread' = [unread EXCEPT ![x] = now]
    BY <1>5 DEF MountRecovers
  <2>2. ASSUME NEW m \in Mounts, Excused(m, began)
        PROVE  Excused(m, began)'
    BY <1>t, <2>1, <2>2 DEF Excused, Never
  <2> QED  BY <1>p, <2>1, <2>2 DEF Accounted
<1>6. CASE SampleBegins \/ RankingsCached \/ WalkBegins \/ WalkFails \/ Walk
  <2>1. /\ at \in {"idle", "reads", "table"} /\ at' \in {"reads", "table", "mounts"}
        /\ next' = next
    <3>1. CASE WalkFails \/ Walk
      BY <3>1, WalkSteps DEF diskVars
    <3>2. CASE SampleBegins \/ RankingsCached \/ WalkBegins
      BY <3>2 DEF SampleBegins, RankingsCached, WalkBegins, diskVars
    <3> QED  BY <1>6, <3>1, <3>2
  <2> QED  BY <1>2, <2>1 DEF Accounted
<1>16. CASE KernelBlocks \/ KernelReturns
  BY <1>1, <1>16 DEF KernelBlocks, KernelReturns, diskVars
<1>7. CASE ListingFails
  <2>1. /\ began' = now /\ at' = "loop" /\ \A m \in Mounts : unread'[m] = now
    BY <1>7 DEF ListingFails
  <2>2. ASSUME NEW m \in Mounts
        PROVE  Excused(m, began)'
    BY <1>t, <2>1 DEF Excused, Never
  <2> QED  BY <1>p, <2>1, <2>2 DEF Accounted
<1>8. CASE DisksBegin
  <2>1. at' = "loop" /\ next' = 1
    BY <1>8 DEF DisksBegin, Accounted
  <2>2. \A m \in Mounts : ~(m < next')
    BY <1>t, <2>1 DEF Mounts
  <2> QED  BY <1>p, <2>1, <2>2 DEF Accounted
<1>9. CASE MountSkipped
  <2>1. /\ UNCHANGED <<at, began, disks, stuck, unread>> /\ at = "loop"
        /\ next' = next + 1 /\ next \in Mounts
    BY <1>9 DEF MountSkipped
  <2>2. Excused(next, began)
    <3>1. hung[next] # NotHung /\ began < hung[next] /\ PauseExcused(next)
      BY <1>9, <2>1 DEF MountSkipped, Skipped, Accounted
    <3>2. hung[next] \in Nat /\ unread[next] \in Nat \cup {Never}
      BY <2>1
    <3> QED  BY <1>t, <3>1, <3>2 DEF PauseExcused, Excused
  <2>3. ASSUME NEW m \in Mounts \ disks, m < next'
        PROVE  Excused(m, began)'
    <3>1. m < next \/ m = next
      BY <1>t, <2>1, <2>3
    <3>2. Excused(m, began)
      BY <2>1, <2>2, <3>1 DEF Accounted
    <3> QED  BY <2>1, <3>2 DEF Excused
  <2> QED  BY <1>p, <2>1, <2>3 DEF Accounted
<1>10. CASE ProbeStarts
  <2>1. /\ UNCHANGED <<began, next, disks, stuck, unread>>
        /\ at = "loop" /\ at' = "probe"
    BY <1>10 DEF ProbeStarts
  <2> QED  BY <1>p, <2>1 DEF Accounted, Excused
<1>11. CASE ProbeAnswers
  <2>1. /\ UNCHANGED <<began, stuck>> /\ at = "probe" /\ at' = "loop"
        /\ next' = next + 1 /\ next \in Mounts /\ disks \subseteq disks'
        /\ \A m \in Mounts : m # next => unread'[m] = unread[m]
        /\ next \in disks' \/ unread'[next] = now
    BY <1>11 DEF ProbeAnswers
  <2>2. ASSUME NEW m \in Mounts \ disks', m < next'
        PROVE  Excused(m, began)'
    <3>1. CASE m = next
      BY <1>t, <2>1, <2>2, <3>1 DEF Excused, Never
    <3>2. CASE m # next
      <4>1. m < next
        BY <1>t, <2>1, <2>2, <3>2
      <4>2. Excused(m, began)
        BY <2>1, <2>2, <4>1 DEF Accounted
      <4> QED  BY <2>1, <3>2, <4>2 DEF Excused
    <3> QED  BY <3>1, <3>2
  <2> QED  BY <1>p, <2>1, <2>2 DEF Accounted
<1>12. CASE ProbeTimesOut
  <2>1. /\ UNCHANGED <<began, disks, stuck, unread>> /\ at = "probe" /\ at' = "loop"
        /\ next' = next + 1 /\ next \in stuck
    BY <1>12 DEF ProbeTimesOut
  <2>2. ASSUME NEW m \in Mounts \ disks, m < next'
        PROVE  Excused(m, began)'
    <3>1. m < next \/ m = next
      BY <1>t, <2>1, <2>2
    <3>2. m < next => Excused(m, began)
      BY <2>1 DEF Accounted
    <3> QED  BY <2>1, <3>1, <3>2 DEF Excused
  <2> QED  BY <1>p, <2>1, <2>2 DEF Accounted
<1>13. CASE GPUSkipped \/ GPUAnswers \/ GPUFails
  <2>1. /\ UNCHANGED <<began, next, disks, stuck, unread>> /\ at' = "publish"
        /\ at = "loop" /\ next \notin Mounts
    BY <1>13 DEF GPUSkipped, GPUAnswers, GPUFails, MayQuery, DisksDone, diskVars
  <2>2. next = MountCount + 1
    BY <2>1 DEF Mounts
  <2> QED  BY <1>p, <2>1, <2>2 DEF Accounted, Excused
<1>14. CASE Publishes
  BY <1>2, <1>14 DEF Publishes
<1>15. CASE UNCHANGED vars
  BY <1>1, <1>15 DEF vars, diskVars
<1> QED  BY <1>3, <1>4, <1>5, <1>6, <1>7, <1>8, <1>9, <1>10, <1>11, <1>12,
            <1>13, <1>14, <1>15, <1>16, StepCases

(* THEOREM: a disk is missing from a finished sample only while it hangs,   *)
(* or within one pause of the time it last could not be read (diskUsages).  *)
THEOREM MissingIsExcused == SamplingSpec => []MissingForAReason
<1>1. SamplingInit => Accounted
  <2> SUFFICES ASSUME SamplingInit
               PROVE  Accounted
    OBVIOUS
  <2>1. (\A m \in Mounts : hung[m] = NotHung) /\ at = "idle" /\ next = 1
    BY DEF SamplingInit
  <2> QED  BY <2>1 DEF Accounted, PauseExcused
<1>2. SamplingTypeOK /\ Rationed /\ [SamplingNext]_vars => Rationed'
  BY GPURationStep, RationStep DEF Rationed
<1>3. SamplingTypeOK /\ Rationed /\ Accounted /\ [SamplingNext]_vars => Accounted'
  BY AccountedStep
<1>4. Accounted => MissingForAReason
  <2> SUFFICES ASSUME Accounted, at = "publish", NEW m \in Mounts \ disks
               PROVE  Excused(m, began)
    BY DEF MissingForAReason, Excused
  <2>1. m < next
    BY SamplingAssumption DEF Accounted, Mounts
  <2> QED  BY <2>1 DEF Accounted
<1> QED  BY <1>1, <1>2, <1>3, <1>4, RationInit, TypeCorrect, PTL DEF SamplingSpec

-----------------------------------------------------------------------------
(* THEOREM: what a CPU share counts was used within the interval it is of,  *)
(* unless its baseline is blank; and it is of one process, unless neither   *)
(* reading got a creation time; for any interval, any time limit and any    *)
(* block of the walk (sampleProcesses, readProcess, processSampler.update). *)
THEOREM SharesAreOfOneInterval == SamplingSpec => []SharesSpanOneInterval
<1>1. SamplingInit => BaselineOfLastWalk /\ SharesSpanOneInterval
  BY DEF SamplingInit, BaselineOfLastWalk, SharesSpanOneInterval
<1>2. ASSUME SamplingTypeOK, BaselineOfLastWalk, SharesSpanOneInterval,
             [SamplingNext]_vars
      PROVE  BaselineOfLastWalk' /\ SharesSpanOneInterval'
  <2>1. CASE Walk
    <3>1. PICK end \in Nat, who \in {Mine, Other}, r \in Readings :
             /\ now <= end /\ now' = end /\ lastWalk' = started
             /\ share' = Share(who, r, end)
             /\ \/ r = NoReading /\ baseline' = NoReading
                \/ /\ r.created \in {who, Unknown}
                   /\ r.read \in (started .. end) \cup {Blank}
                   /\ baseline' = Reading(IF r.created = Unknown THEN Unknown ELSE Mine,
                                          r.read)
             /\ nextWalk' \in {started, nextWalk}
      BY <1>2, <2>1, WalkStores
    <3>2. started \in Nat
      BY <1>2 DEF SamplingTypeOK
    <3>3. BaselineOfLastWalk'
      <4> SUFFICES ASSUME baseline' # NoReading
                   PROVE  /\ lastWalk' # Never
                          /\ baseline'.read # Blank => baseline'.read >= lastWalk'
        BY DEF BaselineOfLastWalk
      <4>1. baseline'.read \in (started .. end) \cup {Blank}
        BY <3>1 DEF Reading
      <4> QED  BY <3>1, <3>2, <4>1 DEF Never
    <3>4. SharesSpanOneInterval'
      <4> SUFFICES ASSUME share' # NoShare
                   PROVE  /\ ~share'.blank => share'.within
                          /\ share'.known => share'.same
        BY DEF SharesSpanOneInterval
      <4>1. /\ lastWalk # Never /\ baseline # NoReading /\ r # NoReading
            /\ baseline.created = r.created /\ r.read > baseline.read
            /\ share' = [within |-> r.read - baseline.read <= end - lastWalk,
                         same |-> who = Mine, known |-> r.created # Unknown,
                         blank |-> baseline.read = Blank]
        BY <3>1 DEF Share
      <4>2. /\ r.created \in {who, Unknown} /\ r.read \in (started .. end) \cup {Blank}
            /\ baseline.created \in {Unknown, Mine} /\ baseline.read \in Nat \cup {Blank}
            /\ lastWalk \in Nat
        BY <1>2, <3>1, <4>1 DEF SamplingTypeOK
      <4>3. ASSUME baseline.read # Blank
            PROVE  r.read - baseline.read <= end - lastWalk
        <5>1. baseline.read \in Nat /\ baseline.read >= lastWalk
          BY <1>2, <4>1, <4>2, <4>3 DEF BaselineOfLastWalk
        <5>2. r.read \in started .. end
          BY <4>1, <4>2, <5>1 DEF Blank
        <5> QED  BY <3>2, <4>2, <5>1, <5>2
      <4>4. ASSUME r.created # Unknown
            PROVE  who = Mine
        BY <4>1, <4>2, <4>4
      <4> QED  BY <4>1, <4>3, <4>4
    <3> QED  BY <3>3, <3>4
  <2>2. CASE UNCHANGED <<lastWalk, baseline, share>>
    BY <1>2, <2>2 DEF BaselineOfLastWalk, SharesSpanOneInterval
  <2>3. CASE ~Walk
    <3>1. UNCHANGED <<lastWalk, baseline, share>>
      BY <1>2, <2>3, StepCases
      DEF TimePasses, KernelBlocks, KernelReturns, MountHangs, MountRecovers,
          SampleBegins, RankingsCached, WalkBegins, WalkFails, ListingFails, DisksBegin,
          MountSkipped, ProbeStarts, ProbeAnswers, ProbeTimesOut, GPUSkipped,
          GPUAnswers, GPUFails, Publishes, vars, procVars
    <3> QED  BY <2>2, <3>1
  <2> QED  BY <2>1, <2>3
<1> QED  BY <1>1, <1>2, TypeCorrect, PTL DEF SamplingSpec

-----------------------------------------------------------------------------
(***************************************************************************)
(* The walk on demand, for any tree, workers, requests and limits: what it *)
(* answers and caches says what it lacks.  First what is counted and how   *)
(* the children are ranked, then the invariant of one walk, step by step,  *)
(* then the cache.                                                         *)
(***************************************************************************)

(* Files among the first n entries below a child. *)
Files(below, n) == {i \in 1 .. n : below[i] = "file"}

(* One entry further, one more file if it is one. *)
LEMMA FilesUpTo ==
    ASSUME NEW below, NEW n \in Nat
    PROVE  /\ Cardinality(Files(below, n)) \in Nat
           /\ Cardinality(Files(below, n + 1)) =
                IF below[n + 1] = "file" THEN Cardinality(Files(below, n)) + 1
                                         ELSE Cardinality(Files(below, n))
<1>1. IsFiniteSet(1 .. n)
  BY FS_Interval
<1>2. Files(below, n) \in SUBSET (1 .. n)
  BY DEF Files
<1>3. IsFiniteSet(Files(below, n)) /\ Cardinality(Files(below, n)) \in Nat
  BY <1>1, <1>2, FS_Subset, FS_CardinalityType
<1>4. CASE below[n + 1] = "file"
  <2>1. Files(below, n + 1) = Files(below, n) \cup {n + 1}
    BY <1>4 DEF Files
  <2>2. n + 1 \notin Files(below, n)
    BY DEF Files
  <2> QED  BY <1>3, <1>4, <2>1, <2>2, FS_AddElement
<1>5. CASE below[n + 1] # "file"
  <2>1. Files(below, n + 1) = Files(below, n)
    BY <1>5 DEF Files
  <2> QED  BY <1>3, <1>5, <2>1
<1> QED  BY <1>3, <1>4, <1>5

(* A child is before another, after it, or the same, and never both. *)
LEMMA Ranks ==
    ASSUME NEW result \in Seq(Items)
    PROVE  /\ IsFiniteSet(Listed(result)) /\ Cardinality(Listed(result)) \in Nat
           /\ \A c \in Listed(result) :
                /\ Rank(result, c) \in 0 .. Cardinality(Listed(result)) - 1
                /\ \A d \in Listed(result) : Before(result, c, d) =>
                     Rank(result, c) < Rank(result, d)
           /\ \A c, d \in Listed(result) :
                c = d \/ Before(result, c, d) \/ Before(result, d, c)
<1> DEFINE L == Listed(result)
           P(c) == {e \in L : Before(result, e, c)}
<1>1. L \subseteq 1 .. Len(result) /\ Len(result) \in Nat
  BY DEF Listed
<1>2. IsFiniteSet(L)
  <2>1. IsFiniteSet(1 .. Len(result)) /\ L \in SUBSET (1 .. Len(result))
    BY <1>1, FS_Interval
  <2> QED  BY <2>1, FS_Subset
<1>3. Cardinality(L) \in Nat
  BY <1>2, FS_CardinalityType
<1>4. \A c \in L : c \in Nat /\ result[c].size \in Nat
  <2>1. \A c \in 1 .. Len(result) : result[c] \in Items
    OBVIOUS
  <2> QED  BY <1>1, <2>1 DEF Items
<1>5. ASSUME NEW c \in L
      PROVE  /\ IsFiniteSet(P(c)) /\ Cardinality(P(c)) \in Nat
             /\ P(c) \in SUBSET L /\ P(c) # L /\ Rank(result, c) = Cardinality(P(c))
  <2>1. P(c) \in SUBSET L
    OBVIOUS
  <2>2. c \notin P(c)
    BY <1>4 DEF Before
  <2> QED  BY <1>2, <2>1, <2>2, FS_Subset, FS_CardinalityType DEF Rank
<1>6. ASSUME NEW c \in L, NEW d \in L, Before(result, c, d)
      PROVE  P(c) \in SUBSET P(d) /\ P(c) # P(d)
  <2>1. ASSUME NEW e \in L, Before(result, e, c)
        PROVE  Before(result, e, d)
    BY <1>4, <1>6, <2>1 DEF Before
  <2>2. c \notin P(c) /\ c \in P(d)
    BY <1>4, <1>6 DEF Before
  <2> QED  BY <2>1, <2>2
<1>7. ASSUME NEW S, IsFiniteSet(S), NEW T \in SUBSET S, T # S
      PROVE  Cardinality(T) < Cardinality(S)
  <2>1. /\ Cardinality(T) <= Cardinality(S)
        /\ Cardinality(S) = Cardinality(T) => S = T
        /\ Cardinality(S) \in Nat /\ Cardinality(T) \in Nat
    BY <1>7, FS_Subset, FS_CardinalityType
  <2> QED  BY <1>7, <2>1
<1>8. \A c, d \in L : c = d \/ Before(result, c, d) \/ Before(result, d, c)
  BY <1>4 DEF Before
<1> HIDE DEF P
<1>9. ASSUME NEW c \in L
      PROVE  /\ Rank(result, c) \in 0 .. Cardinality(L) - 1
             /\ \A d \in L : Before(result, c, d) => Rank(result, c) < Rank(result, d)
  <2>1. Cardinality(P(c)) < Cardinality(L)
    BY <1>2, <1>5, <1>7
  <2>2. ASSUME NEW d \in L, Before(result, c, d)
        PROVE  Cardinality(P(c)) < Cardinality(P(d))
    BY <1>5, <1>6, <1>7, <2>2
  <2> QED  BY <1>3, <1>5, <2>1, <2>2
<1> QED  BY <1>2, <1>3, <1>8, <1>9

LEMMA FirstNumbers ==
    ASSUME NEW n \in Nat
    PROVE  IsFiniteSet(0 .. n - 1) /\ Cardinality(0 .. n - 1) = n
<1>1. 0 \in Int /\ n - 1 \in Int /\ (0 > n - 1 <=> n = 0)
  OBVIOUS
<1>2. IsFiniteSet(0 .. n - 1)
      /\ Cardinality(0 .. n - 1) = IF 0 > n - 1 THEN 0 ELSE n - 1 - 0 + 1
  BY <1>1, FS_Interval
<1> QED  BY <1>1, <1>2

(***************************************************************************)
(* The ranks of the listed children are 0, 1, 2 and so on, so MaxItems of  *)
(* them are shown unless there are fewer, and none that is left out is     *)
(* larger than one that is shown (the sort and the cut of                  *)
(* scanDiskChildren).                                                      *)
(***************************************************************************)
LEMMA TopIsLargest ==
    ASSUME NEW result \in Seq(Items)
    PROVE  /\ IsFiniteSet(Top(result)) /\ Cardinality(Top(result)) <= MaxItems
           /\ Cardinality(Top(result)) \in Nat
           /\ \A c \in Listed(result) \ Top(result) :
                /\ Cardinality(Top(result)) = MaxItems
                /\ \A d \in Top(result) : result[d].size >= result[c].size
<1> DEFINE L == Listed(result)
           n == Cardinality(L)
           T == Top(result)
           rankOfListed == [c \in L |-> Rank(result, c)]
           rankOfTop == [c \in T |-> Rank(result, c)]
<1>1. IsFiniteSet(L) /\ n \in Nat /\ MaxItems \in Nat \ {0} /\ T \subseteq L
  BY Ranks, DiskUsageAssumption DEF Top
<1>2. \A c \in L : Rank(result, c) \in 0 .. n - 1
  BY Ranks
<1>3. \A c, d \in L : Rank(result, c) = Rank(result, d) => c = d
  BY <1>2, Ranks
<1>4. \A c \in L : c \in T <=> Rank(result, c) < MaxItems
  BY DEF Top
<1>5. rankOfListed \in Injection(L, 0 .. n - 1)
  BY <1>2, <1>3 DEF Injection, IsInjective
<1>6. IsFiniteSet(0 .. n - 1) /\ Cardinality(0 .. n - 1) = n
  BY <1>1, FirstNumbers
<1>7. rankOfListed \in Surjection(L, 0 .. n - 1)
  BY <1>5, <1>6, FS_Injection
<1>8. rankOfTop \in Injection(T, 0 .. MaxItems - 1)
  BY <1>1, <1>2, <1>3, <1>4 DEF Injection, IsInjective
<1>9. IsFiniteSet(0 .. MaxItems - 1) /\ Cardinality(0 .. MaxItems - 1) = MaxItems
  BY <1>1, FirstNumbers
<1>10. /\ IsFiniteSet(T) /\ Cardinality(T) <= MaxItems
       /\ Cardinality(T) = MaxItems <=> rankOfTop \in Surjection(T, 0 .. MaxItems - 1)
  BY <1>8, <1>9, FS_Injection
<1>11. ASSUME NEW c \in L \ T
       PROVE  Cardinality(T) = MaxItems
  <2>1. MaxItems <= n - 1
    BY <1>1, <1>2, <1>4
  <2>2. ASSUME NEW i \in 0 .. MaxItems - 1
        PROVE  \E d \in T : rankOfTop[d] = i
    <3>1. i \in 0 .. n - 1
      BY <1>1, <2>1
    <3>2. PICK d \in L : rankOfListed[d] = i
      BY <1>7, <3>1 DEF Surjection
    <3>3. Rank(result, d) = i /\ d \in T
      BY <1>1, <1>4, <3>2
    <3> QED  BY <3>3
  <2>3. rankOfTop \in Surjection(T, 0 .. MaxItems - 1)
    BY <1>8, <2>2 DEF Injection, Surjection
  <2> QED  BY <1>10, <2>3
<1>12. ASSUME NEW c \in L \ T, NEW d \in T
       PROVE  result[d].size >= result[c].size
  <2>1. c \in 1 .. Len(result) /\ d \in 1 .. Len(result)
    BY <1>1 DEF Listed
  <2>2. result[c] \in Items /\ result[d] \in Items
    BY <2>1
  <2>3. ~Before(result, c, d)
    BY <1>1, <1>2, <1>4, Ranks
  <2> QED  BY <2>2, <2>3 DEF Before, Items
<1>13. Cardinality(T) \in Nat
  BY <1>10, FS_CardinalityType
<1> QED  BY <1>10, <1>11, <1>12, <1>13

-----------------------------------------------------------------------------
(* A walk is cut short by the limit, the deadline or the client.           *)
Cut(s) == s.limitHit \/ s.ctx = "deadline" \/ s.parent = "canceled"

Below(s, k) == Tree[s.path][k.child].below

(* A worker is inside a directory among the jobs already taken.            *)
Placed(s, k) ==
    /\ k.child \in Children(s.path) /\ k.child < s.next
    /\ Tree[s.path][k.child].kind = "dir"
    /\ k.pos <= Len(Below(s, k))

(* Unless it skipped something it has counted the first n entries.         *)
Counted(s, k, n) == k.skipped = 0 => k.size = Cardinality(Files(Below(s, k), n))

(* A slot tells the size or what it lacks, and is filled unless the walk   *)
(* was cut or the child is being measured.                                 *)
SlotIsTrue(s, c) ==
    /\ s.result[c].listed /\ ~s.result[c].incomplete =>
         s.result[c].size = TrueSize(Tree[s.path][c])
    /\ s.result[c].listed /\ s.result[c].incomplete =>
         s.result[c].skipped > 0 \/ Cut(s)
    /\ c < s.next /\ c \in Listable(s.path) /\ ~Cut(s) =>
         \/ s.result[c].listed
         \/ \E w \in Workers : s.walk[w].at = "walk" /\ s.walk[w].child = c

ScanBase(s) ==
    /\ s \in Scans /\ DOMAIN s.result = Children(s.path)
    /\ s.ctx # "live" => Cut(s)
    /\ \A w \in Workers : s.walk[w].at = "walk" => Placed(s, s.walk[w])
    /\ \A c \in Children(s.path) : SlotIsTrue(s, c)
    /\ \A w \in Workers : w <= Len(Tree[s.path]) /\ s.walk[w].at = "left" =>
         s.next > Len(Tree[s.path])

CountsRight(s, w) ==
    s.walk[w].at = "walk" => /\ s.walk[w].pos - 1 \in {-1} \cup Nat
                             /\ Counted(s, s.walk[w], s.walk[w].pos - 1)

ScanInv(s) == ScanBase(s) /\ \A w \in Workers : CountsRight(s, w)

(* What the records are made of. *)
LEMMA ScanParts ==
    ASSUME NEW s \in Scans
    PROVE  /\ s.path \in Paths /\ s.next \in Nat \ {0} /\ s.visited \in Nat
           /\ s.limitHit \in BOOLEAN /\ s.parent \in {"live", "canceled"}
           /\ s.ctx \in {"live", "canceled", "deadline"}
           /\ s.result \in Seq(Items) /\ s.walk \in [Workers -> Walks]
           /\ \A c \in DOMAIN s.result : s.result[c] \in Items
           /\ \A w \in Workers : s.walk[w] \in Walks
<1>1. s.result \in Seq(Items) /\ s.walk \in [Workers -> Walks]
  BY DEF Scans
<1>2. \A c \in DOMAIN s.result : s.result[c] \in Items
  BY <1>1
<1> QED  BY <1>1, <1>2 DEF Scans

LEMMA TreeParts ==
    ASSUME NEW p \in Paths
    PROVE  /\ Len(Tree[p]) \in Nat /\ Children(p) = 1 .. Len(Tree[p])
           /\ \A c \in Children(p) :
                /\ Tree[p][c].kind \in Kinds
                /\ Len(Tree[p][c].below) \in Nat
                /\ DOMAIN Tree[p][c].below = 1 .. Len(Tree[p][c].below)
<1> DEFINE Child == [kind : Kinds, below : Seq({"file", "mount"})]
<1>1. Tree[p] \in Seq(Child)
  BY DiskUsageAssumption
<1> HIDE DEF Child
<1>2. Len(Tree[p]) \in Nat /\ Children(p) = 1 .. Len(Tree[p])
  BY <1>1 DEF Children
<1>3. ASSUME NEW c \in Children(p)
      PROVE  /\ Tree[p][c].kind \in Kinds
             /\ Len(Tree[p][c].below) \in Nat
             /\ DOMAIN Tree[p][c].below = 1 .. Len(Tree[p][c].below)
  <2>1. Tree[p][c] \in Child
    BY <1>1, <1>2, <1>3
  <2>2. Tree[p][c].kind \in Kinds /\ Tree[p][c].below \in Seq({"file", "mount"})
    BY <2>1 DEF Child
  <2> QED  BY <2>2
<1> QED  BY <1>2, <1>3

(* Filling a slot. *)
LEMMA SlotFilled ==
    ASSUME NEW result \in Seq(Items), NEW c \in DOMAIN result, NEW x \in Items
    PROVE  /\ [result EXCEPT ![c] = x] \in Seq(Items)
           /\ DOMAIN [result EXCEPT ![c] = x] = DOMAIN result
<1>1. c \in 1 .. Len(result)
  OBVIOUS
<1> QED  BY <1>1, ExceptSeq

(* The same directory, slots and positions, and no cut forgotten.          *)
SameWork(s, t) ==
    /\ t.path = s.path /\ t.next = s.next /\ t.result = s.result
    /\ \A w \in Workers : /\ t.walk[w].at = s.walk[w].at
                          /\ t.walk[w].child = s.walk[w].child
                          /\ t.walk[w].pos = s.walk[w].pos
    /\ Cut(s) => Cut(t)
    /\ t.ctx # "live" => Cut(t)

LEMMA SameWorkIsTrue ==
    ASSUME NEW s, NEW t, ScanBase(s), t \in Scans, SameWork(s, t)
    PROVE  ScanBase(t)
<1>1. \A w \in Workers : t.walk[w].at = "walk" => Placed(t, t.walk[w])
  BY DEF ScanBase, Placed, Below, SameWork
<1>2. \A c \in Children(t.path) : SlotIsTrue(t, c)
  BY DEF ScanBase, SlotIsTrue, SameWork
<1> QED  BY <1>1, <1>2 DEF ScanBase, SameWork

LEMMA SameCounts ==
    ASSUME NEW s, NEW t, NEW w \in Workers, CountsRight(s, w),
           t.path = s.path, t.walk[w] = s.walk[w]
    PROVE  CountsRight(t, w)
  BY DEF CountsRight, Counted, Below

(***************************************************************************)
(* measureDiskItem returns: the slot has the size of the directory, or     *)
(* says that something was skipped or that the walk was cut.               *)
(***************************************************************************)
LEMMA MeasuredIsTrue ==
    ASSUME NEW s, ScanBase(s), NEW w \in Workers, s.walk[w].at = "walk",
           \A v \in Workers \ {w} : CountsRight(s, v),
           NEW cut \in BOOLEAN, cut => Cut(s),
           ~cut => Counted(s, s.walk[w], Len(Below(s, s.walk[w])))
    PROVE  ScanInv(Measured(s, w, cut))
<1> DEFINE k == s.walk[w]
           x == [listed |-> TRUE, size |-> k.size, skipped |-> k.skipped,
                 incomplete |-> cut \/ k.skipped > 0]
           t == Measured(s, w, cut)
<1>1. s \in Scans /\ DOMAIN s.result = Children(s.path) /\ Placed(s, k)
  BY DEF ScanBase
<1>2. k \in Walks /\ k.skipped \in Nat /\ k.size \in Nat
  BY <1>1, ScanParts DEF Walks
<1>3. x \in Items
  BY <1>2 DEF Items
<1>4. k.child \in DOMAIN s.result
  BY <1>1 DEF Placed
<1>5. [s.result EXCEPT ![k.child] = x] \in Seq(Items)
      /\ DOMAIN [s.result EXCEPT ![k.child] = x] = DOMAIN s.result
  BY <1>1, <1>3, <1>4, SlotFilled, ScanParts
<1>6. NoWalk \in Walks
  BY DEF NoWalk, Walks
<1> DEFINE walk == [s.walk EXCEPT ![w] = NoWalk]
           result == [s.result EXCEPT ![k.child] = x]
<1>7. t = [s EXCEPT !.walk = walk, !.result = result]
  BY DEF Measured
<1>8. walk \in [Workers -> Walks] /\ result \in Seq(Items)
  BY <1>1, <1>5, <1>6, ScanParts
<1>9. walk = [s.walk EXCEPT ![w] = NoWalk] /\ result = [s.result EXCEPT ![k.child] = x]
  OBVIOUS
<1> HIDE DEF x, walk, result, t
<1>10. /\ t \in Scans /\ t.path = s.path /\ t.next = s.next /\ t.ctx = s.ctx
       /\ t.limitHit = s.limitHit /\ t.parent = s.parent
       /\ t.walk = [s.walk EXCEPT ![w] = NoWalk]
       /\ t.result = [s.result EXCEPT ![k.child] = x]
  BY <1>1, <1>7, <1>8, <1>9 DEF Scans
<1>11. /\ t.walk[w] = NoWalk /\ \A v \in Workers \ {w} : t.walk[v] = s.walk[v]
       /\ t.result[k.child] = x
       /\ \A c \in Children(s.path) \ {k.child} : t.result[c] = s.result[c]
       /\ Cut(t) <=> Cut(s)
  BY <1>1, <1>4, <1>10, ScanParts DEF Cut
<1>12. NoWalk.at = "jobs"
  BY DEF NoWalk
<1>13. \A v \in Workers : t.walk[v].at = "walk" => Placed(t, t.walk[v])
  BY <1>10, <1>11, <1>12 DEF ScanBase, Placed, Below
<1>14. ASSUME NEW c \in Children(s.path)
       PROVE  SlotIsTrue(t, c)
  <2>1. CASE c = k.child
    <3>1. /\ x.listed /\ x.size = k.size /\ x.skipped = k.skipped
          /\ x.incomplete <=> (cut \/ k.skipped > 0)
      BY DEF x
    <3>2. x.incomplete => x.skipped > 0 \/ Cut(t)
      BY <1>11, <3>1
    <3>3. ASSUME ~x.incomplete
          PROVE  x.size = TrueSize(Tree[s.path][c])
      <4>1. Tree[s.path][c].kind = "dir" /\ Below(s, k) = Tree[s.path][c].below
        BY <1>1, <2>1 DEF Placed, Below
      <4>2. TrueSize(Tree[s.path][c])
              = Cardinality(Files(Below(s, k), Len(Below(s, k))))
        BY <1>1, <4>1, TreeParts, ScanParts DEF TrueSize, Files
      <4>3. k.skipped = 0 /\ ~cut
        BY <1>2, <3>1, <3>3
      <4> QED  BY <3>1, <4>2, <4>3 DEF Counted
    <3> QED  BY <1>10, <1>11, <2>1, <3>1, <3>2, <3>3 DEF SlotIsTrue
  <2>2. CASE c # k.child
    <3>1. SlotIsTrue(s, c) /\ t.result[c] = s.result[c]
      BY <1>11, <2>2 DEF ScanBase
    <3>2. \A v \in Workers : s.walk[v].child = c => t.walk[v] = s.walk[v]
      BY <1>11, <2>2
    <3> QED  BY <1>10, <1>11, <3>1, <3>2 DEF SlotIsTrue
  <2> QED  BY <2>1, <2>2
<1>15. \A v \in Workers : v <= Len(Tree[t.path]) /\ t.walk[v].at = "left" =>
          t.next > Len(Tree[t.path])
  BY <1>10, <1>11, <1>12 DEF ScanBase
<1>16. ScanBase(t)
  BY <1>1, <1>5, <1>10, <1>11, <1>13, <1>14, <1>15 DEF ScanBase
<1>17. ASSUME NEW v \in Workers
       PROVE  CountsRight(t, v)
  <2>1. CASE v = w   BY <1>11, <1>12, <2>1 DEF CountsRight
  <2>2. CASE v # w   BY <1>10, <1>11, <2>2, SameCounts
  <2> QED  BY <2>1, <2>2
<1>18. ScanInv(t)
  BY <1>16, <1>17 DEF ScanInv
<1> QED  BY <1>18 DEF t

(***************************************************************************)
(* On to the next entry, or out of WalkDir with all entries counted.       *)
(***************************************************************************)
LEMMA OnwardIsTrue ==
    ASSUME NEW s, ScanBase(s), NEW w \in Workers, s.walk[w].at = "walk",
           \A v \in Workers \ {w} : CountsRight(s, v),
           NEW onto \in Nat \ {0}, onto <= Len(Below(s, s.walk[w])) + 1,
           Counted(s, s.walk[w], onto - 1)
    PROVE  ScanInv(Onward(s, w, onto))
<1> DEFINE k == s.walk[w]
           t == [s EXCEPT !.walk[w].pos = onto]
           walk == [s.walk EXCEPT ![w].pos = onto]
<1>1. s \in Scans /\ Placed(s, k) /\ k \in Walks /\ s.walk \in [Workers -> Walks]
  BY ScanParts DEF ScanBase
<1>2. Len(Below(s, k)) \in Nat
  BY <1>1, TreeParts, ScanParts DEF Below, Placed
<1>3. CASE onto > Len(Below(s, k))
  <2>1. onto - 1 = Len(Below(s, k))
    BY <1>2, <1>3
  <2>2. Counted(s, k, Len(Below(s, k)))
    BY <2>1
  <2>3. ScanInv(Measured(s, w, FALSE))
    BY <2>2, MeasuredIsTrue
  <2> QED  BY <1>3, <2>3 DEF Onward, Below
<1>4. CASE onto <= Len(Below(s, k))
  <2>1. Onward(s, w, onto) = t
    <3>1. ~(onto > Len(Tree[s.path][s.walk[w].child].below))
      BY <1>2, <1>4 DEF Below
    <3> QED  BY <3>1 DEF Onward
  <2>2. walk \in [Workers -> Walks]
    BY <1>1 DEF Walks
  <2>3. /\ walk[w] = [k EXCEPT !.pos = onto]
        /\ \A v \in Workers \ {w} : walk[v] = s.walk[v]
    BY <1>1
  <2>4. /\ walk[w].pos = onto /\ walk[w].at = "walk" /\ walk[w].child = k.child
        /\ walk[w].skipped = k.skipped /\ walk[w].size = k.size
    BY <1>1, <2>3 DEF Walks
  <2>5. t = [s EXCEPT !.walk = walk]
    OBVIOUS
  <2> HIDE DEF walk, t
  <2>6. /\ t \in Scans /\ t.path = s.path /\ t.next = s.next /\ t.ctx = s.ctx
        /\ t.limitHit = s.limitHit /\ t.parent = s.parent
        /\ t.result = s.result /\ t.walk = walk
    BY <1>1, <2>2, <2>5 DEF Scans
  <2>7. Cut(t) <=> Cut(s)
    BY <2>6 DEF Cut
  <2>8. \A v \in Workers : t.walk[v].at = "walk" => Placed(t, t.walk[v])
    <3>1. Placed(t, t.walk[w])
      BY <1>1, <1>4, <2>4, <2>6 DEF Placed, Below
    <3>2. \A v \in Workers \ {w} : t.walk[v].at = "walk" => Placed(t, t.walk[v])
      BY <2>3, <2>6 DEF ScanBase, Placed, Below
    <3> QED  BY <3>1, <3>2
  <2>9. \A v \in Workers : t.walk[v].at = s.walk[v].at /\ t.walk[v].child = s.walk[v].child
    BY <2>3, <2>4, <2>6
  <2>10. \A c \in Children(t.path) : SlotIsTrue(t, c)
    BY <2>6, <2>7, <2>9 DEF ScanBase, SlotIsTrue
  <2>11. ScanBase(t)
    BY <2>6, <2>7, <2>8, <2>9, <2>10 DEF ScanBase
  <2>12. CountsRight(t, w)
    BY <2>4, <2>6 DEF CountsRight, Counted, Below
  <2>13. \A v \in Workers \ {w} : CountsRight(t, v)
    BY <2>3, <2>6, SameCounts
  <2>14. ScanInv(t)
    BY <2>11, <2>12, <2>13 DEF ScanInv
  <2> QED  BY <2>1, <2>14
<1> QED  BY <1>2, <1>3, <1>4

LEMMA SkippedMore ==
    ASSUME NEW k \in Walks, NEW n \in Nat, NEW x, x = [k EXCEPT !.skipped = n]
    PROVE  x \in Walks /\ x.at = k.at /\ x.child = k.child /\ x.pos = k.pos
           /\ x.skipped = n
  BY DEF Walks

LEMMA CountedMore ==
    ASSUME NEW k \in Walks, NEW n \in Nat, NEW x, x = [k EXCEPT !.size = n]
    PROVE  x \in Walks /\ x.at = k.at /\ x.child = k.child /\ x.pos = k.pos
           /\ x.size = n /\ x.skipped = k.skipped
  BY DEF Walks

(* A walk at position pos of a child with so many entries. *)
LEMMA WalkParts ==
    ASSUME NEW s, ScanInv(s), NEW w \in Workers, s.walk[w].at = "walk"
    PROVE  /\ s \in Scans /\ s.walk \in [Workers -> Walks] /\ s.walk[w] \in Walks
           /\ s.walk[w].pos \in Nat /\ s.walk[w].size \in Nat
           /\ s.walk[w].skipped \in Nat /\ s.visited \in Nat
           /\ Len(Below(s, s.walk[w])) \in Nat
           /\ s.walk[w].pos <= Len(Below(s, s.walk[w]))
           /\ Counted(s, s.walk[w], s.walk[w].pos - 1)
<1>1. s \in Scans /\ Placed(s, s.walk[w])
  BY DEF ScanInv, ScanBase
<1>2. s.walk[w] \in Walks /\ s.walk \in [Workers -> Walks] /\ s.visited \in Nat
  BY <1>1, ScanParts
<1>3. Len(Below(s, s.walk[w])) \in Nat
  BY <1>1, TreeParts, ScanParts DEF Below, Placed
<1> QED  BY <1>1, <1>2, <1>3 DEF Placed, ScanInv, CountsRight, Walks

(***************************************************************************)
(* A worker that has counted an entry and changed the numbers of its own   *)
(* walk only.                                                              *)
(***************************************************************************)
WithWalk(s, w, k) ==
    [s EXCEPT !.visited = s.visited + 1, !.walk = [s.walk EXCEPT ![w] = k]]

LEMMA OwnNumbers ==
    ASSUME NEW s, ScanInv(s), NEW w \in Workers, s.walk[w].at = "walk",
           NEW k \in Walks,
           k.at = "walk", k.child = s.walk[w].child, k.pos = s.walk[w].pos
    PROVE  /\ ScanBase(WithWalk(s, w, k))
           /\ WithWalk(s, w, k).walk[w] = k /\ WithWalk(s, w, k).path = s.path
           /\ \A v \in Workers \ {w} : CountsRight(WithWalk(s, w, k), v)
           /\ Below(WithWalk(s, w, k), k) = Below(s, s.walk[w])
<1> DEFINE walk == [s.walk EXCEPT ![w] = k]
           t == WithWalk(s, w, k)
<1>1. s \in Scans /\ s.visited \in Nat /\ s.walk \in [Workers -> Walks]
  BY WalkParts
<1>2. walk \in [Workers -> Walks]
  BY <1>1
<1>3. walk[w] = k /\ \A v \in Workers \ {w} : walk[v] = s.walk[v]
  BY <1>1
<1> DEFINE visited == s.visited + 1
<1>4. t = [s EXCEPT !.visited = visited, !.walk = walk] /\ visited \in Nat
  BY <1>1 DEF WithWalk
<1> HIDE DEF walk, visited, t
<1>5. /\ t \in Scans /\ t.path = s.path /\ t.next = s.next /\ t.ctx = s.ctx
      /\ t.limitHit = s.limitHit /\ t.parent = s.parent
      /\ t.result = s.result /\ t.walk = walk
  BY <1>1, <1>2, <1>4 DEF Scans
<1>6. Cut(t) <=> Cut(s)
  BY <1>5 DEF Cut
<1>7. ScanBase(t)
  <2>1. ScanBase(s)
    BY DEF ScanInv
  <2>2. t.ctx # "live" => Cut(t)
    BY <1>5, <1>6, <2>1 DEF ScanBase
  <2>3. \A v \in Workers : /\ t.walk[v].at = s.walk[v].at
                           /\ t.walk[v].child = s.walk[v].child
                           /\ t.walk[v].pos = s.walk[v].pos
    BY <1>3, <1>5
  <2>4. SameWork(s, t)
    BY <1>5, <1>6, <2>2, <2>3 DEF SameWork
  <2>5. t \in Scans
    BY <1>5
  <2> QED  BY <2>1, <2>4, <2>5, SameWorkIsTrue
<1>8. \A v \in Workers \ {w} : CountsRight(t, v)
  BY <1>3, <1>5, SameCounts DEF ScanInv
<1>9. Below(t, k) = Below(s, s.walk[w])
  BY <1>5 DEF Below
<1> QED  BY <1>3, <1>5, <1>7, <1>8, <1>9 DEF t

(* WalkDir's callback: cut short, beyond the limit, skipped, or counted. *)
LEMMA VisitKeeps ==
    ASSUME NEW r, NEW w \in Workers, ScanInv(scan[r]), Visit(r, w)
    PROVE  \E t : ScanInv(t) /\ t.path = scan[r].path /\ scan' = [scan EXCEPT ![r] = t]
<1> DEFINE s == scan[r]
           k == s.walk[w]
           below == Below(s, k)
           counted == [s EXCEPT !.visited = @ + 1]
           limited == [counted EXCEPT !.limitHit = TRUE, !.ctx = "canceled"]
           skipping == [counted EXCEPT !.walk[w].skipped = @ + 1]
           Sized(size) == [counted EXCEPT !.walk[w].size = size]
<1>1. /\ ScanInv(s) /\ s.walk[w].at = "walk" /\ ScanBase(s)
      /\ \A v \in Workers : CountsRight(s, v)
  BY DEF Visit, ScanInv
<1>2. /\ s \in Scans /\ s.walk \in [Workers -> Walks] /\ k \in Walks
      /\ k.pos \in Nat /\ k.size \in Nat /\ k.skipped \in Nat /\ s.visited \in Nat
      /\ Len(below) \in Nat /\ k.pos <= Len(below) /\ Counted(s, k, k.pos - 1)
  BY <1>1, WalkParts
<1>3. CASE s.ctx # "live" /\ scan' = [scan EXCEPT ![r] = Measured(s, w, TRUE)]
  <2>1. Cut(s)
    BY <1>1, <1>3 DEF ScanBase
  <2>2. ScanInv(Measured(s, w, TRUE))
    BY <1>1, <2>1, MeasuredIsTrue
  <2>3. Measured(s, w, TRUE).path = s.path
    BY <1>2 DEF Measured, Scans
  <2> QED  BY <1>3, <2>2, <2>3
<1>4. CASE scan' = [scan EXCEPT ![r] = Measured(limited, w, TRUE)]
  <2>1. limited = [s EXCEPT !.visited = s.visited + 1, !.limitHit = TRUE,
                            !.ctx = "canceled"]
    BY <1>2 DEF Scans
  <2> DEFINE visited == s.visited + 1
  <2>2. limited = [s EXCEPT !.visited = visited, !.limitHit = TRUE, !.ctx = "canceled"]
        /\ visited \in Nat
    BY <1>2, <2>1
  <2> HIDE DEF limited, s, visited
  <2>3. /\ limited \in Scans /\ limited.path = s.path /\ limited.next = s.next
        /\ limited.result = s.result /\ limited.walk = s.walk /\ limited.limitHit
    BY <1>2, <2>2 DEF Scans
  <2>4. Cut(limited)
    BY <2>3 DEF Cut
  <2>5. SameWork(s, limited)
    BY <2>3, <2>4 DEF SameWork
  <2>6. ScanBase(limited)
    BY <1>1, <2>3, <2>5, SameWorkIsTrue
  <2>7. \A v \in Workers : CountsRight(limited, v)
    BY <1>1, <2>3, SameCounts
  <2>8. ScanInv(Measured(limited, w, TRUE))
    BY <1>1, <2>3, <2>4, <2>7, <2>6, MeasuredIsTrue
  <2>9. Measured(limited, w, TRUE).path = s.path
    BY <2>3 DEF Measured, Scans
  <2> QED  BY <1>4, <2>8, <2>9 DEF s
<1>5. ASSUME NEW onto \in {k.pos + 1, Len(below) + 1},
             scan' = [scan EXCEPT ![r] = Onward(skipping, w, onto)]
      PROVE  \E t : ScanInv(t) /\ t.path = s.path /\ scan' = [scan EXCEPT ![r] = t]
  <2> DEFINE skipped == [k EXCEPT !.skipped = k.skipped + 1]
  <2>1. /\ skipped \in Walks /\ skipped.at = "walk" /\ skipped.child = k.child
        /\ skipped.pos = k.pos /\ skipped.skipped = k.skipped + 1
    <3>1. k.skipped + 1 \in Nat
      BY <1>2
    <3> HIDE DEF k
    <3> QED  BY <1>1, <1>2, <3>1, SkippedMore DEF k
  <2>2. skipping = WithWalk(s, w, skipped)
    BY <1>1, <1>2 DEF Scans, WithWalk
  <2> HIDE DEF skipping, skipped
  <2>3. /\ ScanBase(skipping) /\ skipping.walk[w] = skipped /\ skipping.path = s.path
        /\ \A v \in Workers \ {w} : CountsRight(skipping, v)
        /\ Below(skipping, skipping.walk[w]) = below
    BY <1>1, <2>1, <2>2, OwnNumbers
  <2>4. Counted(skipping, skipping.walk[w], onto - 1)
    BY <1>2, <2>1, <2>3 DEF Counted
  <2>5. onto \in Nat \ {0} /\ onto <= Len(below) + 1
    BY <1>2
  <2>6. ScanInv(Onward(skipping, w, onto))
    BY <2>1, <2>3, <2>4, <2>5, OnwardIsTrue
  <2>7. Onward(skipping, w, onto).path = s.path
    BY <2>3 DEF Onward, Measured, ScanBase, Scans
  <2> QED  BY <1>5, <2>6, <2>7
<1>6. ASSUME NEW size,
             size = IF k.pos > 0 /\ below[k.pos] = "file" THEN k.size + 1 ELSE k.size,
             scan' = [scan EXCEPT ![r] = Onward(Sized(size), w, k.pos + 1)]
      PROVE  \E t : ScanInv(t) /\ t.path = s.path /\ scan' = [scan EXCEPT ![r] = t]
  <2> DEFINE sized == [k EXCEPT !.size = size]
             u == Sized(size)
  <2>1. /\ sized \in Walks /\ sized.at = "walk" /\ sized.child = k.child
        /\ sized.pos = k.pos /\ sized.size = size /\ sized.skipped = k.skipped
    <3> HIDE DEF k, below
    <3>1. size = k.size \/ size = k.size + 1
      BY <1>6
    <3>2. size \in Nat
      BY <1>2, <3>1
    <3> QED  BY <1>1, <1>2, <3>2, CountedMore DEF k
  <2>2. u = WithWalk(s, w, sized)
    BY <1>1, <1>2 DEF Scans, WithWalk
  <2>3. scan' = [scan EXCEPT ![r] = Onward(u, w, k.pos + 1)]
    BY <1>6
  <2> HIDE DEF u, sized
  <2>4. /\ ScanBase(u) /\ u.walk[w] = sized /\ u.path = s.path
        /\ \A v \in Workers \ {w} : CountsRight(u, v)
        /\ Below(u, u.walk[w]) = below
    BY <1>1, <2>1, <2>2, OwnNumbers
  <2>5. Counted(u, u.walk[w], k.pos)
    <3>1. k.pos \in Nat
      BY <1>2
    <3>2. CASE k.pos = 0
      <4>1. Files(below, k.pos) = Files(below, k.pos - 1)
        BY <1>2, <3>2 DEF Files
      <4> QED  BY <1>2, <1>6, <2>1, <2>4, <3>1, <3>2, <4>1 DEF Counted
    <3>3. CASE k.pos > 0
      <4>1. k.pos - 1 \in Nat /\ k.pos - 1 + 1 = k.pos
        BY <1>2, <3>3
      <4>2. Cardinality(Files(below, k.pos)) =
              IF below[k.pos] = "file" THEN Cardinality(Files(below, k.pos - 1)) + 1
                                       ELSE Cardinality(Files(below, k.pos - 1))
        BY <4>1, FilesUpTo
      <4> QED  BY <1>2, <1>6, <2>1, <2>4, <3>1, <3>3, <4>2 DEF Counted
    <3> QED  BY <1>2, <3>2, <3>3
  <2>6. k.pos + 1 \in Nat \ {0} /\ k.pos + 1 <= Len(below) + 1
    BY <1>2
  <2>7. ScanInv(Onward(u, w, k.pos + 1))
    <3> DEFINE onto == k.pos + 1
    <3>1. onto \in Nat \ {0} /\ onto <= Len(below) + 1
      BY <2>6
    <3>2. Counted(u, u.walk[w], onto - 1)
      <4>1. onto - 1 = k.pos
        BY <1>2
      <4> HIDE DEF onto
      <4> QED  BY <2>5, <4>1
    <3>3. u.walk[w].at = "walk"
      BY <2>1, <2>4
    <3> HIDE DEF onto, below
    <3>4. ScanInv(Onward(u, w, onto))
      BY <2>4, <3>1, <3>2, <3>3, OnwardIsTrue
    <3> QED  BY <3>4 DEF onto
  <2>8. Onward(u, w, k.pos + 1).path = s.path
    BY <2>4 DEF Onward, Measured, ScanBase, Scans
  <2> QED  BY <2>3, <2>7, <2>8
<1> QED  BY <1>3, <1>4, <1>5, <1>6 DEF Visit, Below

(* A worker without a child takes the next one and starts on it, or not.   *)
Entering(c) == [NoWalk EXCEPT !.at = "walk", !.child = c]
Takes(s, w, t) ==
    /\ s.walk[w].at = "jobs" /\ s.next <= Len(Tree[s.path])
    /\ t.path = s.path /\ t.next = s.next + 1 /\ t.ctx = s.ctx
    /\ t.limitHit = s.limitHit /\ t.parent = s.parent
    /\ DOMAIN t.result = DOMAIN s.result
    /\ \A d \in Children(s.path) \ {s.next} : t.result[d] = s.result[d]
    /\ \A v \in Workers \ {w} : t.walk[v] = s.walk[v]
    /\ \/ t.walk[w] = s.walk[w]
       \/ t.walk[w] = Entering(s.next) /\ Tree[s.path][s.next].kind = "dir"
    /\ SlotIsTrue(t, s.next)

LEMMA SlotFields ==
    /\ [listed |-> TRUE, size |-> 0, skipped |-> 1, incomplete |-> TRUE] \in Items
    /\ [listed |-> TRUE, size |-> 1, skipped |-> 0, incomplete |-> FALSE] \in Items
    /\ NoItem \in Items /\ NoItem.listed = FALSE
<1>1. [listed |-> TRUE, size |-> 0, skipped |-> 1, incomplete |-> TRUE] \in Items
  BY DEF Items
<1>2. [listed |-> TRUE, size |-> 1, skipped |-> 0, incomplete |-> FALSE] \in Items
  BY DEF Items
<1>3. NoItem \in Items /\ NoItem.listed = FALSE
  BY DEF Items, NoItem
<1> QED  BY <1>1, <1>2, <1>3

LEMMA EnteringFields ==
    ASSUME NEW c \in Nat
    PROVE  /\ Entering(c) \in Walks /\ Entering(c).at = "walk"
           /\ Entering(c).child = c /\ Entering(c).pos = 0
           /\ Entering(c).size = 0 /\ Entering(c).skipped = 0
  BY DEF Entering, NoWalk, Walks

LEMMA TakenIsTrue ==
    ASSUME NEW s, ScanInv(s), NEW w \in Workers, NEW t \in Scans, Takes(s, w, t)
    PROVE  ScanInv(t)
<1>1. /\ ScanBase(s) /\ s \in Scans /\ s.path \in Paths /\ s.next \in Nat \ {0}
      /\ DOMAIN s.result = Children(s.path) /\ \A v \in Workers : CountsRight(s, v)
  BY ScanParts DEF ScanInv, ScanBase
<1>2. Children(s.path) = 1 .. Len(Tree[s.path]) /\ Len(Tree[s.path]) \in Nat
  BY <1>1, TreeParts
<1>3. s.next \in Children(s.path)
  BY <1>1, <1>2 DEF Takes
<1>4. Len(Tree[s.path][s.next].below) \in Nat
  BY <1>1, <1>3, TreeParts
<1>5. Cut(t) <=> Cut(s)
  BY DEF Cut, Takes
<1>6. ASSUME NEW v \in Workers, t.walk[v].at = "walk"
      PROVE  Placed(t, t.walk[v])
  <2>1. CASE t.walk[v] = s.walk[v]
    <3>1. Placed(s, s.walk[v]) /\ t.path = s.path /\ t.next = s.next + 1
      BY <1>1, <1>6, <2>1 DEF ScanBase, Takes
    <3>2. s.walk[v].child \in Nat /\ s.walk[v].child < s.next
      BY <1>2, <3>1 DEF Placed
    <3> QED  BY <1>1, <2>1, <3>1, <3>2 DEF Placed, Below
  <2>2. CASE t.walk[v] = Entering(s.next) /\ Tree[s.path][s.next].kind = "dir"
    BY <1>1, <1>3, <1>4, <2>2, EnteringFields DEF Placed, Below, Takes
  <2> QED  BY <2>1, <2>2 DEF Takes
<1>7. ASSUME NEW d \in Children(s.path)
      PROVE  SlotIsTrue(t, d)
  <2>1. CASE d = s.next
    BY <2>1 DEF Takes
  <2>2. CASE d # s.next
    <3>1. t.result[d] = s.result[d] /\ SlotIsTrue(s, d) /\ t.path = s.path
      BY <1>1, <2>2 DEF Takes, ScanBase
    <3>2. d < t.next => d < s.next
      BY <1>1, <1>2, <2>2 DEF Takes
    <3>3. \A v \in Workers : s.walk[v].at = "walk" => t.walk[v] = s.walk[v]
      BY DEF Takes
    <3> QED  BY <1>5, <3>1, <3>2, <3>3 DEF SlotIsTrue
  <2> QED  BY <2>1, <2>2
<1>8. ASSUME NEW v \in Workers, v <= Len(Tree[t.path]), t.walk[v].at = "left"
      PROVE  t.next > Len(Tree[t.path])
  <2>1. t.walk[v] = s.walk[v] /\ t.path = s.path /\ t.next = s.next + 1
    BY <1>1, <1>8, EnteringFields DEF Takes
  <2>2. s.next > Len(Tree[s.path])
    BY <1>1, <1>8, <2>1 DEF ScanBase
  <2> QED  BY <1>1, <1>2, <2>1, <2>2
<1>9. ScanBase(t)
  BY <1>1, <1>5, <1>6, <1>7, <1>8 DEF ScanBase, Takes
<1>10. ASSUME NEW v \in Workers
       PROVE  CountsRight(t, v)
  <2>1. CASE t.walk[v] = s.walk[v]
    BY <1>1, <2>1, SameCounts DEF Takes
  <2>2. CASE t.walk[v] = Entering(s.next)
    <3>1. /\ t.walk[v].pos = 0 /\ t.walk[v].size = 0 /\ t.walk[v].skipped = 0
      BY <1>1, <2>2, EnteringFields
    <3>2. Cardinality(Files(Below(t, t.walk[v]), 0 - 1)) = 0
      BY FS_EmptySet DEF Files
    <3> QED  BY <3>1, <3>2 DEF CountsRight, Counted
  <2> QED  BY <2>1, <2>2 DEF Takes
<1> QED  BY <1>9, <1>10 DEF ScanInv

(* The worker's turn: passed over, unreadable, a file, or a directory. *)
LEMMA TakeJobKeeps ==
    ASSUME NEW r, NEW w \in Workers, ScanInv(scan[r]), TakeJob(r, w)
    PROVE  \E t : ScanInv(t) /\ t.path = scan[r].path /\ scan' = [scan EXCEPT ![r] = t]
<1> DEFINE s == scan[r]
           c == s.next
           kind == Tree[s.path][c].kind
           taken == [s EXCEPT !.next = c + 1]
           measured == s.ctx = "live" /\ kind \in {"file", "dir"}
           failed == [listed |-> TRUE, size |-> 0, skipped |-> 1, incomplete |-> TRUE]
           file == [listed |-> TRUE, size |-> 1, skipped |-> 0, incomplete |-> FALSE]
           unreadable == [taken EXCEPT !.result[c] = failed]
           counted == [taken EXCEPT !.visited = @ + 1, !.result[c] = file]
           entered == [taken EXCEPT !.walk[w] = Entering(c)]
           Goal(t) == t \in Scans /\ Takes(s, w, t)
<1>1. /\ s \in Scans /\ s.path \in Paths /\ c \in Nat \ {0} /\ s.visited \in Nat
      /\ s.result \in Seq(Items) /\ DOMAIN s.result = Children(s.path)
      /\ s.walk \in [Workers -> Walks] /\ ScanBase(s)
  BY ScanParts DEF ScanInv, ScanBase
<1>2. s.walk[w].at = "jobs" /\ c <= Len(Tree[s.path])
  BY DEF TakeJob
<1>3. c \in Children(s.path)
  BY <1>1, <1>2, TreeParts
<1>4. /\ taken \in Scans /\ taken.path = s.path /\ taken.next = c + 1
      /\ taken.ctx = s.ctx /\ taken.limitHit = s.limitHit /\ taken.parent = s.parent
      /\ taken.result = s.result /\ taken.walk = s.walk /\ taken.visited = s.visited
  <2>1. c + 1 \in Nat \ {0}
    BY <1>1
  <2> HIDE DEF s
  <2> QED  BY <1>1, <2>1 DEF Scans
<1>5. /\ failed \in Items /\ file \in Items
      /\ file.listed /\ file.size = 1 /\ ~file.incomplete
  BY SlotFields
<1>6. CASE ~measured /\ scan' = [scan EXCEPT ![r] = taken]
  <2>1. SlotIsTrue(s, c)
    BY <1>1, <1>3 DEF ScanBase
  <2>2. c \in Listable(s.path) => Cut(s)
    BY <1>1, <1>6 DEF ScanBase, Listable
  <2>3. Cut(taken) <=> Cut(s)
    BY <1>4 DEF Cut
  <2> HIDE DEF taken, s
  <2>4. SlotIsTrue(taken, c)
    BY <1>4, <2>1, <2>2, <2>3 DEF SlotIsTrue
  <2>5. Takes(s, w, taken)
    BY <1>2, <1>4, <2>4 DEF Takes
  <2>6. ScanInv(taken)
    BY <1>4, <2>5, TakenIsTrue DEF s
  <2> QED  BY <1>4, <1>6, <2>6 DEF s
<1>7. CASE measured /\ scan' = [scan EXCEPT ![r] = unreadable]
  <2> DEFINE result == [s.result EXCEPT ![c] = failed]
  <2>1. /\ result \in Seq(Items) /\ DOMAIN result = DOMAIN s.result
        /\ result[c] = failed /\ \A d \in Children(s.path) \ {c} : result[d] = s.result[d]
    BY <1>1, <1>3, <1>5, SlotFilled
  <2>2. unreadable = [taken EXCEPT !.result = result]
    BY <1>4
  <2> HIDE DEF unreadable, taken, result, s
  <2>3. /\ unreadable \in Scans /\ unreadable.path = s.path /\ unreadable.next = c + 1
        /\ unreadable.ctx = s.ctx /\ unreadable.limitHit = s.limitHit
        /\ unreadable.parent = s.parent /\ unreadable.result = result /\ unreadable.walk = s.walk
    BY <1>4, <2>1, <2>2 DEF Scans
  <2>4. SlotIsTrue(unreadable, c)
    BY <2>1, <2>3 DEF SlotIsTrue
  <2>5. Takes(s, w, unreadable)
    BY <1>2, <2>1, <2>3, <2>4 DEF Takes
  <2>6. ScanInv(unreadable)
    BY <2>3, <2>5, TakenIsTrue DEF s
  <2> QED  BY <1>7, <2>3, <2>6 DEF s
<1>8. CASE measured /\ kind = "file" /\ scan' = [scan EXCEPT ![r] = counted]
  <2> DEFINE result == [s.result EXCEPT ![c] = file]
             visited == s.visited + 1
  <2>1. /\ result \in Seq(Items) /\ DOMAIN result = DOMAIN s.result
        /\ result[c] = file /\ \A d \in Children(s.path) \ {c} : result[d] = s.result[d]
        /\ visited \in Nat
    BY <1>1, <1>3, <1>5, SlotFilled
  <2>2. counted = [taken EXCEPT !.visited = visited, !.result = result]
    BY <1>4
  <2>3. TrueSize(Tree[s.path][c]) = 1
    BY <1>8 DEF TrueSize
  <2> HIDE DEF counted, taken, result, visited, s, file
  <2>4. /\ counted \in Scans /\ counted.path = s.path /\ counted.next = c + 1
        /\ counted.ctx = s.ctx /\ counted.limitHit = s.limitHit
        /\ counted.parent = s.parent /\ counted.result = result /\ counted.walk = s.walk
    BY <1>4, <2>1, <2>2 DEF Scans
  <2>5. SlotIsTrue(counted, c)
    BY <1>5, <2>1, <2>3, <2>4 DEF SlotIsTrue
  <2>6. Takes(s, w, counted)
    BY <1>2, <2>1, <2>4, <2>5 DEF Takes
  <2>7. ScanInv(counted)
    BY <2>4, <2>6, TakenIsTrue DEF s
  <2> QED  BY <1>8, <2>4, <2>7 DEF s
<1>9. CASE measured /\ kind = "dir" /\ scan' = [scan EXCEPT ![r] = entered]
  <2> DEFINE walk == [s.walk EXCEPT ![w] = Entering(c)]
  <2>1. /\ walk \in [Workers -> Walks] /\ walk[w] = Entering(c)
        /\ \A v \in Workers \ {w} : walk[v] = s.walk[v]
    BY <1>1, EnteringFields
  <2>2. entered = [taken EXCEPT !.walk = walk]
    BY <1>4
  <2>3. SlotIsTrue(s, c)
    BY <1>1, <1>3 DEF ScanBase
  <2>4. Tree[s.path][c].kind = "dir"
    BY <1>9
  <2> HIDE DEF entered, taken, walk, s
  <2>5. /\ entered \in Scans /\ entered.path = s.path /\ entered.next = c + 1
        /\ entered.ctx = s.ctx /\ entered.limitHit = s.limitHit
        /\ entered.parent = s.parent /\ entered.result = s.result /\ entered.walk = walk
    BY <1>4, <2>1, <2>2 DEF Scans
  <2>6. Cut(entered) <=> Cut(s)
    BY <2>5 DEF Cut
  <2>7. entered.walk[w].at = "walk" /\ entered.walk[w].child = c
    BY <1>1, <2>1, <2>5, EnteringFields
  <2>8. SlotIsTrue(entered, c)
    BY <2>3, <2>5, <2>6, <2>7 DEF SlotIsTrue
  <2>9. Takes(s, w, entered)
    BY <1>2, <2>1, <2>4, <2>5, <2>8 DEF Takes
  <2>10. ScanInv(entered)
    BY <2>5, <2>9, TakenIsTrue DEF s
  <2> QED  BY <1>9, <2>5, <2>10 DEF s
<1> QED  BY <1>6, <1>7, <1>8, <1>9 DEF TakeJob, Entering

(* A worker leaves when all children are taken. *)
LEMMA WorkerLeavesKeeps ==
    ASSUME NEW r, NEW w \in Workers, ScanInv(scan[r]), WorkerLeaves(r, w)
    PROVE  \E t : ScanInv(t) /\ t.path = scan[r].path /\ scan' = [scan EXCEPT ![r] = t]
<1> DEFINE s == scan[r]
           k == [s.walk[w] EXCEPT !.at = "left"]
           walk == [s.walk EXCEPT ![w] = k]
           t == [s EXCEPT !.walk[w].at = "left"]
<1>1. /\ ScanBase(s) /\ s \in Scans /\ s.walk \in [Workers -> Walks]
      /\ s.walk[w] \in Walks /\ \A v \in Workers : CountsRight(s, v)
  BY ScanParts DEF ScanInv, ScanBase
<1>2. s.walk[w].at = "jobs" /\ s.next > Len(Tree[s.path])
  BY DEF WorkerLeaves
<1>3. k \in Walks /\ k.at = "left"
  BY <1>1 DEF Walks
<1>4. /\ walk \in [Workers -> Walks] /\ walk[w] = k
      /\ \A v \in Workers \ {w} : walk[v] = s.walk[v]
  BY <1>1, <1>3
<1>5. t = [s EXCEPT !.walk = walk]
  OBVIOUS
<1>6. scan' = [scan EXCEPT ![r] = t]
  BY DEF WorkerLeaves
<1> HIDE DEF k, walk, t, s
<1>7. /\ t \in Scans /\ t.path = s.path /\ t.next = s.next /\ t.ctx = s.ctx
      /\ t.limitHit = s.limitHit /\ t.parent = s.parent /\ t.result = s.result
      /\ t.walk = walk
  BY <1>1, <1>4, <1>5 DEF Scans
<1>8. Cut(t) <=> Cut(s)
  BY <1>7 DEF Cut
<1>9. \A v \in Workers : t.walk[v].at = "walk" => Placed(t, t.walk[v])
  BY <1>1, <1>3, <1>4, <1>7 DEF ScanBase, Placed, Below
<1>10. ASSUME NEW c \in Children(t.path)
       PROVE  SlotIsTrue(t, c)
  <2>1. SlotIsTrue(s, c)
    BY <1>1, <1>7, <1>10 DEF ScanBase
  <2>2. \A v \in Workers : s.walk[v].at = "walk" => t.walk[v] = s.walk[v]
    BY <1>2, <1>4, <1>7
  <2> QED  BY <1>7, <1>8, <2>1, <2>2 DEF SlotIsTrue
<1>11. \A v \in Workers : v <= Len(Tree[t.path]) /\ t.walk[v].at = "left" =>
          t.next > Len(Tree[t.path])
  BY <1>2, <1>7
<1>12. ScanBase(t)
  BY <1>1, <1>7, <1>8, <1>9, <1>10, <1>11 DEF ScanBase
<1>13. ASSUME NEW v \in Workers
       PROVE  CountsRight(t, v)
  <2>1. CASE v = w   BY <1>3, <1>4, <1>7, <2>1 DEF CountsRight
  <2>2. CASE v # w   BY <1>1, <1>4, <1>7, <2>2, SameCounts
  <2> QED  BY <2>1, <2>2
<1> QED  BY <1>6, <1>7, <1>12, <1>13 DEF ScanInv, s

(* The client leaves or the deadline passes: no slot changes, the cut is known. *)
LEMMA ContextEndsKeeps ==
    ASSUME NEW r, ScanInv(scan[r]), ClientLeaves(r) \/ DeadlinePasses(r)
    PROVE  \E t : ScanInv(t) /\ t.path = scan[r].path /\ scan' = [scan EXCEPT ![r] = t]
<1> DEFINE s == scan[r]
           gone == [s EXCEPT !.parent = "canceled",
                             !.ctx = IF @ = "live" THEN "canceled" ELSE @]
           late == [s EXCEPT !.ctx = "deadline"]
           Ended(t) == /\ t \in Scans /\ t.path = s.path /\ t.next = s.next
                       /\ t.result = s.result /\ t.walk = s.walk /\ Cut(t)
<1>1. ScanBase(s) /\ s \in Scans /\ \A v \in Workers : CountsRight(s, v)
  BY DEF ScanInv, ScanBase
<1>2. ASSUME NEW t, Ended(t)
      PROVE  ScanInv(t)
  <2> HIDE DEF s
  <2>1. SameWork(s, t)
    BY <1>2 DEF SameWork
  <2>2. ScanBase(t)
    BY <1>1, <1>2, <2>1, SameWorkIsTrue
  <2>3. \A v \in Workers : CountsRight(t, v)
    BY <1>1, <1>2, SameCounts
  <2> QED  BY <2>2, <2>3 DEF ScanInv
<1>3. CASE ClientLeaves(r)
  <2>1. scan' = [scan EXCEPT ![r] = gone]
    BY <1>3 DEF ClientLeaves
  <2>2. Ended(gone)
    <3> HIDE DEF s
    <3> QED  BY <1>1 DEF Scans, Cut
  <2> HIDE DEF gone
  <2> QED  BY <1>2, <2>1, <2>2
<1>4. CASE DeadlinePasses(r)
  <2>1. scan' = [scan EXCEPT ![r] = late]
    BY <1>4 DEF DeadlinePasses
  <2>2. Ended(late)
    <3> HIDE DEF s
    <3> QED  BY <1>1 DEF Scans, Cut
  <2> HIDE DEF late
  <2> QED  BY <1>2, <2>1, <2>2
<1> QED  BY <1>3, <1>4

(* A walk begins with empty slots and nothing taken. *)
LEMMA BegunIsTrue ==
    ASSUME NEW p \in Paths
    PROVE  ScanInv(Begun(p)) /\ Begun(p).path = p
<1> DEFINE t == Begun(p)
           walk == [w \in Workers |->
                      IF w <= Len(Tree[p]) THEN NoWalk ELSE [NoWalk EXCEPT !.at = "left"]]
           result == [c \in Children(p) |-> NoItem]
<1>1. Len(Tree[p]) \in Nat /\ Children(p) = 1 .. Len(Tree[p])
  BY TreeParts
<1>2. NoWalk \in Walks /\ [NoWalk EXCEPT !.at = "left"] \in Walks
      /\ NoWalk.at = "jobs" /\ [NoWalk EXCEPT !.at = "left"].at = "left"
  BY DEF NoWalk, Walks
<1>3. walk \in [Workers -> Walks]
  BY <1>2
<1>4. result \in Seq(Items) /\ DOMAIN result = Children(p)
  <2>1. result \in [1 .. Len(Tree[p]) -> Items]
    BY <1>1, SlotFields
  <2> QED  BY <1>1, <2>1
<1>5. \A w \in Workers : /\ walk[w].at \in {"jobs", "left"}
                         /\ w <= Len(Tree[p]) => walk[w].at = "jobs"
  BY <1>2
<1>6. \A c \in Children(p) : ~result[c].listed /\ 1 <= c
  BY <1>1, SlotFields
<1>7. t = [path |-> p, parent |-> "live", ctx |-> "live", next |-> 1,
           visited |-> 0, limitHit |-> FALSE, walk |-> walk, result |-> result]
  BY DEF Begun
<1> HIDE DEF t, walk, result
<1>8. /\ t \in Scans /\ t.path = p /\ t.ctx = "live" /\ t.next = 1
      /\ t.walk = walk /\ t.result = result
  BY <1>3, <1>4, <1>7 DEF Scans
<1>9. \A c \in Children(p) : SlotIsTrue(t, c)
  BY <1>1, <1>6, <1>8 DEF SlotIsTrue
<1>10. ScanBase(t)
  BY <1>4, <1>5, <1>8, <1>9 DEF ScanBase
<1>11. \A w \in Workers : CountsRight(t, w)
  BY <1>5, <1>8 DEF CountsRight
<1> QED  BY <1>8, <1>10, <1>11 DEF ScanInv, t

-----------------------------------------------------------------------------
(* What AnswersAreHonest says of one entry. *)
Honest(p, usage) ==
    LET shown == {item.child : item \in usage.items}
    IN  /\ \A item \in usage.items :
             ~item.incomplete => item.size = TrueSize(Tree[p][item.child])
        /\ ~usage.truncated /\ ~usage.skipped =>
             /\ \A item \in usage.items : ~item.incomplete
             /\ \A c \in Listable(p) \ shown :
                  /\ Cardinality(shown) = MaxItems
                  /\ \A d \in shown : TrueSize(Tree[p][d]) >= TrueSize(Tree[p][c])

LEMMA HonestEntries == AnswersAreHonest <=> \A p \in DOMAIN cache : Honest(p, cache[p].usage)
  BY DEF AnswersAreHonest, Honest

(* Once all workers have left, all children are taken. *)
LEMMA AllTaken ==
    ASSUME NEW s, ScanBase(s), \A w \in Workers : s.walk[w].at = "left"
    PROVE  s.next > Len(Tree[s.path])
<1>1. /\ s.path \in Paths /\ s.next \in Nat \ {0} /\ Len(Tree[s.path]) \in Nat
      /\ 1 \in Workers
  BY ScanParts, TreeParts, DiskUsageAssumption DEF ScanBase, Workers
<1>2. CASE 1 <= Len(Tree[s.path])
  BY <1>1, <1>2 DEF ScanBase
<1>3. CASE ~(1 <= Len(Tree[s.path]))
  BY <1>1, <1>3
<1> QED  BY <1>2, <1>3

(***************************************************************************)
(* The answer of a walk whose client has stayed to the end is honest.      *)
(***************************************************************************)
LEMMA UsageIsHonest ==
    ASSUME NEW s, ScanInv(s), \A w \in Workers : s.walk[w].at = "left",
           s.parent = "live"
    PROVE  /\ Honest(s.path, Usage(s))
           /\ Cardinality(Usage(s).items) <= MaxItems
           /\ Usage(s).skipped \in BOOLEAN /\ Usage(s).truncated \in BOOLEAN
<1> DEFINE p == s.path
           R == s.result
           T == Top(R)
           Item(c) == [child |-> c, size |-> R[c].size, incomplete |-> R[c].incomplete]
           items == Usage(s).items
           shown == {item.child : item \in items}
<1>1. /\ ScanBase(s) /\ R \in Seq(Items) /\ DOMAIN R = Children(p) /\ p \in Paths
      /\ s.next \in Nat \ {0} /\ s.limitHit \in BOOLEAN
      /\ \A c \in DOMAIN R : R[c] \in Items
  BY ScanParts DEF ScanInv, ScanBase
<1>2. items = {Item(c) : c \in T}
  BY DEF Usage, Largest
<1>3. T \subseteq Listed(R) /\ Listed(R) \subseteq Children(p)
  BY <1>1 DEF Top, Listed
<1>4. shown = T
  <2>1. \A c : Item(c).child = c
    OBVIOUS
  <2> HIDE DEF Item, T
  <2> QED  BY <1>2, <2>1
<1>5. ASSUME NEW item \in items, ~item.incomplete
      PROVE  item.size = TrueSize(Tree[p][item.child])
  <2>1. PICK c \in T : item = Item(c)
    BY <1>2
  <2>2. R[c].listed /\ SlotIsTrue(s, c)
    BY <1>1, <1>3 DEF Listed, ScanBase
  <2> QED  BY <1>5, <2>1, <2>2 DEF SlotIsTrue
<1>6. /\ Usage(s).truncated = (s.limitHit \/ s.ctx = "deadline")
      /\ Usage(s).skipped = (\E c \in DOMAIN R : R[c].skipped > 0)
  BY DEF Usage
<1>7. ASSUME ~Usage(s).truncated, ~Usage(s).skipped
      PROVE  /\ \A item \in items : ~item.incomplete
             /\ \A c \in Listable(p) \ shown :
                  /\ Cardinality(shown) = MaxItems
                  /\ \A d \in shown : TrueSize(Tree[p][d]) >= TrueSize(Tree[p][c])
  <2>1. ~Cut(s) /\ \A c \in Children(p) : ~(R[c].skipped > 0)
    BY <1>1, <1>6, <1>7 DEF Cut
  <2>2. \A c \in Children(p) : R[c].listed =>
          ~R[c].incomplete /\ R[c].size = TrueSize(Tree[p][c])
    BY <1>1, <2>1 DEF ScanBase, SlotIsTrue
  <2>3. Listable(p) \subseteq Listed(R)
    <3>1. SUFFICES ASSUME NEW c \in Listable(p)
                   PROVE  R[c].listed /\ c \in DOMAIN R
      BY DEF Listed
    <3>2. c \in Children(p) /\ c < s.next
      BY <1>1, AllTaken, TreeParts DEF Listable
    <3>3. SlotIsTrue(s, c)
      BY <1>1, <3>2 DEF ScanBase
    <3> QED  BY <1>1, <2>1, <3>2, <3>3 DEF SlotIsTrue
  <2>4. \A item \in items : ~item.incomplete
    BY <1>2, <1>3, <2>2 DEF Listed
  <2>5. ASSUME NEW c \in Listable(p) \ shown
        PROVE  /\ Cardinality(shown) = MaxItems
               /\ \A d \in shown : TrueSize(Tree[p][d]) >= TrueSize(Tree[p][c])
    <3>1. c \in Listed(R) \ T
      BY <1>4, <2>3, <2>5
    <3>2. Cardinality(T) = MaxItems /\ \A d \in T : R[d].size >= R[c].size
      BY <1>1, <3>1, TopIsLargest
    <3>3. \A d \in Listed(R) : R[d].size = TrueSize(Tree[p][d])
      BY <1>3, <2>2 DEF Listed
    <3> HIDE DEF T, shown, R, p
    <3> QED  BY <1>3, <1>4, <3>1, <3>2, <3>3
  <2> QED  BY <2>4, <2>5
<1>8. Honest(p, Usage(s))
  BY <1>5, <1>7 DEF Honest
<1>9. Cardinality(items) <= MaxItems
  <2>1. IsFiniteSet(T) /\ Cardinality(T) <= MaxItems /\ Cardinality(T) \in Nat
    BY <1>1, TopIsLargest
  <2>2. [c \in T |-> Item(c)] \in Surjection(T, items)
    BY <1>2 DEF Surjection
  <2>3. IsFiniteSet(items) /\ Cardinality(items) <= Cardinality(T)
    BY <2>1, <2>2, FS_Surjection
  <2>4. Cardinality(items) \in Nat
    BY <2>3, FS_CardinalityType
  <2> QED  BY <2>1, <2>3, <2>4, DiskUsageAssumption
<1> QED  BY <1>6, <1>8, <1>9

(***************************************************************************)
(* What the cache holds, with a clock that only goes forward.              *)
(***************************************************************************)
Entries(store, time) ==
    /\ DOMAIN store \subseteq Paths
    /\ IsFiniteSet(DOMAIN store) /\ Cardinality(DOMAIN store) <= CacheCap
    /\ \A p \in DOMAIN store :
         /\ store[p].at \in 0 .. time
         /\ {store[p].usage.skipped, store[p].usage.truncated} \subseteq BOOLEAN
         /\ Cardinality(store[p].usage.items) <= MaxItems
         /\ Honest(p, store[p].usage)

LEMMA EntriesWithout ==
    ASSUME NEW store, NEW time, Entries(store, time), NEW p
    PROVE  /\ Entries(Without(store, p), time)
           /\ DOMAIN Without(store, p) = DOMAIN store \ {p}
<1>1. /\ DOMAIN Without(store, p) = DOMAIN store \ {p}
      /\ \A q \in DOMAIN store \ {p} : Without(store, p)[q] = store[q]
  BY DEF Without, Restrict
<1>2. /\ IsFiniteSet(DOMAIN store \ {p})
      /\ Cardinality(DOMAIN store \ {p}) <= Cardinality(DOMAIN store)
      /\ Cardinality(DOMAIN store \ {p}) \in Nat /\ Cardinality(DOMAIN store) \in Nat
  BY FS_RemoveElement, FS_CardinalityType DEF Entries
<1>3. CacheCap \in Nat
  BY DiskUsageAssumption
<1> QED  BY <1>1, <1>2, <1>3 DEF Entries

(* A finite cache that is not empty has an oldest entry. *)
LEMMA OldestExists ==
    ASSUME NEW time \in Nat, Entries(cache, time), DOMAIN cache # {}
    PROVE  \E q \in DOMAIN cache : \A o \in DOMAIN cache : cache[q].at <= cache[o].at
<1> DEFINE ages == {cache[o].at : o \in DOMAIN cache}
<1>1. ages \subseteq Nat /\ ages # {}
  BY DEF Entries
<1>2. \E a \in ages : \A b \in ages : ~(<<b, a>> \in OpToRel(<, Nat))
  BY <1>1, NatLessThanWellFounded, WFMin
<1>3. PICK a \in ages : \A b \in ages : ~(<<b, a>> \in OpToRel(<, Nat))
  BY <1>2
<1>4. \A b \in ages : a <= b
  <2>1. \A m, n \in Nat : m < n => <<m, n>> \in OpToRel(<, Nat)
    BY DEF OpToRel
  <2> HIDE DEF ages
  <2>2. ASSUME NEW b \in ages
        PROVE  a <= b
    <3>1. a \in Nat /\ b \in Nat
      BY <1>1
    <3>2. ~(b < a)
      BY <1>3, <2>1, <3>1
    <3> QED  BY <3>1, <3>2
  <2> QED  BY <2>2
<1> QED  BY <1>4

LEMMA StoredEntries ==
    ASSUME Entries(cache, clock), clock \in Nat, NEW p \in Paths, NEW usage,
           Honest(p, usage), Cardinality(usage.items) <= MaxItems,
           usage.skipped \in BOOLEAN, usage.truncated \in BOOLEAN
    PROVE  Entries(Stored(p, usage), clock)
<1> DEFINE oldest == CHOOSE q \in DOMAIN cache :
                         \A o \in DOMAIN cache : cache[q].at <= cache[o].at
           full == Cardinality(DOMAIN cache) >= CacheCap
           kept == IF full THEN Without(cache, oldest) ELSE cache
           entry == [at |-> clock, usage |-> usage]
           store == With(kept, p, entry)
<1>1. Stored(p, usage) = store
  BY DEF Stored
<1>2. CacheCap \in Nat \ {0} /\ IsFiniteSet(DOMAIN cache)
      /\ Cardinality(DOMAIN cache) \in Nat /\ Cardinality(DOMAIN cache) <= CacheCap
  BY DiskUsageAssumption, FS_CardinalityType DEF Entries
<1>3. /\ Entries(kept, clock) /\ IsFiniteSet(DOMAIN kept)
      /\ Cardinality(DOMAIN kept) \in Nat /\ Cardinality(DOMAIN kept) < CacheCap
  <2>1. CASE full
    <3>1. DOMAIN cache # {}
      BY <1>2, <2>1, FS_EmptySet
    <3>2. oldest \in DOMAIN cache
      BY <3>1, OldestExists
    <3> HIDE DEF oldest
    <3>3. Entries(Without(cache, oldest), clock)
          /\ DOMAIN Without(cache, oldest) = DOMAIN cache \ {oldest}
      BY EntriesWithout
    <3>4. /\ IsFiniteSet(DOMAIN cache \ {oldest})
          /\ Cardinality(DOMAIN cache \ {oldest}) = Cardinality(DOMAIN cache) - 1
      BY <1>2, <3>2, FS_RemoveElement
    <3>5. Cardinality(DOMAIN cache \ {oldest}) \in Nat
      BY <3>4, FS_CardinalityType
    <3> QED  BY <1>2, <2>1, <3>3, <3>4, <3>5
  <2>2. CASE ~full
    BY <1>2, <2>2
  <2> QED  BY <2>1, <2>2
<1> HIDE DEF kept, entry
<1>4. /\ DOMAIN store = DOMAIN kept \cup {p} /\ store[p] = entry
      /\ \A q \in DOMAIN kept \ {p} : store[q] = kept[q]
  BY DEF With
<1>5. entry.at = clock /\ entry.usage = usage
  BY DEF entry
<1>6. /\ IsFiniteSet(DOMAIN kept \cup {p})
      /\ Cardinality(DOMAIN kept \cup {p}) <= CacheCap
  <2>1. /\ IsFiniteSet(DOMAIN kept \cup {p})
        /\ Cardinality(DOMAIN kept \cup {p}) =
             IF p \in DOMAIN kept THEN Cardinality(DOMAIN kept)
                                  ELSE Cardinality(DOMAIN kept) + 1
    BY <1>3, FS_AddElement
  <2> QED  BY <1>2, <1>3, <2>1
<1> HIDE DEF store
<1>7. Entries(store, clock)
  BY <1>3, <1>4, <1>5, <1>6 DEF Entries
<1> QED  BY <1>1, <1>7

-----------------------------------------------------------------------------
Scanning ==
    DOMAIN scan \subseteq Requests /\ \A r \in DOMAIN scan : ScanInv(scan[r])

DiskInv == clock \in 0 .. MaxTime /\ Entries(cache, clock) /\ Scanning

(* One walk goes on, the others wait. *)
LEMMA OneGoesOn ==
    ASSUME Scanning, NEW r \in DOMAIN scan,
           \E t : ScanInv(t) /\ t.path = scan[r].path /\ scan' = [scan EXCEPT ![r] = t]
    PROVE  Scanning'
<1>1. PICK t : ScanInv(t) /\ scan' = [scan EXCEPT ![r] = t]
  OBVIOUS
<1>2. /\ DOMAIN scan' = DOMAIN scan /\ scan'[r] = t
      /\ \A q \in DOMAIN scan \ {r} : scan'[q] = scan[q]
  BY <1>1
<1>3. \A q \in DOMAIN scan' : ScanInv(scan'[q])
  BY <1>1, <1>2 DEF Scanning
<1> QED  BY <1>2, <1>3 DEF Scanning

LEMMA AskKeeps ==
    ASSUME DiskInv, NEW r \in Requests, NEW p \in Paths, Ask(r, p)
    PROVE  DiskInv'
<1>1. clock' = clock /\ Entries(cache', clock')
  BY EntriesWithout DEF DiskInv, Ask
<1>2. CASE scan' = scan
  BY <1>1, <1>2 DEF DiskInv, Scanning
<1>3. CASE scan' = With(scan, r, Begun(p))
  <2>1. /\ DOMAIN scan' = DOMAIN scan \cup {r} /\ scan'[r] = Begun(p)
        /\ \A q \in DOMAIN scan \ {r} : scan'[q] = scan[q]
    BY <1>3 DEF With
  <2>2. ScanInv(Begun(p))
    BY BegunIsTrue
  <2>3. \A q \in DOMAIN scan' : ScanInv(scan'[q])
    BY <2>1, <2>2 DEF DiskInv, Scanning
  <2>4. DOMAIN scan' \subseteq Requests
    BY <2>1 DEF DiskInv, Scanning
  <2> QED  BY <1>1, <2>3, <2>4 DEF DiskInv, Scanning
<1> QED  BY <1>2, <1>3 DEF Ask

LEMMA ScanReturnsKeeps ==
    ASSUME DiskInv, NEW r \in Requests, ScanReturns(r)
    PROVE  DiskInv'
<1>1. /\ r \in DOMAIN scan /\ \A w \in Workers : scan[r].walk[w].at = "left"
      /\ scan' = Without(scan, r) /\ clock' = clock
  BY DEF ScanReturns, Returned
<1>2. ScanInv(scan[r]) /\ clock \in Nat /\ scan[r].path \in Paths
  BY <1>1, ScanParts DEF DiskInv, Scanning, ScanInv, ScanBase
<1>3. Entries(cache', clock)
  <2>1. CASE scan[r].parent = "live"
    <3>1. /\ Honest(scan[r].path, Usage(scan[r]))
          /\ Cardinality(Usage(scan[r]).items) <= MaxItems
          /\ Usage(scan[r]).skipped \in BOOLEAN /\ Usage(scan[r]).truncated \in BOOLEAN
      BY <1>1, <1>2, <2>1, UsageIsHonest
    <3>2. Entries(Stored(scan[r].path, Usage(scan[r])), clock)
      BY <1>2, <3>1, StoredEntries DEF DiskInv
    <3> QED  BY <2>1, <3>2 DEF ScanReturns
  <2>2. CASE scan[r].parent # "live"
    BY <2>2 DEF ScanReturns, DiskInv
  <2> QED  BY <2>1, <2>2
<1>4. /\ DOMAIN scan' = DOMAIN scan \ {r}
      /\ \A q \in DOMAIN scan \ {r} : scan'[q] = scan[q]
  BY <1>1 DEF Without, Restrict
<1> QED  BY <1>1, <1>3, <1>4 DEF DiskInv, Scanning

LEMMA ClockKeeps ==
    ASSUME DiskInv, ClockAdvances
    PROVE  DiskInv'
<1>1. /\ clock \in 0 .. MaxTime /\ clock' \in 0 .. MaxTime /\ clock <= clock'
      /\ cache' = cache /\ scan' = scan
  BY DiskUsageAssumption DEF DiskInv, ClockAdvances
<1>2. \A p \in DOMAIN cache : cache[p].at \in 0 .. clock'
  BY <1>1 DEF DiskInv, Entries
<1>3. Entries(cache', clock')
  BY <1>1, <1>2 DEF DiskInv, Entries
<1> QED  BY <1>1, <1>3 DEF DiskInv, Scanning

LEMMA DiskInvHolds == DiskSpec => []DiskInv
<1>1. ASSUME DiskInit
      PROVE  DiskInv
  <2>1. /\ DOMAIN cache = {} /\ DOMAIN scan = {} /\ clock = 0
    BY <1>1 DEF DiskInit
  <2>2. Entries(cache, clock)
    BY <2>1, FS_EmptySet, DiskUsageAssumption DEF Entries
  <2> QED  BY <2>1, <2>2, DiskUsageAssumption DEF DiskInv, Scanning
<1>2. ASSUME DiskInv, [DiskNext]_usageVars
      PROVE  DiskInv'
  <2>1. CASE ClockAdvances
    BY <1>2, <2>1, ClockKeeps
  <2>2. ASSUME NEW r \in Requests, NEW p \in Paths, Ask(r, p)
        PROVE  DiskInv'
    BY <1>2, <2>2, AskKeeps
  <2>3. ASSUME NEW r \in Requests, ClientLeaves(r) \/ DeadlinePasses(r)
        PROVE  DiskInv'
    <3>1. r \in DOMAIN scan /\ UNCHANGED <<clock, cache>>
      BY <2>3 DEF ClientLeaves, DeadlinePasses
    <3>2. Scanning'
      BY <1>2, <2>3, <3>1, ContextEndsKeeps, OneGoesOn DEF DiskInv, Scanning
    <3> QED  BY <1>2, <3>1, <3>2 DEF DiskInv
  <2>4. ASSUME NEW r \in Requests, ScanReturns(r)
        PROVE  DiskInv'
    BY <1>2, <2>4, ScanReturnsKeeps
  <2>5. ASSUME NEW r \in Requests, NEW w \in Workers, WorkerStep(r, w)
        PROVE  DiskInv'
    <3>1. r \in DOMAIN scan /\ UNCHANGED <<clock, cache>>
      BY <2>5 DEF WorkerStep, TakeJob, Visit, WorkerLeaves
    <3>2. ScanInv(scan[r])
      BY <1>2, <3>1 DEF DiskInv, Scanning
    <3>3. \E t : ScanInv(t) /\ t.path = scan[r].path /\ scan' = [scan EXCEPT ![r] = t]
      BY <2>5, <3>2, TakeJobKeeps, VisitKeeps, WorkerLeavesKeeps DEF WorkerStep
    <3>4. Scanning'
      BY <1>2, <3>1, <3>3, OneGoesOn DEF DiskInv
    <3> QED  BY <1>2, <3>1, <3>4 DEF DiskInv
  <2>6. CASE UNCHANGED usageVars
    BY <1>2, <2>6 DEF DiskInv, Scanning, usageVars
  <2> QED  BY <1>2, <2>1, <2>2, <2>3, <2>4, <2>5, <2>6 DEF DiskNext
<1> QED  BY <1>1, <1>2, PTL DEF DiskSpec

(***************************************************************************)
(* Whatever cut a walk short, what is cached and answered says what it     *)
(* lacks, for any tree, number of workers and requests, and limits         *)
(* (scanDiskChildren, measureDiskItem, DiskUsage).                         *)
(***************************************************************************)
THEOREM CachedUsageIsHonest == DiskSpec => []AnswersAreHonest
<1>1. DiskInv => AnswersAreHonest
  BY HonestEntries DEF DiskInv, Entries
<1> QED  BY <1>1, DiskInvHolds, PTL

(***************************************************************************)
(* The types: a cache that never holds more than diskBreakdownCacheCap     *)
(* entries of at most diskBreakdownItems items, none from the future.      *)
(***************************************************************************)
THEOREM DiskTypeCorrect == DiskSpec => []DiskTypeOK
<1>1. DiskInv => DiskTypeOK
  BY DEF DiskInv, Entries, Scanning, ScanInv, ScanBase, DiskTypeOK
<1> QED  BY <1>1, DiskInvHolds, PTL
=============================================================================
