----------------------------- MODULE StoreProofs -----------------------------
(***************************************************************************)
(* What the history store guarantees for any mounts, retention, buffer and *)
(* number of requests: the two tables agree, no snapshot is written twice, *)
(* and the points of a request show the disks of their samples.  None of   *)
(* it depends on the clock, which may go where it likes.                   *)
(***************************************************************************)
EXTENDS Store, TLAPS

(* Every step is one of the pump's, or touches neither the pump nor a table. *)
LEMMA StepCases ==
    ASSUME [StoreNext]_vars
    PROVE  \/ Sample \/ PumpReceives \/ PumpPersists \/ PumpPrunes
           \/ Insert \/ Prune \/ Restart
           \/ UNCHANGED <<taken, chan, pump, latest, fresh, tables>>
<1>1. CASE ClockAdvances
  BY <1>1 DEF ClockAdvances, pumpVars
<1>2. CASE ClockIsSet
  BY <1>2 DEF ClockIsSet, pumpVars
<1>3. ASSUME NEW q \in Queries, Ask(q) \/ QueryStep(q) \/ GivesUp(q)
      PROVE  UNCHANGED <<taken, chan, pump, latest, fresh, tables>>
  <2>1. CASE Ask(q)            BY <2>1 DEF Ask, pumpVars
  <2>2. CASE SelectSamples(q)  BY <2>2 DEF SelectSamples, pumpVars
  <2>3. CASE PointsRead(q)     BY <2>3 DEF PointsRead, pumpVars
  <2>4. CASE SelectDisks(q)    BY <2>4 DEF SelectDisks, pumpVars
  <2>5. CASE Answered(q)       BY <2>5 DEF Answered, pumpVars
  <2>6. CASE GivesUp(q)        BY <2>6 DEF GivesUp, pumpVars
  <2> QED  BY <1>3, <2>1, <2>2, <2>3, <2>4, <2>5, <2>6 DEF QueryStep
<1>4. CASE UNCHANGED vars
  BY <1>4 DEF vars, pumpVars
<1> QED  BY <1>1, <1>2, <1>3, <1>4 DEF StoreNext, PersistLoop

(* Only Insert and Prune write, each in one transaction. *)
LEMMA OnlyTransactionsWrite ==
    ASSUME [StoreNext]_vars
    PROVE  \/ /\ samples' = WithSample(samples, latest)
              /\ disks' = WithDisks(disks, latest)
              /\ inserted' = latest.n
              /\ pump = "insert"
           \/ /\ samples' = {r \in samples : r.ts >= cutoff}
              /\ disks' = {r \in disks : r.ts >= cutoff}
              /\ inserted' = inserted
           \/ UNCHANGED tables
<1>1. CASE Sample        BY <1>1 DEF Sample
<1>2. CASE PumpReceives  BY <1>2 DEF PumpReceives
<1>3. CASE PumpPersists  BY <1>3 DEF PumpPersists
<1>4. CASE PumpPrunes    BY <1>4 DEF PumpPrunes
<1>5. CASE Insert        BY <1>5 DEF Insert
<1>6. CASE Prune         BY <1>6 DEF Prune, tables
<1>7. CASE Restart       BY <1>7 DEF Restart
<1>8. CASE UNCHANGED <<taken, chan, pump, latest, fresh, tables>>
  BY <1>8
<1> QED
  BY StepCases, <1>1, <1>2, <1>3, <1>4, <1>5, <1>6, <1>7, <1>8

(* A committed Insert replaces the rows of its timestamp in both tables. *)
LEMMA InsertAgrees ==
    ASSUME NEW rows, NEW diskRows, NEW s,
           \A r \in rows : \A m \in r.mounts :
               [ts |-> r.ts, mount |-> m, n |-> r.n] \in diskRows,
           \A d \in diskRows : \E r \in rows : r.ts = d.ts
    PROVE  /\ \A r \in WithSample(rows, s) : \A m \in r.mounts :
                [ts |-> r.ts, mount |-> m, n |-> r.n] \in WithDisks(diskRows, s)
           /\ \A d \in WithDisks(diskRows, s) :
                \E r \in WithSample(rows, s) : r.ts = d.ts
<1>1. ASSUME NEW r \in WithSample(rows, s), NEW m \in r.mounts
      PROVE  [ts |-> r.ts, mount |-> m, n |-> r.n] \in WithDisks(diskRows, s)
  <2>1. CASE r = s
    BY <1>1, <2>1 DEF WithDisks
  <2>2. CASE r \in rows /\ r.ts # s.ts
    BY <1>1, <2>2 DEF WithDisks
  <2> QED  BY <1>1, <2>1, <2>2 DEF WithSample
<1>2. ASSUME NEW d \in WithDisks(diskRows, s)
      PROVE  \E r \in WithSample(rows, s) : r.ts = d.ts
  <2>1. CASE d.ts = s.ts
    BY <2>1 DEF WithSample
  <2>2. CASE d.ts # s.ts
    <3>1. d \in diskRows
      BY <1>2, <2>2 DEF WithDisks
    <3>2. PICK r \in rows : r.ts = d.ts
      BY <3>1
    <3> QED  BY <2>2, <3>2 DEF WithSample
  <2> QED  BY <2>1, <2>2
<1> QED  BY <1>1, <1>2

(***************************************************************************)
(* Every stored sample has the row of each of its disks and every disk row *)
(* a stored timestamp, over failed statements, repeated timestamps, prunes *)
(* and restarts (Insert and Prune, one transaction each).                  *)
(***************************************************************************)
THEOREM TablesStayTogether == StoreSpec => []TablesAgree
<1>1. ASSUME StoreInit
      PROVE  TablesAgree
  BY <1>1 DEF StoreInit, TablesAgree
<1>2. ASSUME TablesAgree, [StoreNext]_vars
      PROVE  TablesAgree'
  <2>1. CASE /\ samples' = WithSample(samples, latest)
             /\ disks' = WithDisks(disks, latest)
    BY <1>2, <2>1, InsertAgrees DEF TablesAgree
  <2>2. CASE /\ samples' = {r \in samples : r.ts >= cutoff}
             /\ disks' = {r \in disks : r.ts >= cutoff}
    BY <1>2, <2>2 DEF TablesAgree
  <2>3. CASE UNCHANGED tables
    BY <1>2, <2>3 DEF TablesAgree, tables
  <2> QED  BY <1>2, <2>1, <2>2, <2>3, OnlyTransactionsWrite
<1> QED  BY <1>1, <1>2, PTL DEF StoreSpec

-----------------------------------------------------------------------------
(* The type invariant in three parts that few actions touch together. *)
PumpType ==
    /\ now \in Times /\ taken \in 0 .. MaxSamples
    /\ chan \in Seq(Snapshots) /\ Len(chan) <= SubscriberBuffer
    /\ pump \in {"loop", "insert", "prune"}
    /\ latest \in Snapshots \cup {NoSnapshot} /\ fresh \in BOOLEAN
    /\ cutoff \in Int

TableType ==
    /\ samples \subseteq Snapshots
    /\ \A r, s \in samples : r.ts = s.ts => r = s
    /\ disks \subseteq DiskRows
    /\ \A r, s \in disks : r.ts = s.ts /\ r.mount = s.mount => r = s
    /\ inserted \in 0 .. MaxSamples

QueryType ==
    /\ conn \in Queries \cup {"free"}
    /\ query \in [Queries -> {"idle", "select", "points", "merge", "disks"}]
    /\ window \in [Queries -> [since : Int, until : Times]]
    /\ seen \in [Queries -> SUBSET Times]
    /\ shown \in [Queries -> SUBSET (Int \X Mounts)]

BoundType == steps \in 0 .. MaxSteps /\ restarts \in 0 .. MaxRestarts

LEMMA TypeParts ==
    StoreTypeOK <=> PumpType /\ TableType /\ QueryType /\ BoundType
  BY DEF StoreTypeOK, PumpType, TableType, QueryType, BoundType

(***************************************************************************)
(* The way of a snapshot to the tables: what waits in the channel is newer *)
(* than what the pump holds, and that is newer than what was committed as  *)
(* long as it awaits Insert.                                               *)
(***************************************************************************)
Pipeline ==
    /\ inserted <= taken /\ latest.n <= taken
    /\ \A i \in 1 .. Len(chan) :
         latest.n < chan[i].n /\ inserted < chan[i].n /\ chan[i].n <= taken
    /\ \A i, j \in 1 .. Len(chan) : i < j => chan[i].n < chan[j].n
    /\ fresh \/ pump = "insert" => latest \in Snapshots /\ inserted < latest.n
    /\ pump = "insert" => ~fresh

LEMMA LatestHasNumber ==
    ASSUME PumpType
    PROVE  latest.n \in Nat
  BY StoreAssumption DEF PumpType, Snapshots, NoSnapshot

(* Types of clock, channel and pump. *)
LEMMA PumpTypeStep ==
    ASSUME PumpType, BoundType, [StoreNext]_vars
    PROVE  PumpType'
<1> USE StoreAssumption DEF PumpType, Times
<1>1. CASE ClockAdvances  BY <1>1 DEF ClockAdvances, pumpVars
<1>2. CASE ClockIsSet     BY <1>2 DEF ClockIsSet, pumpVars
<1>3. CASE Sample
  <2>1. PICK up \in SUBSET Mounts :
          chan' = IF Len(chan) < SubscriberBuffer
                  THEN Append(chan, [ts |-> now, n |-> taken + 1, mounts |-> up])
                  ELSE chan
    BY <1>3 DEF Sample
  <2>2. [ts |-> now, n |-> taken + 1, mounts |-> up] \in Snapshots
    BY <1>3 DEF Sample, Snapshots
  <2>3. chan' \in Seq(Snapshots) /\ Len(chan') <= SubscriberBuffer
    BY <2>1, <2>2
  <2> QED  BY <1>3, <2>3 DEF Sample
<1>4. CASE PumpReceives
  <2>1. Head(chan) \in Snapshots /\ Tail(chan) \in Seq(Snapshots)
        /\ Len(Tail(chan)) <= SubscriberBuffer
    BY <1>4 DEF PumpReceives
  <2> QED  BY <1>4, <2>1 DEF PumpReceives
<1>5. CASE PumpPersists  BY <1>5 DEF PumpPersists
<1>6. CASE PumpPrunes    BY <1>6 DEF PumpPrunes
<1>7. CASE Insert        BY <1>7 DEF Insert
<1>8. CASE Prune         BY <1>8 DEF Prune
<1>9. CASE Restart
  <2>1. chan' = <<>> /\ now' = now /\ taken' = taken
    BY <1>9 DEF Restart
  <2>2. chan' \in Seq(Snapshots) /\ Len(chan') <= SubscriberBuffer
    BY <2>1
  <2>3. now' \in Times /\ taken' \in 0 .. MaxSamples
    BY <2>1
  <2>4. /\ pump' \in {"loop", "insert", "prune"}
        /\ latest' \in Snapshots \cup {NoSnapshot} /\ fresh' \in BOOLEAN
    BY <1>9 DEF Restart
  <2>5. cutoff' \in Int
    BY <1>9 DEF Restart
  <2> QED  BY <2>2, <2>3, <2>4, <2>5
<1>10. ASSUME NEW q \in Queries, Ask(q) \/ QueryStep(q) \/ GivesUp(q)
       PROVE  PumpType'
  <2>1. UNCHANGED <<now, taken, pumpVars>>
    BY <1>10
    DEF Ask, QueryStep, SelectSamples, PointsRead, SelectDisks, Answered, GivesUp
  <2> QED  BY <2>1 DEF pumpVars
<1>11. CASE UNCHANGED vars  BY <1>11 DEF vars, pumpVars
<1> QED
  BY <1>1, <1>2, <1>3, <1>4, <1>5, <1>6, <1>7, <1>8, <1>9, <1>10, <1>11
  DEF StoreNext, PersistLoop

(* Types of the tables and their primary keys. *)
LEMMA TableTypeStep ==
    ASSUME PumpType, TableType, Pipeline, [StoreNext]_vars
    PROVE  TableType'
<1> USE DEF TableType
<1>1. CASE /\ samples' = WithSample(samples, latest)
           /\ disks' = WithDisks(disks, latest)
           /\ inserted' = latest.n
           /\ pump = "insert"
  <2>1. latest \in Snapshots
    BY <1>1 DEF Pipeline
  <2>2. /\ samples' \subseteq Snapshots
        /\ \A r, s \in samples' : r.ts = s.ts => r = s
    BY <1>1, <2>1 DEF WithSample
  <2>3. disks' \subseteq DiskRows
    BY <1>1, <2>1 DEF WithDisks, DiskRows, Snapshots
  <2>4. \A r, s \in disks' : r.ts = s.ts /\ r.mount = s.mount => r = s
    BY <1>1, <2>1 DEF WithDisks
  <2>5. inserted' \in 0 .. MaxSamples
    BY <1>1, <2>1, StoreAssumption DEF Snapshots
  <2> QED  BY <2>2, <2>3, <2>4, <2>5
<1>2. CASE /\ samples' = {r \in samples : r.ts >= cutoff}
           /\ disks' = {r \in disks : r.ts >= cutoff}
           /\ inserted' = inserted
  BY <1>2
<1>3. CASE UNCHANGED tables
  BY <1>3 DEF tables
<1> QED  BY <1>1, <1>2, <1>3, OnlyTransactionsWrite

(* What the order of the numbers depends on. *)
LEMMA Numbers ==
    ASSUME PumpType, TableType
    PROVE  /\ latest.n \in Nat /\ taken \in Nat /\ inserted \in Nat
           /\ chan \in Seq(Snapshots) /\ Len(chan) \in Nat
           /\ \A i \in 1 .. Len(chan) : chan[i] \in Snapshots /\ chan[i].n \in Nat
<1>1. latest.n \in Nat
  BY LatestHasNumber
<1>2. taken \in Nat /\ inserted \in Nat
  BY StoreAssumption DEF PumpType, TableType
<1>3. chan \in Seq(Snapshots) /\ Len(chan) \in Nat
  BY DEF PumpType
<1>4. ASSUME NEW i \in 1 .. Len(chan)
      PROVE  chan[i] \in Snapshots /\ chan[i].n \in Nat
  <2>1. chan[i] \in Snapshots
    BY <1>3
  <2> QED  BY <2>1, StoreAssumption DEF Snapshots
<1> QED  BY <1>1, <1>2, <1>3, <1>4

(* A snapshot that enters the channel is the newest. *)
LEMMA SampleKeepsOrder ==
    ASSUME PumpType, TableType, Pipeline, Sample
    PROVE  Pipeline'
<1> DEFINE s(up) == [ts |-> now, n |-> taken + 1, mounts |-> up]
<1>1. PICK up \in SUBSET Mounts :
        chan' = IF Len(chan) < SubscriberBuffer THEN Append(chan, s(up)) ELSE chan
  BY DEF Sample
<1>2. /\ taken' = taken + 1 /\ latest' = latest /\ fresh' = fresh
      /\ pump' = pump /\ inserted' = inserted
  BY DEF Sample, tables
<1>3. CASE chan' = chan
  BY <1>2, <1>3, Numbers DEF Pipeline
<1>4. CASE chan' = Append(chan, s(up))
  <2>1. /\ Len(chan') = Len(chan) + 1 /\ chan'[Len(chan) + 1] = s(up)
        /\ \A i \in 1 .. Len(chan) : chan'[i] = chan[i]
    BY <1>4, Numbers
  <2>2. s(up).n = taken + 1
    OBVIOUS
  <2>3. inserted' <= taken' /\ latest'.n <= taken'
    BY <1>2, Numbers DEF Pipeline
  <2>4. ASSUME NEW i \in 1 .. Len(chan')
        PROVE  /\ latest'.n < chan'[i].n /\ inserted' < chan'[i].n
               /\ chan'[i].n <= taken'
    <3>1. CASE i \in 1 .. Len(chan)
      BY <1>2, <2>1, <3>1, Numbers DEF Pipeline
    <3>2. CASE i = Len(chan) + 1
      BY <1>2, <2>1, <2>2, <3>2, Numbers DEF Pipeline
    <3> QED  BY <2>1, <3>1, <3>2, Numbers
  <2>5. ASSUME NEW i \in 1 .. Len(chan'), NEW j \in 1 .. Len(chan'), i < j
        PROVE  chan'[i].n < chan'[j].n
    <3>1. i \in 1 .. Len(chan) /\ chan'[i].n = chan[i].n /\ chan[i].n <= taken
      BY <2>1, <2>5, Numbers DEF Pipeline
    <3>2. CASE j \in 1 .. Len(chan)
      BY <2>1, <2>5, <3>1, <3>2 DEF Pipeline
    <3>3. CASE j = Len(chan) + 1
      BY <2>1, <2>2, <3>1, <3>3, Numbers
    <3> QED  BY <2>1, <3>2, <3>3, Numbers
  <2> QED  BY <1>2, <2>3, <2>4, <2>5 DEF Pipeline
<1> QED  BY <1>1, <1>3, <1>4

(* What the pump takes over is newer than what it wrote, and oldest in line. *)
LEMMA ReceiveKeepsOrder ==
    ASSUME PumpType, TableType, Pipeline, PumpReceives
    PROVE  Pipeline'
<1>1. /\ pump = "loop" /\ fresh' = TRUE /\ taken' = taken /\ pump' = pump
      /\ inserted' = inserted /\ chan # <<>> /\ latest' = Head(chan)
      /\ chan' = Tail(chan)
  BY DEF PumpReceives, tables
<1>2. /\ latest' = chan[1] /\ Len(chan) >= 1 /\ Len(chan') = Len(chan) - 1
      /\ \A i \in 1 .. Len(chan') : chan'[i] = chan[i + 1]
  BY <1>1, Numbers
<1>3. 1 \in 1 .. Len(chan) /\ \A i \in 1 .. Len(chan') : i + 1 \in 1 .. Len(chan)
  BY <1>2, Numbers
<1>4. inserted' <= taken' /\ latest'.n <= taken'
  BY <1>1, <1>2, <1>3 DEF Pipeline
<1>5. ASSUME NEW i \in 1 .. Len(chan')
      PROVE  /\ latest'.n < chan'[i].n /\ inserted' < chan'[i].n
             /\ chan'[i].n <= taken'
  <2>1. chan'[i] = chan[i + 1] /\ i + 1 \in 1 .. Len(chan) /\ 1 < i + 1
    BY <1>2, <1>3, Numbers
  <2> QED  BY <1>1, <1>2, <1>3, <2>1 DEF Pipeline
<1>6. ASSUME NEW i \in 1 .. Len(chan'), NEW j \in 1 .. Len(chan'), i < j
      PROVE  chan'[i].n < chan'[j].n
  <2>1. i + 1 < j + 1 /\ i + 1 \in 1 .. Len(chan) /\ j + 1 \in 1 .. Len(chan)
    BY <1>3, <1>6
  <2> QED  BY <1>2, <2>1 DEF Pipeline
<1>7. latest' \in Snapshots /\ inserted' < latest'.n
  BY <1>1, <1>2, <1>3, Numbers DEF Pipeline
<1> QED  BY <1>1, <1>4, <1>5, <1>6, <1>7 DEF Pipeline

(* The numbers stay in order. *)
LEMMA PipelineStep ==
    ASSUME PumpType, TableType, Pipeline, [StoreNext]_vars
    PROVE  Pipeline'
<1>1. CASE Sample        BY <1>1, SampleKeepsOrder
<1>2. CASE PumpReceives  BY <1>2, ReceiveKeepsOrder
<1>3. CASE PumpPersists
  BY <1>3 DEF Pipeline, PumpPersists, tables
<1>4. CASE PumpPrunes
  BY <1>4 DEF Pipeline, PumpPrunes, tables
<1>5. CASE Insert
  <2>1. /\ taken' = taken /\ chan' = chan /\ latest' = latest /\ fresh' = fresh
        /\ pump = "insert" /\ pump' = "loop"
        /\ inserted' = latest.n \/ inserted' = inserted
    BY <1>5 DEF Insert, tables
  <2> QED  BY <2>1, Numbers DEF Pipeline
<1>6. CASE Prune
  BY <1>6 DEF Pipeline, Prune
<1>7. CASE Restart
  <2>1. /\ taken' = taken /\ chan' = <<>> /\ latest'.n = 0 /\ fresh' = FALSE
        /\ pump' = "prune" /\ inserted' = inserted
    BY <1>7 DEF Restart, NoSnapshot, tables
  <2>2. Len(chan') = 0
    BY <2>1
  <2> QED  BY <2>1, <2>2, Numbers DEF Pipeline
<1>8. CASE UNCHANGED <<taken, chan, pump, latest, fresh, tables>>
  BY <1>8 DEF Pipeline, tables
<1> QED
  BY StepCases, <1>1, <1>2, <1>3, <1>4, <1>5, <1>6, <1>7, <1>8

(* Types of the requests and of who holds the connection. *)
LEMMA QueryTypeStep ==
    ASSUME PumpType, TableType, QueryType, [StoreNext]_vars
    PROVE  QueryType'
<1> USE StoreAssumption DEF QueryType
<1>1. CASE UNCHANGED queryVars
  BY <1>1 DEF queryVars
<1>2. ASSUME NEW q \in Queries, Ask(q)
      PROVE  QueryType'
  <2>1. [since |-> now - Dur, until |-> now] \in [since : Int, until : Times]
    BY DEF PumpType, Times
  <2> QED  BY <1>2, <2>1 DEF Ask
<1>3. ASSUME NEW q \in Queries, SelectSamples(q)
      PROVE  QueryType'
  <2>1. {r.ts : r \in {s \in samples : Within(s.ts, window[q])}} \subseteq Times
    BY DEF TableType, Snapshots
  <2> QED  BY <1>3, <2>1 DEF SelectSamples
<1>4. ASSUME NEW q \in Queries, Forget(q), conn' \in Queries \cup {"free"}
      PROVE  QueryType'
  <2>1. NoWindow \in [since : Int, until : Times]
    BY DEF NoWindow, Times
  <2> QED  BY <1>4, <2>1 DEF Forget
<1>5. ASSUME NEW q \in Queries, PointsRead(q)
      PROVE  QueryType'
  BY <1>4, <1>5 DEF PointsRead
<1>6. ASSUME NEW q \in Queries, SelectDisks(q)
      PROVE  QueryType'
  <2>1. \A r \in disks : <<BucketOf(r.ts), r.mount>> \in Int \X Mounts
    BY DEF TableType, DiskRows, Times, BucketOf
  <2> QED  BY <1>6, <2>1 DEF SelectDisks
<1>7. ASSUME NEW q \in Queries, Answered(q)
      PROVE  QueryType'
  BY <1>4, <1>7 DEF Answered
<1>8. ASSUME NEW q \in Queries, GivesUp(q)
      PROVE  QueryType'
  BY <1>4, <1>8 DEF GivesUp
<1>9. CASE Restart
  <2>1. NoWindow \in [since : Int, until : Times]
    BY DEF NoWindow, Times
  <2> QED  BY <1>9, <2>1 DEF Restart
<1>10. CASE ClockAdvances \/ ClockIsSet \/ Sample \/ PersistLoop
  BY <1>1, <1>10
  DEF ClockAdvances, ClockIsSet, Sample, PersistLoop, PumpReceives, PumpPersists,
      PumpPrunes, Insert, Prune
<1>11. CASE UNCHANGED vars
  BY <1>1, <1>11 DEF vars, queryVars
<1> QED
  BY <1>2, <1>3, <1>5, <1>6, <1>7, <1>8, <1>9, <1>10, <1>11
  DEF StoreNext, QueryStep

(* The bounds of the model are kept. *)
LEMMA BoundTypeStep ==
    ASSUME BoundType, [StoreNext]_vars
    PROVE  BoundType'
<1> USE StoreAssumption DEF BoundType
<1>1. CASE UNCHANGED bounds
  BY <1>1 DEF bounds
<1>2. CASE ClockIsSet  BY <1>2 DEF ClockIsSet
<1>3. CASE Restart     BY <1>3 DEF Restart
<1>4. CASE ClockAdvances \/ Sample \/ PersistLoop
  BY <1>1, <1>4
  DEF ClockAdvances, Sample, PersistLoop, PumpReceives, PumpPersists, PumpPrunes,
      Insert, Prune
<1>5. ASSUME NEW q \in Queries, Ask(q) \/ QueryStep(q) \/ GivesUp(q)
      PROVE  BoundType'
  BY <1>1, <1>5
  DEF Ask, QueryStep, SelectSamples, PointsRead, SelectDisks, Answered, GivesUp
<1>6. CASE UNCHANGED vars
  BY <1>1, <1>6 DEF vars, bounds
<1> QED  BY <1>2, <1>3, <1>4, <1>5, <1>6 DEF StoreNext

StoreInv == StoreTypeOK /\ Pipeline

(* The invariant both results below rest on. *)
LEMMA InvHolds == StoreSpec => []StoreInv
<1>1. ASSUME StoreInit
      PROVE  StoreInv
  <2> USE <1>1, StoreAssumption DEF StoreInit
  <2>1. PumpType
    <3>1. chan = <<>> /\ chan \in Seq(Snapshots) /\ Len(chan) <= SubscriberBuffer
      OBVIOUS
    <3>2. now \in Times /\ taken \in 0 .. MaxSamples /\ cutoff \in Int
      BY DEF Times
    <3> QED  BY <3>1, <3>2 DEF PumpType
  <2>2. TableType
    BY DEF TableType
  <2>3. QueryType
    BY DEF QueryType, NoWindow, Times
  <2>4. BoundType
    BY DEF BoundType
  <2>5. Pipeline
    <3>1. Len(chan) = 0 /\ latest.n = 0
      BY DEF NoSnapshot
    <3> QED  BY <3>1 DEF Pipeline
  <2> QED  BY <2>1, <2>2, <2>3, <2>4, <2>5, TypeParts DEF StoreInv
<1>2. ASSUME StoreInv, [StoreNext]_vars
      PROVE  StoreInv'
  <2>1. PumpType /\ TableType /\ QueryType /\ BoundType /\ Pipeline
    BY <1>2, TypeParts DEF StoreInv
  <2>2. PumpType'  BY <1>2, <2>1, PumpTypeStep
  <2>3. TableType'  BY <1>2, <2>1, TableTypeStep
  <2>4. QueryType'  BY <1>2, <2>1, QueryTypeStep
  <2>5. BoundType'  BY <1>2, <2>1, BoundTypeStep
  <2>6. Pipeline'  BY <1>2, <2>1, PipelineStep
  <2>7. StoreTypeOK'
    BY <2>2, <2>3, <2>4, <2>5
    DEF StoreTypeOK, PumpType, TableType, QueryType, BoundType
  <2> QED  BY <2>6, <2>7 DEF StoreInv
<1> QED  BY <1>1, <1>2, PTL DEF StoreSpec

(***************************************************************************)
(* The types, a bounded channel, one row per primary key, one holder of    *)
(* the connection.                                                         *)
(***************************************************************************)
THEOREM TypeCorrect == StoreSpec => []StoreTypeOK
<1>1. StoreInv => StoreTypeOK
  BY DEF StoreInv
<1> QED  BY <1>1, InvHolds, PTL

(***************************************************************************)
(* persistLoop writes each snapshot at most once: what Insert commits is   *)
(* newer than all it committed before, whatever the clock shows, which     *)
(* statements failed, and however often the process started again.         *)
(***************************************************************************)
THEOREM WrittenOnce == StoreSpec => NeverWrittenAgain
<1>1. ASSUME StoreInv, [StoreNext]_vars
      PROVE  [\A s \in samples' \ samples : s.n > inserted]_vars
  <2>1. CASE samples' = WithSample(samples, latest) /\ pump = "insert"
    BY <1>1, <2>1 DEF StoreInv, Pipeline, WithSample
  <2>2. CASE samples' = {r \in samples : r.ts >= cutoff}
    BY <2>2
  <2>3. CASE UNCHANGED tables
    BY <2>3 DEF tables
  <2> QED  BY <1>1, <2>1, <2>2, <2>3, OnlyTransactionsWrite
<1> QED  BY <1>1, InvHolds, PTL DEF StoreSpec, NeverWrittenAgain

-----------------------------------------------------------------------------
(* What a request has seen lies in the window it asked for. *)
SeenInWindow ==
    \A q \in Queries : query[q] \in {"points", "merge", "disks"} =>
        \A t \in seen[q] : Within(t, window[q])

(* Forget ends one request and leaves the others as they are. *)
LEMMA ForgetKeepsWindows ==
    ASSUME QueryType, SeenInWindow, NEW q \in Queries, Forget(q)
    PROVE  /\ SeenInWindow'
           /\ \A p \in Queries : query'[p] = query[p] \/ query'[p] = "idle"
<1> USE DEF Forget, QueryType
<1>1. query'[q] = "idle"
  OBVIOUS
<1>2. \A p \in Queries \ {q} :
        query'[p] = query[p] /\ seen'[p] = seen[p] /\ window'[p] = window[p]
  OBVIOUS
<1> QED  BY <1>1, <1>2 DEF SeenInWindow, Within

(***************************************************************************)
(* Every step keeps the windows, and the only way from the first statement *)
(* of a request to the second is mergeDisks.                               *)
(***************************************************************************)
LEMMA WindowStep ==
    ASSUME QueryType, SeenInWindow, [StoreNext]_vars
    PROVE  /\ SeenInWindow'
           /\ \A q \in Queries : query[q] = "merge" /\ query'[q] = "disks" =>
                SelectDisks(q)
<1> DEFINE Goal == /\ SeenInWindow'
                   /\ \A q \in Queries :
                        query[q] = "merge" /\ query'[q] = "disks" => SelectDisks(q)
<1>1. CASE UNCHANGED queryVars
  BY <1>1 DEF queryVars, SeenInWindow, Within
<1>2. ASSUME NEW q \in Queries, Ask(q)
      PROVE  Goal
  <2>1. query'[q] = "select"
    BY <1>2 DEF Ask, QueryType
  <2>2. \A p \in Queries \ {q} :
          query'[p] = query[p] /\ seen'[p] = seen[p] /\ window'[p] = window[p]
    BY <1>2 DEF Ask, QueryType
  <2> QED  BY <2>1, <2>2 DEF SeenInWindow, Within
<1>3. ASSUME NEW q \in Queries, SelectSamples(q)
      PROVE  Goal
  <2>1. /\ query'[q] = "points" /\ window' = window
        /\ seen'[q] = {r.ts : r \in {s \in samples : Within(s.ts, window[q])}}
    BY <1>3 DEF SelectSamples, QueryType
  <2>2. \A t \in seen'[q] : Within(t, window'[q])
    BY <2>1
  <2>3. \A p \in Queries \ {q} : query'[p] = query[p] /\ seen'[p] = seen[p]
    BY <1>3 DEF SelectSamples, QueryType
  <2> QED  BY <2>1, <2>2, <2>3 DEF SeenInWindow, Within
<1>4. ASSUME NEW q \in Queries, PointsRead(q)
      PROVE  Goal
  <2>1. CASE Forget(q)
    BY <2>1, ForgetKeepsWindows
  <2>2. CASE /\ query' = [query EXCEPT ![q] = "merge"]
             /\ UNCHANGED <<window, seen, shown>>
    <3>1. query[q] = "points" /\ query'[q] = "merge"
      BY <1>4, <2>2 DEF PointsRead, QueryType
    <3>2. \A p \in Queries \ {q} : query'[p] = query[p]
      BY <2>2 DEF QueryType
    <3> QED  BY <2>2, <3>1, <3>2 DEF SeenInWindow, Within
  <2> QED  BY <1>4, <2>1, <2>2 DEF PointsRead
<1>5. ASSUME NEW q \in Queries, SelectDisks(q)
      PROVE  Goal
  <2>1. query[q] = "merge" /\ window' = window /\ seen' = seen
    BY <1>5 DEF SelectDisks
  <2>2. \A p \in Queries \ {q} : query'[p] = query[p]
    BY <1>5 DEF SelectDisks, QueryType
  <2> QED  BY <1>5, <2>1, <2>2 DEF SeenInWindow, Within
<1>6. ASSUME NEW q \in Queries, Answered(q) \/ GivesUp(q)
      PROVE  Goal
  BY <1>6, ForgetKeepsWindows DEF Answered, GivesUp
<1>7. CASE Restart
  <2>1. \A q \in Queries : query'[q] = "idle"
    BY <1>7 DEF Restart
  <2> QED  BY <2>1 DEF SeenInWindow
<1>8. CASE ClockAdvances \/ ClockIsSet \/ Sample \/ PersistLoop
  BY <1>1, <1>8
  DEF ClockAdvances, ClockIsSet, Sample, PersistLoop, PumpReceives, PumpPersists,
      PumpPrunes, Insert, Prune
<1>9. CASE UNCHANGED vars
  BY <1>1, <1>9 DEF vars, queryVars
<1> QED
  BY <1>2, <1>3, <1>4, <1>5, <1>6, <1>7, <1>8, <1>9
  DEF StoreNext, QueryStep

(***************************************************************************)
(* However Insert, Prune and the clock overtake a request between its two  *)
(* statements, each point shows every disk of the samples it was made from *)
(* that are still stored, and no bucket without a point gets one.  The     *)
(* window is fixed when the request comes in; had mergeDisks taken the     *)
(* time again, SeenInWindow would say nothing of the second statement.     *)
(***************************************************************************)
THEOREM PointsKeepTheirDisks == StoreSpec => PointsShowTheirDisks
<1> DEFINE Step == \A q \in Queries : query[q] = "merge" /\ query'[q] = "disks" =>
        /\ \A s \in samples : s.ts \in seen[q] =>
             \A m \in s.mounts : <<BucketOf(s.ts), m>> \in shown'[q]
        /\ \A p \in shown'[q] : \E t \in seen[q] : BucketOf(t) = p[1]
<1>1. ASSUME StoreInit
      PROVE  SeenInWindow
  BY <1>1 DEF StoreInit, SeenInWindow
<1>2. ASSUME StoreInv, SeenInWindow, [StoreNext]_vars
      PROVE  SeenInWindow'
  BY <1>2, WindowStep, TypeParts DEF StoreInv
<1>3. ASSUME StoreInv, SeenInWindow, TablesAgree, [StoreNext]_vars
      PROVE  [Step]_vars
  <2> SUFFICES ASSUME NEW q \in Queries, query[q] = "merge", query'[q] = "disks"
               PROVE  /\ \A s \in samples : s.ts \in seen[q] =>
                           \A m \in s.mounts : <<BucketOf(s.ts), m>> \in shown'[q]
                      /\ \A p \in shown'[q] : \E t \in seen[q] : BucketOf(t) = p[1]
    OBVIOUS
  <2>1. QueryType /\ SelectDisks(q)
    BY <1>3, WindowStep, TypeParts DEF StoreInv
  <2>2. shown'[q] =
          {p \in {<<BucketOf(r.ts), r.mount>> :
                    r \in {d \in disks : Within(d.ts, window[q])}} :
             p[1] \in {BucketOf(t) : t \in seen[q]}}
    BY <2>1 DEF SelectDisks, QueryType
  <2>3. ASSUME NEW s \in samples, s.ts \in seen[q], NEW m \in s.mounts
        PROVE  <<BucketOf(s.ts), m>> \in shown'[q]
    <3> DEFINE row == [ts |-> s.ts, mount |-> m, n |-> s.n]
    <3>1. row \in disks /\ row.ts = s.ts /\ row.mount = m
      BY <1>3, <2>3 DEF TablesAgree
    <3>2. Within(row.ts, window[q])
      BY <1>3, <2>3, <3>1 DEF SeenInWindow
    <3> HIDE DEF row
    <3>3. <<BucketOf(s.ts), m>> = <<BucketOf(row.ts), row.mount>>
      BY <3>1
    <3> QED  BY <2>2, <2>3, <3>1, <3>2, <3>3
  <2>4. \A p \in shown'[q] : \E t \in seen[q] : BucketOf(t) = p[1]
    BY <2>2
  <2> QED  BY <2>3, <2>4
<1> QED
  BY <1>1, <1>2, <1>3, InvHolds, TablesStayTogether, PTL
  DEF StoreSpec, PointsShowTheirDisks
=============================================================================
