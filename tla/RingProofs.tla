----------------------------- MODULE RingProofs -----------------------------
(***************************************************************************)
(* What the ring's arithmetic computes, for every capacity and content.    *)
(***************************************************************************)
EXTENDS Ring, SequenceTheorems, TLAPS

(* An index that passes the end of the slots at most once wraps by one     *)
(* subtraction: all the % in the ring code ever does.                      *)
LEMMA Wrap ==
    ASSUME NEW x \in 0 .. 2 * Cap - 1
    PROVE  x % Cap = IF x < Cap THEN x ELSE x - Cap
  BY CapAssumption

(* Counting on from a slot by less than the capacity lands in a slot. *)
LEMMA SlotAhead ==
    ASSUME NEW b \in Slots, NEW k \in Slots
    PROVE  (b + k) % Cap \in Slots
<1> DEFINE x == b + k
<1>1. x \in 0 .. 2 * Cap - 1 /\ (IF x < Cap THEN x ELSE x - Cap) \in Slots
  BY CapAssumption DEF Slots
<1> HIDE DEF x
<1>2. x % Cap \in Slots
  BY <1>1, Wrap
<1> QED BY <1>2 DEF x

(* Seen from the slot after h, the slots in order are the ones after h,    *)
(* and h comes last.                                                       *)
LEMMA NextSlot ==
    ASSUME NEW h \in Slots
    PROVE  LET n == IF h + 1 < Cap THEN h + 1 ELSE 0 IN
           /\ \A i \in 1 .. Cap - 1 :
                 /\ (n + (i - 1)) % Cap = (h + i) % Cap
                 /\ (h + i) % Cap \in Slots \ {h}
           /\ (n + (Cap - 1)) % Cap = h
<1> DEFINE n == IF h + 1 < Cap THEN h + 1 ELSE 0
<1>1. ASSUME NEW i \in 1 .. Cap - 1
      PROVE  /\ (n + (i - 1)) % Cap = (h + i) % Cap
             /\ (h + i) % Cap \in Slots \ {h}
  <2> DEFINE x == n + (i - 1)
             y == h + i
  <2>1. x \in 0 .. 2 * Cap - 1 /\ y \in 0 .. 2 * Cap - 1
    BY CapAssumption DEF Slots
  <2>2. /\ y < Cap => x = y /\ y # h
        /\ y >= Cap => (x = y /\ x >= Cap) \/ (x = y - Cap /\ x < Cap)
        /\ y >= Cap => y - Cap \in Slots \ {h}
        /\ y < Cap => y \in Slots \ {h}
    BY CapAssumption DEF Slots
  <2> HIDE DEF x, y
  <2>3. /\ x % Cap = (IF x < Cap THEN x ELSE x - Cap)
        /\ y % Cap = (IF y < Cap THEN y ELSE y - Cap)
    BY <2>1, Wrap
  <2>4. x % Cap = y % Cap /\ y % Cap \in Slots \ {h}
    BY <2>1, <2>2, <2>3, CapAssumption
  <2> QED BY <2>4 DEF x, y
<1>2. (n + (Cap - 1)) % Cap = h
  <2> DEFINE x == n + (Cap - 1)
  <2>1. x \in 0 .. 2 * Cap - 1 /\ (IF x < Cap THEN x ELSE x - Cap) = h
    BY CapAssumption DEF Slots
  <2> HIDE DEF x
  <2>2. x % Cap = h
    BY <2>1, Wrap
  <2> QED BY <2>2 DEF x
<1> QED BY <1>1, <1>2

(* Below capacity the slot to write next is free, and it is the one after  *)
(* the newest entry.                                                       *)
LEMMA FreeSlot ==
    ASSUME NEW h \in Slots, NEW c \in 0 .. Cap - 1
    PROVE  LET b == IF h < c THEN h + Cap - c ELSE h - c IN
           /\ \A i \in 1 .. c : (b + (i - 1)) % Cap \in Slots \ {h}
           /\ (b + c) % Cap = h
<1> DEFINE b == IF h < c THEN h + Cap - c ELSE h - c
<1>1. ASSUME NEW i \in 1 .. c
      PROVE  (b + (i - 1)) % Cap \in Slots \ {h}
  <2> DEFINE x == b + (i - 1)
  <2>1. /\ x \in 0 .. 2 * Cap - 1
        /\ (IF x < Cap THEN x ELSE x - Cap) \in Slots \ {h}
    BY CapAssumption DEF Slots
  <2> HIDE DEF x
  <2>2. x % Cap \in Slots \ {h}
    BY <2>1, Wrap
  <2> QED BY <2>2 DEF x
<1>2. (b + c) % Cap = h
  <2> DEFINE x == b + c
  <2>1. x \in 0 .. 2 * Cap - 1 /\ (IF x < Cap THEN x ELSE x - Cap) = h
    BY CapAssumption DEF Slots
  <2> HIDE DEF x
  <2>2. x % Cap = h
    BY <2>1, Wrap
  <2> QED BY <2>2 DEF x
<1> QED BY <1>1, <1>2

(* The fields of a ring after a push stay in range, whatever the element   *)
(* type.                                                                   *)
LEMMA PushType ==
    ASSUME NEW S, NEW r \in Rings(S), NEW s \in S
    PROVE  Push(r, s) \in Rings(S)
<1>1. (r.head + 1) % Cap \in Slots
  BY Wrap, CapAssumption DEF Rings, Slots
<1>2. (IF r.count < Cap THEN r.count + 1 ELSE r.count) \in 0 .. Cap
  BY CapAssumption DEF Rings
<1>3. [r.ring EXCEPT ![r.head] = s] \in [Slots -> S]
  BY DEF Rings
<1> QED
  BY <1>1, <1>2, <1>3 DEF Push, Rings

(* The oldest entry's slot is a slot. *)
LEMMA StartType ==
    ASSUME NEW S, NEW r \in Rings(S)
    PROVE  Start(r) \in Slots
  BY CapAssumption DEF Rings, Slots, Start

LEMMA ContentsType ==
    ASSUME NEW S, NEW r \in Rings(S)
    PROVE  /\ Contents(r) \in Seq(S)
           /\ Len(Contents(r)) = r.count
<1>0. \A i \in 1 .. r.count : i - 1 \in Slots
  BY CapAssumption DEF Rings, Slots
<1>1. \A i \in 1 .. r.count : (Start(r) + (i - 1)) % Cap \in Slots
  BY <1>0, StartType, SlotAhead
<1>2. \A i \in 1 .. r.count : At(r, i - 1) \in S
  BY <1>1 DEF At, Rings
<1> QED
  BY <1>2 DEF Contents, Rings

(* THEOREM: a push appends, and at capacity forgets exactly the oldest     *)
(* entry.  This is what Recent and the hello backfill rest on              *)
(* (Collector.publish, peerState.push).                                    *)
THEOREM PushAppends ==
    ASSUME NEW S, NEW r \in Rings(S), NEW s \in S
    PROVE  Contents(Push(r, s)) = Newest(Append(Contents(r), s), Cap)
<1> DEFINE p == Push(r, s)
           app == Append(Contents(r), s)
<1>1. p \in Rings(S)
  BY PushType
<1>2. /\ Contents(r) \in Seq(S) /\ Len(Contents(r)) = r.count
      /\ Contents(p) \in Seq(S) /\ Len(Contents(p)) = p.count
  BY <1>1, ContentsType
<1>3. app \in Seq(S) /\ Len(app) = r.count + 1
  BY <1>2
<1>4. r.count \in 0 .. Cap /\ r.head \in Slots /\ r.ring \in [Slots -> S]
  BY DEF Rings
<1>5. p.ring = [r.ring EXCEPT ![r.head] = s] /\ p.head = (r.head + 1) % Cap
      /\ p.count = IF r.count < Cap THEN r.count + 1 ELSE r.count
  BY DEF Push
<1>6. p.head = IF r.head + 1 < Cap THEN r.head + 1 ELSE 0
  BY <1>4, <1>5, Wrap, CapAssumption DEF Slots
<1>7. \A i \in 1 .. r.count : app[i] = r.ring[(Start(r) + (i - 1)) % Cap]
  <2>1. \A i \in 1 .. r.count : Contents(r)[i] = r.ring[(Start(r) + (i - 1)) % Cap]
    BY DEF Contents, At
  <2> QED BY <1>2, <2>1
<1>8. app[r.count + 1] = s
  BY <1>2
<1>9. \A i \in 1 .. p.count : Contents(p)[i] = p.ring[(Start(p) + (i - 1)) % Cap]
  BY DEF Contents, At
<1> SUFFICES Contents(p) = Newest(app, Cap)
  OBVIOUS
<1> HIDE DEF p, app
<1>10. CASE r.count < Cap
  <2>1. Start(p) = Start(r) /\ p.count = r.count + 1
    <3>1. p.count = r.count + 1 /\ p.count \in Nat
      BY <1>10, <1>4, <1>5
    <3>2. CASE r.head + 1 < Cap
      BY <3>1, <3>2, <1>10, <1>4, <1>6, CapAssumption DEF Start, Slots
    <3>3. CASE r.head + 1 = Cap
      BY <3>1, <3>3, <1>10, <1>4, <1>6, CapAssumption DEF Start, Slots
    <3> QED BY <3>1, <3>2, <3>3, <1>4, CapAssumption DEF Slots
  <2>2. r.count \in 0 .. Cap - 1
    BY <1>10, <1>4, CapAssumption
  <2>3. /\ \A i \in 1 .. r.count : (Start(r) + (i - 1)) % Cap \in Slots \ {r.head}
        /\ (Start(r) + r.count) % Cap = r.head
    BY <2>2, <1>4, FreeSlot DEF Start
  <2>4. \A i \in 1 .. p.count : Contents(p)[i] = app[i]
    <3> TAKE i \in 1 .. p.count
    <3>1. CASE i \in 1 .. r.count
      BY <3>1, <2>1, <2>3, <1>4, <1>5, <1>7, <1>9
    <3>2. CASE i = r.count + 1
      <4>1. Contents(p)[i] = p.ring[(Start(r) + r.count) % Cap]
        BY <3>2, <2>1, <1>9, <1>4
      <4> QED BY <4>1, <2>3, <1>4, <1>5, <1>8, <3>2
    <3> QED BY <3>1, <3>2, <2>1, <1>4
  <2>5. Contents(p) = app
    <3>1. Len(Contents(p)) = Len(app) /\ Len(app) = p.count
      BY <2>1, <1>2, <1>3
    <3> QED BY <3>1, <2>4, <1>2, <1>3, SeqEqual
  <2>6. Len(app) <= Cap
    BY <1>3, <2>2, CapAssumption
  <2> QED BY <2>5, <2>6 DEF Newest
<1>11. CASE r.count = Cap
  <2>1. Start(p) = p.head /\ p.count = Cap /\ Start(r) = r.head
    BY <1>11, <1>4, <1>5, <1>6, CapAssumption DEF Start, Slots
  <2>2. \A i \in 1 .. Cap : Contents(p)[i] = app[i + 1]
    <3> TAKE i \in 1 .. Cap
    <3>1. CASE i < Cap
      <4>1. /\ (p.head + (i - 1)) % Cap = (r.head + i) % Cap
            /\ (r.head + i) % Cap \in Slots \ {r.head}
        BY <3>1, <1>4, <1>6, NextSlot, CapAssumption
      <4>2. Contents(p)[i] = r.ring[(r.head + i) % Cap]
        BY <4>1, <2>1, <1>4, <1>5, <1>9
      <4>3. i + 1 \in 1 .. r.count /\ (i + 1) - 1 = i
        BY <3>1, <1>11, CapAssumption
      <4> QED BY <4>2, <4>3, <2>1, <1>7
    <3>2. CASE i = Cap
      <4>1. (p.head + (Cap - 1)) % Cap = r.head
        BY <1>4, <1>6, NextSlot, CapAssumption
      <4>2. Contents(p)[i] = p.ring[r.head]
        BY <4>1, <3>2, <2>1, <1>9
      <4>3. p.ring[r.head] = s
        BY <1>4, <1>5
      <4> QED BY <4>2, <4>3, <3>2, <1>8, <1>11
    <3> QED BY <3>1, <3>2, CapAssumption
  <2>3. Newest(app, Cap) = [i \in 1 .. Cap |-> app[i + 1]]
    BY <1>3, <1>11, CapAssumption DEF Newest
  <2>4. Contents(p) = [i \in 1 .. Cap |-> Contents(p)[i]]
    BY <2>1 DEF Contents
  <2> QED BY <2>2, <2>3, <2>4
<1> QED BY <1>4, <1>10, <1>11, CapAssumption

(* The cut to the n newest entries is a sequence of at most n of them. *)
LEMMA NewestType ==
    ASSUME NEW S, NEW seq \in Seq(S), NEW n \in Nat
    PROVE  /\ Newest(seq, n) \in Seq(S)
           /\ Len(Newest(seq, n)) \in 0 .. n
<1>1. CASE Len(seq) <= n
  BY <1>1, LenProperties DEF Newest
<1>2. CASE ~(Len(seq) <= n)
  <2>1. \A i \in 1 .. n : Len(seq) - n + i \in 1 .. Len(seq)
    BY <1>2, LenProperties
  <2>2. \A i \in 1 .. n : seq[Len(seq) - n + i] \in S
    BY <2>1, LenProperties
  <2>3. Newest(seq, n) = [i \in 1 .. n |-> seq[Len(seq) - n + i]]
    BY <1>2 DEF Newest
  <2> QED BY <2>2, <2>3
<1> QED BY <1>1, <1>2

LEMMA SeedType ==
    ASSUME NEW S, NEW r \in Rings(S), NEW recent \in Seq(S)
    PROVE  Seed(r, recent) \in Rings(S)
<1> DEFINE kept == Newest(recent, Cap)
<1>1. kept \in Seq(S) /\ Len(kept) \in 0 .. Cap
  BY NewestType, CapAssumption
<1> HIDE DEF kept
<1>2. [i \in Slots |-> IF i < Len(kept) THEN kept[i + 1] ELSE r.ring[i]] \in [Slots -> S]
  <2>1. \A i \in Slots : i < Len(kept) => kept[i + 1] \in S
    BY <1>1, LenProperties DEF Slots
  <2>2. \A i \in Slots : r.ring[i] \in S
    BY DEF Rings
  <2> QED BY <2>1, <2>2
<1>3. Len(kept) % Cap \in Slots
  BY <1>1, Wrap, CapAssumption DEF Slots
<1> QED BY <1>1, <1>2, <1>3 DEF Seed, Rings, kept

(* THEOREM: after a peer's hello the ring holds exactly the newest entries *)
(* the peer sent, whatever it held before (peerState.seedRing).            *)
THEOREM SeedReplaces ==
    ASSUME NEW S, NEW r \in Rings(S), NEW recent \in Seq(S)
    PROVE  Contents(Seed(r, recent)) = Newest(recent, Cap)
<1> DEFINE kept == Newest(recent, Cap)
           q == Seed(r, recent)
<1>1. kept \in Seq(S) /\ Len(kept) \in 0 .. Cap
  BY NewestType, CapAssumption
<1>2. q \in Rings(S)
  BY SeedType
<1>3. /\ q.ring = [i \in Slots |-> IF i < Len(kept) THEN kept[i + 1] ELSE r.ring[i]]
      /\ q.head = Len(kept) % Cap
      /\ q.count = Len(kept)
  BY DEF Seed
<1>4. Contents(q) \in Seq(S) /\ Len(Contents(q)) = q.count
  BY <1>2, ContentsType
<1>5. \A i \in 1 .. q.count : Contents(q)[i] = q.ring[(Start(q) + (i - 1)) % Cap]
  BY DEF Contents, At
<1> SUFFICES Contents(q) = kept
  OBVIOUS
<1> HIDE DEF kept, q
<1>6. q.head = IF Len(kept) < Cap THEN Len(kept) ELSE 0
  BY <1>1, <1>3, Wrap, CapAssumption
<1>7. Start(q) = 0
  BY <1>1, <1>3, <1>6, CapAssumption DEF Start
<1>8. ASSUME NEW i \in 1 .. q.count
      PROVE  Contents(q)[i] = kept[i]
  <2>1. i - 1 \in Slots /\ i - 1 \in 0 .. 2 * Cap - 1 /\ i - 1 < Cap
    BY <1>1, <1>3, CapAssumption DEF Slots
  <2>2. (i - 1) % Cap = i - 1
    BY <2>1, Wrap
  <2>3. 0 + (i - 1) = i - 1 /\ (i - 1) + 1 = i /\ i - 1 < Len(kept)
    BY <1>1, <1>3
  <2>4. Contents(q)[i] = q.ring[i - 1]
    BY <1>5, <1>7, <2>2, <2>3
  <2> QED BY <2>1, <2>3, <2>4, <1>3
<1> QED BY <1>1, <1>3, <1>4, <1>8, SeqEqual

=============================================================================
