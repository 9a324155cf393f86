-------------------------------- MODULE Ring --------------------------------
(***************************************************************************)
(* The circular snapshot buffer.  collector.Collector and peers.peerState  *)
(* each keep one as three fields: the slots `ring`, the next write         *)
(* position `head` and the number of valid entries `count`.  A ring here   *)
(* is a record of the three; the operators are the methods that touch it.  *)
(***************************************************************************)
EXTENDS Naturals, Sequences

CONSTANTS
    Cap,        \* len(ring): collector.Config.RingSize, peers.ringCap
    Zero        \* content of a slot nothing was written to (zero Snapshot)

ASSUME CapAssumption == Cap \in Nat \ {0}

Slots == 0 .. Cap - 1

Rings(S) == [ring : [Slots -> S], head : Slots, count : 0 .. Cap]

EmptyRing == [ring |-> [i \in Slots |-> Zero], head |-> 0, count |-> 0]

(***************************************************************************)
(* Write one snapshot at head, evicting the oldest at capacity.            *)
(***************************************************************************)
Push(r, snap) ==
    [ring  |-> [r.ring EXCEPT ![r.head] = snap],
     head  |-> (r.head + 1) % Cap,
     count |-> IF r.count < Cap THEN r.count + 1 ELSE r.count]

(***************************************************************************)
(* The slot of the oldest entry, and of the i-th oldest (from 0).          *)
(***************************************************************************)
Start(r) == IF r.head < r.count THEN r.head + Cap - r.count ELSE r.head - r.count
At(r, i) == r.ring[(Start(r) + i) % Cap]

(***************************************************************************)
(* A copy of the ring, oldest first.                                       *)
(***************************************************************************)
Contents(r) == [i \in 1 .. r.count |-> At(r, i - 1)]

(***************************************************************************)
(* The n newest elements of a sequence: what a ring of size n holds, and   *)
(* the cut seedRing makes when a peer sent more than fits.                 *)
(***************************************************************************)
Newest(seq, n) ==
    IF Len(seq) <= n THEN seq
    ELSE [i \in 1 .. n |-> seq[Len(seq) - n + i]]

(***************************************************************************)
(* seedRing: reset head and count, then push the newest Cap entries.  Slot *)
(* i gets entry i+1; the slots beyond keep what they held, out of reach of *)
(* Contents.                                                               *)
(***************************************************************************)
Seed(r, recent) ==
    LET kept == Newest(recent, Cap) IN
    [ring  |-> [i \in Slots |-> IF i < Len(kept) THEN kept[i + 1] ELSE r.ring[i]],
     head  |-> Len(kept) % Cap,
     count |-> Len(kept)]
=============================================================================
