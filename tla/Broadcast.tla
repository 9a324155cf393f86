------------------------------ MODULE Broadcast ------------------------------
(***************************************************************************)
(* What the collector promises its readers, without buffers, locks or ring *)
(* arithmetic: a log of the newest Keep messages anybody may copy, and for *)
(* every subscriber a mailbox that receives each message in order unless   *)
(* Slack undelivered ones are waiting already.  The publisher waits for    *)
(* nobody.  A mailbox that was shut takes nothing more, but what is in it  *)
(* may still be taken out.                                                 *)
(***************************************************************************)
EXTENDS Naturals, Sequences

CONSTANTS Message, Keep, Slack, Subscriber

VARIABLES
    log,        \* the newest Keep messages, oldest first
    box,        \* box[s]: messages waiting for s, oldest first
    open        \* the subscribers the publisher still delivers to

vars == <<log, box, open>>

Init ==
    /\ log = <<>>
    /\ box = [s \in Subscriber |-> <<>>]
    /\ open = {}

Trim(seq, n) ==
    IF Len(seq) <= n THEN seq ELSE [i \in 1 .. n |-> seq[Len(seq) - n + i]]

Post(m) ==
    /\ log' = Trim(Append(log, m), Keep)
    /\ box' = [s \in Subscriber |->
                 IF s \in open /\ Len(box[s]) < Slack THEN Append(box[s], m)
                 ELSE box[s]]
    /\ UNCHANGED open

Join(s) ==
    /\ s \notin open
    /\ box[s] = <<>>
    /\ open' = open \cup {s}
    /\ UNCHANGED <<log, box>>

Take(s) ==
    /\ box[s] # <<>>
    /\ box' = [box EXCEPT ![s] = Tail(@)]
    /\ UNCHANGED <<log, open>>

Shut(gone) ==
    /\ gone \subseteq open
    /\ open' = open \ gone
    /\ UNCHANGED <<log, box>>

Next ==
    \/ \E m \in Message : Post(m)
    \/ \E s \in Subscriber : Join(s) \/ Take(s)
    \/ \E gone \in SUBSET Subscriber : Shut(gone)

Spec == Init /\ [][Next]_vars
=============================================================================
