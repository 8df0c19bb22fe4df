---------------------------- MODULE SingleFlight ----------------------------
(***************************************************************************)
(* What the queue contract promises, with no word about how it is kept:    *)
(* a request is accepted only while no earlier request of the same job is  *)
(* pending, and stays pending until it is settled ("one request can never  *)
(* produce two downloads").                                                *)
(***************************************************************************)
EXTENDS Naturals

CONSTANTS Key, MaxStamp

Task == [key : Key, stamp : 1..MaxStamp]

VARIABLE pending

Init == pending = {}

\* A request is accepted when nothing of its key is pending.
Accept(t) == /\ \A u \in pending : u.key # t.key
             /\ pending' = pending \cup {t}

\* The job reached its one outcome.
Settle(t) == /\ t \in pending
             /\ pending' = pending \ {t}

Next == \E t \in Task : Accept(t) \/ Settle(t)

Spec == Init /\ [][Next]_pending
=============================================================================
