----------------------------- MODULE AtLeastOnce -----------------------------
(***************************************************************************)
(* What the outbox promises its consumers: an event is handed over any     *)
(* number of times until it is marked as published, never after that, and  *)
(* it is not marked before it was handed over                              *)
(* (src/src/privacy_cloud/services/outbox.py).                             *)
(***************************************************************************)
EXTENDS Naturals

CONSTANT Events

VARIABLES
    copies,     \* how often the queue accepted an event
    marked      \* events with published_at

vars == <<copies, marked>>

Init == copies = [e \in Events |-> 0] /\ marked = {}

HandOver(e) == /\ e \notin marked
               /\ copies' = [copies EXCEPT ![e] = @ + 1]
               /\ UNCHANGED marked

\* A pass marks what it handed over.
Mark(S) == /\ \A e \in S : copies[e] > 0
           /\ marked' = marked \union S
           /\ UNCHANGED copies

Next == \/ \E e \in Events : HandOver(e)
        \/ \E S \in SUBSET Events : Mark(S)

Spec == Init /\ [][Next]_vars
=============================================================================
