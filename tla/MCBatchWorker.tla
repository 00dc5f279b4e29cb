---------------------------- MODULE MCBatchWorker ----------------------------
(* Small instances of BatchWorker: two process-once calls, three tasks of    *)
(* one or two requests of one subject.                                       *)
EXTENDS BatchWorker, TLC

CONSTANTS r1, r2, s1, s2, w1, b1, b2, k1

\* An access request with two sources, and a delete of the first of them.
MixedRequests == (1 :> r1) @@ (2 :> r1) @@ (3 :> r2)
MixedSources == (1 :> s1) @@ (2 :> s2) @@ (3 :> s1)
MixedKinds == (r1 :> "access") @@ (r2 :> "delete")

\* One access request with three sources.
OneRequest == [t \in 1..3 |-> r1]
ThreeSources == [t \in 1..3 |-> t]
AccessOnly == [r \in {r1} |-> "access"]

\* Both calls use the default worker_id.
DefaultWorker == [b \in {b1, b2} |-> w1]
=============================================================================
