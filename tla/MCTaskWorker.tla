---------------------------- MODULE MCTaskWorker ----------------------------
(* Small instances of TaskWorker for TLC: one request with one or two source *)
(* tasks, two concurrent handlers, two or three messages.                    *)
EXTENDS TaskWorker, TLC

CONSTANTS r1, t1, t2, w1, w2, h1, h2, m1, m2, m3

TwoSources == [t \in {t1, t2} |-> r1]
OneSource == [t \in {t1} |-> r1]
AccessOnly == [r \in {r1} |-> "access"]
DeleteOnly == [r \in {r1} |-> "delete"]

TwoProcesses == (h1 :> w1) @@ (h2 :> w2)
OneProcess == [h \in {h1, h2} |-> w1]

\* The event of t2 may be relayed twice.
SecondRelayedTwice == (m1 :> t1) @@ (m2 :> t2) @@ (m3 :> t2)
OnePerTask == (m1 :> t1) @@ (m2 :> t2)
RelayedTwice == (m1 :> t1) @@ (m2 :> t1)
\* An event that names no task, such as privacy_request.created.
WithOtherEvent == (m1 :> t1) @@ (m2 :> NoTask)

\* Exchanging the handlers of one process, or two processes of one handler.
SwapHandlers == Permutations({h1, h2})
SwapProcesses ==
    {f \in Permutations({h1, h2, w1, w2}) :
        \A h \in {h1, h2} : /\ f[h] \in {h1, h2}
                            /\ TwoProcesses[f[h]] = f[TwoProcesses[h]]}
=============================================================================
