--------------------------- MODULE RequestContract ---------------------------
(***************************************************************************)
(* What the control plane promises for a privacy request, whatever workers *)
(* and messages do: every source task gets at most one outcome, and the    *)
(* request gets one verdict, once, after all its tasks have outcomes       *)
(* (the status model of src/docs/api.md).                                  *)
(***************************************************************************)
CONSTANTS Requests, Tasks, RequestOf

VARIABLES
    outcome,    \* of a task: "open" until it succeeded or failed
    verdict     \* of a request: "open" until its terminal status

TasksOf(r) == {t \in Tasks : RequestOf[t] = r}
Outcomes(r) == {outcome[t] : t \in TasksOf(r)}

\* The verdict that a set of outcomes calls for.
VerdictOf(S) == CASE S = {"succeeded"} -> "completed"
                  [] S = {"failed"} -> "failed"
                  [] S = {"succeeded", "failed"} -> "partial"

Init ==
    /\ outcome = [t \in Tasks |-> "open"]
    /\ verdict = [r \in Requests |-> "open"]

Settle(t) ==
    /\ outcome[t] = "open"
    /\ \E o \in {"succeeded", "failed"} : outcome' = [outcome EXCEPT ![t] = o]
    /\ UNCHANGED verdict

Decide(r) ==
    /\ verdict[r] = "open"
    /\ Outcomes(r) # {} /\ "open" \notin Outcomes(r)
    /\ verdict' = [verdict EXCEPT ![r] = VerdictOf(Outcomes(r))]
    /\ UNCHANGED outcome

Next == (\E t \in Tasks : Settle(t)) \/ (\E r \in Requests : Decide(r))

Spec == Init /\ [][Next]_<<outcome, verdict>>
=============================================================================
