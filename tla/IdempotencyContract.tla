------------------------ MODULE IdempotencyContract ------------------------
(***************************************************************************)
(* What request admission promises to clients that repeat and race their   *)
(* submissions (src/docs/api.md, "Create a privacy request"): a key stands *)
(* for the first command accepted under it; every call with an equivalent  *)
(* command gets that request, and any other call is refused.               *)
(***************************************************************************)
CONSTANTS Callers, Keys, KeyOf,
          MeaningOf,    \* the normalized command of a call
          None

VARIABLES
    registry,   \* of a key: the accepted command and its request, or None
    answer      \* of a call: what it was told, or None

Init ==
    /\ registry = [k \in Keys |-> None]
    /\ answer = [c \in Callers |-> None]

Accept(c) ==
    /\ registry[KeyOf[c]] = None
    /\ answer[c] = None
    /\ registry' = [registry EXCEPT ![KeyOf[c]] =
                       [meaning |-> MeaningOf[c], id |-> c]]
    /\ UNCHANGED answer

Reply(c) ==
    LET entry == registry[KeyOf[c]] IN
    /\ entry # None
    /\ answer[c] = None
    /\ answer' = [answer EXCEPT ![c] =
                     IF entry.meaning = MeaningOf[c] THEN entry.id ELSE "conflict"]
    /\ UNCHANGED registry

Next == \E c \in Callers : Accept(c) \/ Reply(c)

Spec == Init /\ [][Next]_<<registry, answer>>
=============================================================================
