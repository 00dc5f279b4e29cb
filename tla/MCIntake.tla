------------------------------ MODULE MCIntake ------------------------------
(* Four submissions for two keys of one tenant: c1 and c2 are the same       *)
(* command spelt differently, c3 reuses their key for another command, c4    *)
(* has a key of its own; w is a worker of the tenant.                        *)
EXTENDS Intake, TLC

CONSTANTS a, c1, c2, c3, c4, w, k1, k2, profile, jobs

AllForA == [v \in {c1, c2, c3, c4, w} |-> a]
Keyed == (c1 :> k1) @@ (c2 :> k1) @@ (c3 :> k1) @@ (c4 :> k2)
Body(subject, kind, sources) ==
    [subject |-> subject, kind |-> kind, sources |-> sources]
Bodies == (c1 :> Body("Op@shop", "access", <<profile, jobs>>))
       @@ (c2 :> Body("op@shop ", "access", <<jobs, profile>>))
       @@ (c3 :> Body("op@shop ", "delete", <<jobs, profile>>))
       @@ (c4 :> Body("Op@shop", "delete", <<jobs>>))
Spellings == [s \in {"Op@shop", "op@shop "} |-> "op@shop"]
=============================================================================
