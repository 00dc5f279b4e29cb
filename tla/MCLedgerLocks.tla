---------------------------- MODULE MCLedgerLocks ----------------------------
(* Four transactions of one tenant race for its chain, three of them on one  *)
(* request.                                                                  *)
EXTENDS LedgerLocks, TLC

CONSTANTS a, w1, w2, w3, w4, x, y

OneTenant == [w \in {w1, w2, w3, w4} |-> a]
SameRequest == (w1 :> x) @@ (w2 :> x) @@ (w3 :> x) @@ (w4 :> y)
EveryRole == (w1 :> "refresh") @@ (w2 :> "dbDelete") @@ (w3 :> "httpDelete")
             @@ (w4 :> "other")
=============================================================================
