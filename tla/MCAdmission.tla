----------------------------- MODULE MCAdmission -----------------------------
(* Three tasks, one of which is attempted twice, and a window of one or two. *)
EXTENDS Admission, TLC

CONSTANTS t1, t2, t3, c1, c2, c3, c4

FirstRetried == (c1 :> t1) @@ (c2 :> t1) @@ (c3 :> t2) @@ (c4 :> t3)
=============================================================================
