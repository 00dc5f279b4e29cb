---------------------------- MODULE MCOutboxRelay ----------------------------
(* Two relays and four events, the first of which the queue refuses. *)
EXTENDS OutboxRelay

CONSTANTS r1, r2
=============================================================================
