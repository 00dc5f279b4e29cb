----------------------------- MODULE OutboxRelay -----------------------------
(***************************************************************************)
(* The transactional outbox: relays of several worker processes select     *)
(* unpublished rows with FOR UPDATE SKIP LOCKED, send them one by one and  *)
(* commit the confirmed ones together                                      *)
(* (src/src/privacy_cloud/services/outbox.py, SqsTaskQueue.publish).       *)
(***************************************************************************)
EXTENDS Naturals, FiniteSets

CONSTANTS
    EventCount,     \* outbox rows, numbered by created_at
    Relays,         \* worker processes
    BatchSize,      \* batch_size
    Rejected,       \* events the queue service refuses every time
    MaxFaults,      \* bound: process exits and transient send errors
    NoRelay

Events == 1..EventCount

ASSUME RelayAssumption ==
    /\ EventCount \in Nat
    /\ BatchSize \in Nat \ {0}
    /\ Rejected \subseteq Events
    /\ MaxFaults \in Nat
    /\ NoRelay \notin Relays

VARIABLES
    created,    \* rows of committed transactions
    published,  \* rows whose published_at is committed
    lockedBy,   \* row locks
    queue,      \* copies of an event the queue service accepted
    pc, batch, confirmed,   \* of a relay: rows still to send, rows sent
    faults      \* process exits and transient send errors so far

vars == <<created, published, lockedBy, queue, pc, batch, confirmed, faults>>

-----------------------------------------------------------------------------
\* The rows the SELECT may return.
Selectable_LockedToo == created \ published
Selectable == {e \in created \ published : lockedBy[e] = NoRelay}

\* ORDER BY created_at LIMIT batch_size.
Oldest(S) == {e \in S : Cardinality({f \in S : f < e}) < BatchSize}

\* The rows published_at is set on.
Marked_WholeBatch(r) == {e \in Events : lockedBy[e] = r}
Marked(r) == confirmed[r]

Init ==
    /\ created = {}
    /\ published = {}
    /\ lockedBy = [e \in Events |-> NoRelay]
    /\ queue = [e \in Events |-> 0]
    /\ pc = [r \in Relays |-> "idle"]
    /\ batch = [r \in Relays |-> {}]
    /\ confirmed = [r \in Relays |-> {}]
    /\ faults = 0

\* enqueue_outbox in a transaction that commits; transactions commit in any
\* order of their rows' created_at.
Enqueue(e) ==
    /\ e \notin created
    /\ created' = created \union {e}
    /\ UNCHANGED <<published, lockedBy, queue, pc, batch, confirmed, faults>>

Select(r) ==
    LET S == Oldest(Selectable) IN
    /\ pc[r] = "idle"
    /\ S # {}
    /\ batch' = [batch EXCEPT ![r] = S]
    /\ lockedBy' = [e \in Events |-> IF e \in S THEN r ELSE lockedBy[e]]
    /\ pc' = [pc EXCEPT ![r] = "send"]
    /\ UNCHANGED <<created, published, queue, confirmed, faults>>

\* The next event of the batch.
IsNext(r, e) == e \in batch[r] /\ \A f \in batch[r] : e <= f

\* Send e and go on with the rest of the batch.
Advance(r, e) ==
    /\ pc[r] = "send"
    /\ IsNext(r, e)
    /\ batch' = [batch EXCEPT ![r] = @ \ {e}]
    /\ UNCHANGED <<created, published, lockedBy, pc>>

\* publish returned.
Send(r, e) ==
    /\ e \notin Rejected
    /\ Advance(r, e)
    /\ queue' = [queue EXCEPT ![e] = @ + 1]
    /\ confirmed' = [confirmed EXCEPT ![r] = @ \union {e}]
    /\ UNCHANGED faults

\* The transaction of r ends with the given rows published.
EndPass(r, done) ==
    /\ published' = published \union done
    /\ lockedBy' = [e \in Events |-> IF lockedBy[e] = r THEN NoRelay
                                                        ELSE lockedBy[e]]
    /\ pc' = [pc EXCEPT ![r] = "idle"]
    /\ batch' = [batch EXCEPT ![r] = {}]
    /\ confirmed' = [confirmed EXCEPT ![r] = {}]
    /\ UNCHANGED <<created, queue>>

\* publish raised, before or after the service stored the message: the row
\* is skipped and the loop continues.
SendRaises_AbortsPass(r, e) ==
    /\ pc[r] = "send"
    /\ IsNext(r, e)
    /\ \/ e \in Rejected /\ UNCHANGED faults
       \/ e \notin Rejected /\ faults < MaxFaults /\ faults' = faults + 1
    /\ EndPass(r, {})
SendRaises(r, e) ==
    /\ Advance(r, e)
    /\ \/ /\ e \in Rejected
          /\ UNCHANGED <<queue, faults>>
       \/ /\ e \notin Rejected
          /\ faults < MaxFaults
          /\ faults' = faults + 1
          /\ \/ UNCHANGED queue
             \/ queue' = [queue EXCEPT ![e] = @ + 1]
    /\ UNCHANGED confirmed

CommitPass(r) ==
    /\ pc[r] = "send"
    /\ batch[r] = {}
    /\ EndPass(r, Marked(r))
    /\ UNCHANGED faults

\* The process exits, or the commit fails: no row of the pass is marked.
Crash(r) ==
    /\ pc[r] = "send"
    /\ faults < MaxFaults
    /\ EndPass(r, {})
    /\ faults' = faults + 1

RelayStep(r) ==
    \/ Select(r)
    \/ \E e \in Events : Send(r, e) \/ SendRaises(r, e)
    \/ CommitPass(r)

\* A pass that selects nothing changes nothing.
EmptyPass(r) ==
    /\ pc[r] = "idle"
    /\ Oldest(Selectable) = {}
    /\ UNCHANGED vars

Next == \/ \E e \in Events : Enqueue(e)
        \/ \E r \in Relays : RelayStep(r) \/ Crash(r) \/ EmptyPass(r)

Spec == Init /\ [][Next]_vars

\* run_worker calls relay_outbox_once in every pass, for ever.
Fairness == \A r \in Relays : WF_vars(RelayStep(r))

FairSpec == Spec /\ Fairness

-----------------------------------------------------------------------------
\* The tables, the queue and the relays have their types.
TypeOK ==
    /\ created \subseteq Events
    /\ published \subseteq created
    /\ lockedBy \in [Events -> Relays \union {NoRelay}]
    /\ queue \in [Events -> Nat]
    /\ pc \in [Relays -> {"idle", "send"}]
    /\ batch \in [Relays -> SUBSET Events]
    /\ confirmed \in [Relays -> SUBSET Events]
    /\ faults \in 0..MaxFaults

\* A row marked published was accepted by the queue: no crash, send error or
\* other event of its batch marks an event that was never sent.
PublishedWasSent == \A e \in published : queue[e] > 0

\* Copies beyond the first are explained by faults: parallel relays alone
\* never send one event twice.
DuplicatesNeedFaults == \A e \in Events : queue[e] <= 1 + faults

\* Every committed event is published in the end, also those created after
\* events the queue refuses, while fewer events are refused than a batch
\* holds.
HealthyEventsPublished ==
    \A e \in Events \ Rejected : e \in created ~> e \in published

Contract == INSTANCE AtLeastOnce WITH copies <- queue, marked <- published

\* The relays implement at-least-once delivery: in particular no relay sends
\* an event that another one has already marked, whatever pass it selected
\* the event in.
ImplementsAtLeastOnce == Contract!Spec
-----------------------------------------------------------------------------
(* The inductive invariant behind the two safety properties.                 *)

\* A pass holds the locks of the rows it works on, none of them is published,
\* and what it has confirmed was sent.
PassOK ==
    \A r \in Relays :
        /\ batch[r] \union confirmed[r] \subseteq {e \in Events : lockedBy[e] = r}
        /\ \A e \in batch[r] : e \notin confirmed[r]
        /\ \A e \in confirmed[r] : queue[e] > 0
        /\ pc[r] = "idle" => \A e \in Events : lockedBy[e] # r
LocksOK == \A e \in Events : lockedBy[e] # NoRelay => e \in created \ published

\* Each copy of an unconfirmed, unpublished event is one of the faults.
CopiesOK ==
    \A e \in Events :
        \/ queue[e] <= faults
        \/ queue[e] = faults + 1
           /\ (e \in published \/ \E r \in Relays : e \in confirmed[r])

RelayInv ==
    TypeOK /\ PassOK /\ LocksOK /\ CopiesOK /\ PublishedWasSent
=============================================================================
