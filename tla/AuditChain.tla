----------------------------- MODULE AuditChain -----------------------------
(***************************************************************************)
(* The per-tenant audit chain: append_audit in the transaction of its      *)
(* caller, and verify_audit_chain (src/src/privacy_cloud/services/         *)
(* events.py, the audit_events table of models.py).                        *)
(*                                                                         *)
(* A writer is a transaction that appends one event: a request admission,  *)
(* a task result or a request verdict.  Rows of audit are committed; the   *)
(* row a writer has built is visible to nobody else until its commit.      *)
(* SHA-256 is collision free here: the digest of an envelope is the tuple  *)
(* of what it covers.                                                      *)
(***************************************************************************)
EXTENDS Naturals, FiniteSets

CONSTANTS
    Tenants,
    Writers,        \* appending transactions
    TenantOf,       \* the tenant a writer appends for
    MaxAppends,     \* bound: events one writer commits
    TamperAllowed,  \* somebody may edit the table behind the service
    Forged,         \* a value no writer writes
    NoWriter

ASSUME ChainAssumption ==
    /\ TenantOf \in [Writers -> Tenants]
    /\ NoWriter \notin Writers
    /\ Forged \notin Writers
    /\ MaxAppends \in Nat
    /\ TamperAllowed \in BOOLEAN

VARIABLES
    audit,      \* the committed audit_events rows
    advisory,   \* holder of a tenant's advisory transaction lock
    step,       \* of a writer inside append_audit
    draft,      \* the event a writer has built
    tampered    \* tenants whose rows were edited

chainVars == <<audit, advisory, step, draft>>
vars == <<chainVars, tampered>>

-----------------------------------------------------------------------------
Genesis == << >>

\* The digest of an event's envelope; body stands for request_id, action and
\* payload_hash.
EventHash(tenant, seq, body, previous) == <<tenant, seq, body, previous>>

Event(tenant, seq, body, previous) ==
    [tenant |-> tenant, sequence |-> seq, body |-> body, previous |-> previous,
     hash |-> EventHash(tenant, seq, body, previous)]

RowsOf(t) == {e \in audit : e.tenant = t}

\* ORDER BY sequence DESC LIMIT 1.
Last(R) == CHOOSE e \in R : \A f \in R : f.sequence <= e.sequence

\* The event that follows the rows R.
NextEvent_LinksToBody(t, body, R) ==
    IF R = {} THEN Event(t, 1, body, Genesis)
              ELSE Event(t, Last(R).sequence + 1, body, Last(R).body)
NextEvent(t, body, R) ==
    IF R = {} THEN Event(t, 1, body, Genesis)
              ELSE Event(t, Last(R).sequence + 1, body, Last(R).hash)

\* verify_audit_chain on the rows R of a tenant, whose sequence numbers are
\* distinct: each row follows the one before it, the first follows Genesis,
\* and the stored digest is the recomputed one.
Follows(e, R) ==
    IF e.sequence = 1 THEN e.previous = Genesis
    ELSE \E f \in R : f.sequence + 1 = e.sequence /\ f.hash = e.previous
Verified_LinksOnly(R) == \A e \in R : Follows(e, R)
Verified(R) ==
    \A e \in R :
        /\ Follows(e, R)
        /\ e.hash = EventHash(e.tenant, e.sequence, e.body, e.previous)

-----------------------------------------------------------------------------
Init ==
    /\ audit = {}
    /\ advisory = [t \in Tenants |-> NoWriter]
    /\ step = [w \in Writers |-> "none"]
    /\ draft = [w \in Writers |-> NoWriter]
    /\ tampered = {}

\* pg_advisory_xact_lock: waits while another transaction holds the lock.
LockFree_Always(t) == TRUE
LockFree(t) == advisory[t] = NoWriter

Lock(w) ==
    LET t == TenantOf[w] IN
    /\ step[w] = "none"
    /\ LockFree(t)
    /\ Cardinality({e \in audit : e.body = w}) < MaxAppends
    /\ advisory' = [advisory EXCEPT ![t] = w]
    /\ step' = [step EXCEPT ![w] = "locked"]
    /\ UNCHANGED <<audit, draft>>

\* The SELECT of the chain head, a statement of its own after the lock, and
\* the event computed from it.
ReadHead(w) ==
    LET t == TenantOf[w] IN
    /\ step[w] = "locked"
    /\ draft' = [draft EXCEPT ![w] = NextEvent(t, w, RowsOf(t))]
    /\ step' = [step EXCEPT ![w] = "drafted"]
    /\ UNCHANGED <<audit, advisory>>

\* Another row, committed or flushed, has this tenant and sequence.
Taken(w, e) ==
    \/ \E f \in audit : f.tenant = e.tenant /\ f.sequence = e.sequence
    \/ \E v \in Writers \ {w} : /\ step[v] = "inserted"
                                /\ draft[v].tenant = e.tenant
                                /\ draft[v].sequence = e.sequence

\* The flush: uq_audit_tenant_sequence lets only a new sequence in.
Insert(w) ==
    /\ step[w] = "drafted"
    /\ ~Taken(w, draft[w])
    /\ step' = [step EXCEPT ![w] = "inserted"]
    /\ UNCHANGED <<audit, advisory, draft>>

\* The transaction of w is over; it holds nothing any more.
EndTransaction(w) ==
    /\ advisory' = [t \in Tenants |-> IF advisory[t] = w THEN NoWriter
                                                        ELSE advisory[t]]
    /\ step' = [step EXCEPT ![w] = "none"]
    /\ draft' = [draft EXCEPT ![w] = NoWriter]

Commit(w) ==
    /\ step[w] = "inserted"
    /\ audit' = audit \union {draft[w]}
    /\ EndTransaction(w)

\* An error or a process exit anywhere in the transaction.
Rollback(w) ==
    /\ step[w] # "none"
    /\ EndTransaction(w)
    /\ UNCHANGED audit

-----------------------------------------------------------------------------
\* Edits of a tenant's rows R that docs/architecture.md says the
\* verification detects: one field of one row changed, two rows exchanged, a
\* row that is not the last removed.
FieldEdits(e, R) ==
    {c \in {[e EXCEPT !.sequence = n] :
               n \in (0..(Cardinality(R) + 1)) \ {f.sequence : f \in R}}
           \union {[e EXCEPT !.body = Forged], [e EXCEPT !.previous = Forged],
                   [e EXCEPT !.hash = Forged]} :
        c # e}
Exchanged(e, f, R) ==
    (R \ {e, f}) \union {[e EXCEPT !.sequence = f.sequence],
                         [f EXCEPT !.sequence = e.sequence]}
Edits(R) ==
    (UNION {{(R \ {e}) \union {c} : c \in FieldEdits(e, R)} : e \in R})
    \union (UNION {{Exchanged(e, f, R) : f \in R \ {e}} : e \in R})
    \union {R \ {e} : e \in {d \in R : \E f \in R : d.sequence < f.sequence}}

Tamper(t) ==
    /\ TamperAllowed
    /\ t \notin tampered
    /\ \E R \in Edits(RowsOf(t)) : audit' = (audit \ RowsOf(t)) \union R
    /\ tampered' = tampered \union {t}
    /\ UNCHANGED <<advisory, step, draft>>

\* All events are written; verification requests go on.
Quiet ==
    /\ \A w \in Writers :
          /\ step[w] = "none"
          /\ Cardinality({e \in audit : e.body = w}) >= MaxAppends
    /\ UNCHANGED vars

Append(w) ==
    /\ Lock(w) \/ ReadHead(w) \/ Insert(w) \/ Commit(w) \/ Rollback(w)
    /\ UNCHANGED tampered

Next == \/ \E w \in Writers : Append(w)
        \/ \E t \in Tenants : Tamper(t)
        \/ Quiet

Spec == Init /\ [][Next]_vars

-----------------------------------------------------------------------------
Steps == {"none", "locked", "drafted", "inserted"}

\* The columns of the rows, except digests, have their types.
TypeOK ==
    /\ \A e \in audit : e.tenant \in Tenants /\ e.sequence \in Nat
    /\ advisory \in [Tenants -> Writers \union {NoWriter}]
    /\ step \in [Writers -> Steps]
    /\ DOMAIN draft = Writers
    /\ tampered \subseteq Tenants

\* The chain of a tenant whose rows nobody edited passes verify_audit_chain,
\* in every interleaving of its appending transactions, commits and
\* rollbacks: numbers without gaps and every link to the row before.
ChainValid == \A t \in Tenants \ tampered : Verified(RowsOf(t))

\* No append finds its sequence number taken: the head a transaction reads
\* under the advisory lock is still the head when it inserts, so the unique
\* index never aborts an admission or a task result.
AppendNeverCollides ==
    \A w \in Writers :
        step[w] = "drafted" /\ TenantOf[w] \notin tampered =>
            ~Taken(w, draft[w])

\* Verification fails for an edited chain and goes on failing whatever is
\* appended to it afterwards.
TamperDetected == \A t \in tampered : ~Verified(RowsOf(t))
-----------------------------------------------------------------------------
(* The inductive invariant behind the safety properties.                     *)

\* A writer inside append_audit holds the lock of its tenant.
LockHeld == \A w \in Writers : step[w] # "none" => advisory[TenantOf[w]] = w

\* A chain that is not empty has a last row, edited or not.
HasLast(R) == R # {} => \E e \in R : \A f \in R : f.sequence <= e.sequence

\* What a writer built for its tenant is an event with a number.
HasDraft(w) == step[w] \in {"drafted", "inserted"}
DraftsBuilt ==
    \A w \in Writers :
        HasDraft(w) => /\ draft[w].sequence \in Nat
                       /\ draft[w] = Event(TenantOf[w], draft[w].sequence, w, draft[w].previous)

\* The rows R are events as append_audit builds them, numbered 1, 2, 3...
Genuine(R) ==
    /\ \A e \in R : /\ e.sequence > 0
                    /\ e = Event(e.tenant, e.sequence, e.body, e.previous)
    /\ \A e, f \in R : e.sequence = f.sequence => e = f
    /\ \A e \in R : \A n \in 1..e.sequence : \E f \in R : f.sequence = n

\* A chain nobody edited: it verifies, and what a writer built follows it.
Sound(t) ==
    /\ Genuine(RowsOf(t))
    /\ Verified(RowsOf(t))
    /\ \A w \in Writers :
          HasDraft(w) /\ TenantOf[w] = t => draft[w] = NextEvent(t, w, RowsOf(t))

\* An edited chain: a row whose digest is wrong, which no append mends, or a
\* row without the one before it, whose number no append takes.
Altered(e) == e.hash # EventHash(e.tenant, e.sequence, e.body, e.previous)
Orphan(e, R) == e.sequence > 1 /\ \A f \in R : f.sequence + 1 # e.sequence
Ahead(t) ==
    \A w \in Writers :
        HasDraft(w) /\ TenantOf[w] = t =>
            \A e \in RowsOf(t) : e.sequence < draft[w].sequence
Broken(t) ==
    \/ \E e \in RowsOf(t) : Altered(e)
    \/ Ahead(t) /\ \E e \in RowsOf(t) : Orphan(e, RowsOf(t))

\* All of it.
ChainInv ==
    /\ TypeOK
    /\ LockHeld
    /\ DraftsBuilt
    /\ \A t \in Tenants : HasLast(RowsOf(t))
    /\ \A t \in Tenants \ tampered : Sound(t)
    /\ \A t \in tampered : Broken(t)
=============================================================================
