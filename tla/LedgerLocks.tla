----------------------------- MODULE LedgerLocks -----------------------------
(***************************************************************************)
(* The appending transactions of AuditChain together with the row locks    *)
(* they take on privacy_requests, in the order of the code:                *)
(*   refresh    refresh_request_status locks the row, then appends;        *)
(*   dbDelete   execute_task with the database source: the SELECT of       *)
(*              _active_records flushes VERIFYING, then the append;        *)
(*   httpDelete execute_task with a regional source: no statement runs     *)
(*              before append_audit, whose advisory lock is not an ORM     *)
(*              query; the SELECT of the chain head flushes VERIFYING;     *)
(*   other      access results and admissions lock no row others want.     *)
(* A refresh that finds no terminal status appends nothing, so it never    *)
(* waits while it holds the row.  Rows of tasks are left out: there only a *)
(* handler whose lease was taken over meets the claim that took it.        *)
(* PostgreSQL breaks a circular wait by aborting one of its members.       *)
(***************************************************************************)
EXTENDS AuditChain

CONSTANTS
    Rows,       \* privacy_requests rows
    RowOf,      \* the request of a writer
    Role        \* what a writer is

ASSUME RoleAssumption ==
    /\ RowOf \in [Writers -> Rows]
    /\ Role \in [Writers -> {"refresh", "dbDelete", "httpDelete", "other"}]

VARIABLE rowLock

ledgerVars == <<vars, rowLock>>

-----------------------------------------------------------------------------
\* When a writer locks its row: before or after the advisory lock.
RowOrder_DbDeleteLate(w) ==
    CASE Role[w] = "refresh" -> "first"
      [] Role[w] \in {"httpDelete", "dbDelete"} -> "late"
      [] OTHER -> "never"
RowOrder(w) ==
    CASE Role[w] \in {"refresh", "dbDelete"} -> "first"
      [] Role[w] = "httpDelete" -> "late"
      [] OTHER -> "never"

HasRow(w) == rowLock[RowOf[w]] = w
Pending(w) == Cardinality({e \in audit : e.body = w}) < MaxAppends

\* The next statement of w needs its row, or the advisory lock.
WantsRow(w) ==
    /\ ~HasRow(w)
    /\ \/ RowOrder(w) = "first" /\ step[w] = "none" /\ Pending(w)
       \/ RowOrder(w) = "late" /\ step[w] = "locked"
WantsAdvisory(w) ==
    step[w] = "none" /\ Pending(w) /\ (RowOrder(w) = "first" => HasRow(w))

\* v holds what w waits for.
WaitsFor(w, v) ==
    \/ WantsRow(w) /\ rowLock[RowOf[w]] = v
    \/ WantsAdvisory(w) /\ advisory[TenantOf[w]] = v
Waiting(w) == \E v \in Writers : WaitsFor(w, v)
Circular(S) == S # {} /\ \A w \in S : \E v \in S : WaitsFor(w, v)

-----------------------------------------------------------------------------
LedgerInit == Init /\ rowLock = [x \in Rows |-> NoWriter]

\* The UPDATE or SELECT ... FOR UPDATE of the request row.
LockRow(w) ==
    /\ WantsRow(w)
    /\ rowLock[RowOf[w]] = NoWriter
    /\ rowLock' = [rowLock EXCEPT ![RowOf[w]] = w]
    /\ UNCHANGED vars

LockLedger(w) == /\ WantsAdvisory(w)
                 /\ Lock(w)
                 /\ UNCHANGED rowLock

\* append_audit under the lock.
AppendEvent(w) ==
    /\ \/ ~WantsRow(w) /\ ReadHead(w)
       \/ Insert(w)
    /\ UNCHANGED rowLock

\* Row locks end with the transaction.
ReleaseRows(w) ==
    rowLock' = [x \in Rows |-> IF rowLock[x] = w THEN NoWriter ELSE rowLock[x]]

\* The variant leaves the session of a refresh open: its transaction neither
\* commits nor ends, and keeps its locks.
CommitAll_RefreshLeaks(w) == Role[w] # "refresh" /\ Commit(w) /\ ReleaseRows(w)
CommitAll(w) == Commit(w) /\ ReleaseRows(w)

\* An error, a process exit or the deadlock detector ends the transaction.
RollbackAll(w) ==
    /\ step[w] # "none" \/ HasRow(w)
    /\ EndTransaction(w)
    /\ UNCHANGED audit
    /\ ReleaseRows(w)

\* The unique index refuses the sequence number, as in an edited chain.
Collide(w) ==
    /\ step[w] = "drafted"
    /\ Taken(w, draft[w])
    /\ RollbackAll(w)

\* deadlock_timeout passes: a transaction that finds itself in a circular
\* wait is aborted.
Detect(w) ==
    /\ \E S \in SUBSET Writers : w \in S /\ Circular(S)
    /\ RollbackAll(w)

Step(w) == \/ LockRow(w) \/ LockLedger(w) \/ AppendEvent(w) \/ Collide(w)
           \/ CommitAll(w)

LedgerNext ==
    \/ \E w \in Writers : (Step(w) \/ RollbackAll(w)) /\ UNCHANGED tampered
    \/ \E t \in Tenants : Tamper(t) /\ UNCHANGED rowLock
    \/ Quiet /\ UNCHANGED rowLock

LedgerSpec == LedgerInit /\ [][LedgerNext]_ledgerVars

\* Transactions run on, the detector works, and locks are granted in the
\* order of their requests, so that nobody waits for ever at a lock that
\* becomes free again and again.
LedgerFairness ==
    /\ \A w \in Writers :
          /\ WF_ledgerVars(Step(w) /\ UNCHANGED tampered)
          /\ SF_ledgerVars((LockRow(w) \/ LockLedger(w)) /\ UNCHANGED tampered)
    /\ WF_ledgerVars(\E w \in Writers : Detect(w) /\ UNCHANGED tampered)

LedgerFairSpec == LedgerSpec /\ LedgerFairness

-----------------------------------------------------------------------------
\* Only results of deletes at a regional source can close a circular wait:
\* refreshes, admissions, access results and deletes in the database take
\* the request row before the tenant's advisory lock, or no row.
DeadlockNeedsHttpDelete ==
    \A S \in SUBSET Writers :
        Circular(S) => \E w \in S : Role[w] = "httpDelete"

\* No transaction waits for ever: what it waits for is released by commits,
\* rollbacks and the detector.
WaitsEnd == \A w \in Writers : Waiting(w) ~> ~Waiting(w)
=============================================================================
