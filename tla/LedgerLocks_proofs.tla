------------------------- MODULE LedgerLocks_proofs -------------------------
(***************************************************************************)
(* Proofs about LedgerLocks for any number of tenants, requests and        *)
(* transactions, edits of the table included: which circular waits are     *)
(* possible, and that row locks and aborted transactions leave AuditChain  *)
(* what it is, so that its theorems hold here too.                         *)
(***************************************************************************)
EXTENDS LedgerLocks, AuditChain_proofs

LockTypes ==
    /\ advisory \in [Tenants -> Writers \union {NoWriter}]
    /\ step \in [Writers -> Steps]
    /\ rowLock \in [Rows -> Writers \union {NoWriter}]
    /\ draft = [w \in Writers |-> draft[w]]

\* Who holds an advisory lock is inside append_audit; who holds the row of a
\* request works on that request; nothing is drafted outside append_audit.
HoldersKnown ==
    /\ \A t \in Tenants : advisory[t] \in Writers => step[advisory[t]] # "none"
    /\ \A x \in Rows : rowLock[x] \in Writers => RowOf[rowLock[x]] = x
    /\ \A w \in Writers : step[w] = "none" => draft[w] = NoWriter

LocksInv == LockTypes /\ HoldersKnown

\* Nobody holds a lock at the start.
LEMMA LocksInit == LedgerInit => LocksInv
BY ChainAssumption
DEF LedgerInit, Init, LocksInv, LockTypes, HoldersKnown, Steps

\* The end of a transaction releases what it held.
LEMMA EndKeepsLocks ==
    ASSUME LocksInv, NEW w \in Writers, EndTransaction(w), ReleaseRows(w)
    PROVE LocksInv'
<1>1. /\ advisory' = [t \in Tenants |-> IF advisory[t] = w THEN NoWriter
                                                          ELSE advisory[t]]
      /\ step' = [step EXCEPT ![w] = "none"]
      /\ draft' = [draft EXCEPT ![w] = NoWriter]
      /\ rowLock' = [x \in Rows |-> IF rowLock[x] = w THEN NoWriter
                                                      ELSE rowLock[x]]
    BY DEF EndTransaction, ReleaseRows
<1>2. LockTypes'
    BY <1>1 DEF LocksInv, LockTypes, Steps
<1>3. \A t \in Tenants : advisory'[t] \in Writers => step'[advisory'[t]] # "none"
    BY <1>1, ChainAssumption DEF LocksInv, LockTypes, HoldersKnown
<1>4. \A x \in Rows : rowLock'[x] \in Writers => RowOf[rowLock'[x]] = x
    BY <1>1, ChainAssumption DEF LocksInv, LockTypes, HoldersKnown
<1>5. \A v \in Writers : step'[v] = "none" => draft'[v] = NoWriter
    BY <1>1 DEF LocksInv, LockTypes, HoldersKnown
<1> QED
    BY <1>2, <1>3, <1>4, <1>5 DEF LocksInv, HoldersKnown

\* So do the other steps of a transaction.
LEMMA StepKeepsLocks ==
    ASSUME LocksInv, NEW w \in Writers, Step(w) \/ RollbackAll(w)
    PROVE LocksInv'
<1>1. CASE LockRow(w)
  <2>1. /\ rowLock' = [rowLock EXCEPT ![RowOf[w]] = w]
        /\ advisory' = advisory /\ step' = step /\ draft' = draft
      BY <1>1 DEF LockRow, vars, chainVars
  <2> QED
      BY <2>1, RoleAssumption DEF LocksInv, LockTypes, HoldersKnown
<1>2. CASE LockLedger(w)
  <2>1. /\ step[w] = "none"
        /\ advisory' = [advisory EXCEPT ![TenantOf[w]] = w]
        /\ step' = [step EXCEPT ![w] = "locked"]
        /\ draft' = draft /\ rowLock' = rowLock
      BY <1>2 DEF LockLedger, Lock
  <2>2. LockTypes'
      BY <2>1, ChainAssumption DEF LocksInv, LockTypes, Steps
  <2>3. HoldersKnown'
      BY <2>1, ChainAssumption DEF LocksInv, LockTypes, HoldersKnown
  <2> QED
      BY <2>2, <2>3 DEF LocksInv
<1>3. CASE AppendEvent(w)
  <2>1. /\ \/ step' = [step EXCEPT ![w] = "drafted"]
           \/ step' = [step EXCEPT ![w] = "inserted"]
        /\ draft' = draft \/ \E d : draft' = [draft EXCEPT ![w] = d]
        /\ advisory' = advisory /\ rowLock' = rowLock
      BY <1>3 DEF AppendEvent, ReadHead, Insert
  <2>2. LockTypes'
      BY <2>1 DEF LocksInv, LockTypes, Steps
  <2>3. HoldersKnown'
      BY <2>1 DEF LocksInv, LockTypes, HoldersKnown
  <2> QED
      BY <2>2, <2>3 DEF LocksInv
<1>4. CASE CommitAll(w) \/ Collide(w) \/ RollbackAll(w)
    BY <1>4, EndKeepsLocks DEF CommitAll, Commit, Collide, RollbackAll
<1> QED
    BY <1>1, <1>2, <1>3, <1>4 DEF Step

\* Every step keeps the invariant, edits of the table included.
LEMMA LocksStep == LocksInv /\ [LedgerNext]_ledgerVars => LocksInv'
<1> SUFFICES ASSUME LocksInv, [LedgerNext]_ledgerVars PROVE LocksInv'
    OBVIOUS
<1>1. ASSUME NEW w \in Writers, Step(w) \/ RollbackAll(w) PROVE LocksInv'
    BY <1>1, StepKeepsLocks
<1>2. ASSUME UNCHANGED <<advisory, step, draft, rowLock>> PROVE LocksInv'
    BY <1>2 DEF LocksInv, LockTypes, HoldersKnown
<1>3. ASSUME NEW t \in Tenants, Tamper(t), UNCHANGED rowLock PROVE LocksInv'
    BY <1>2, <1>3 DEF Tamper
<1>4. CASE UNCHANGED vars /\ UNCHANGED rowLock
    BY <1>2, <1>4 DEF vars, chainVars
<1> QED
    BY <1>1, <1>3, <1>4 DEF LedgerNext, Quiet, ledgerVars

\* The invariant holds in every reachable state.
THEOREM LocksInvariant == LedgerSpec => []LocksInv
BY LocksInit, LocksStep, PTL DEF LedgerSpec

\* Who waits for the tenant's lock waits for a transaction that, unless it
\* is a delete at a regional source, waits for nothing; who waits for a row
\* waits for one that can only wait for the tenant's lock.
LEMMA NoCircleOtherwise == LocksInv => DeadlockNeedsHttpDelete
<1> SUFFICES ASSUME LocksInv, NEW S \in SUBSET Writers, Circular(S),
                    \A w \in S : Role[w] # "httpDelete"
             PROVE FALSE
    BY DEF DeadlockNeedsHttpDelete
<1>1. ASSUME NEW u \in S, step[u] # "none" PROVE FALSE
    BY <1>1 DEF Circular, WaitsFor, WantsRow, WantsAdvisory, RowOrder
<1>2. ASSUME NEW w \in S, NEW v \in S, WantsAdvisory(w), advisory[TenantOf[w]] = v
      PROVE FALSE
    BY <1>1, <1>2, ChainAssumption DEF LocksInv, HoldersKnown
<1>3. ASSUME NEW w \in S, NEW v \in S, WantsRow(w), rowLock[RowOf[w]] = v
      PROVE FALSE
  <2>1. HasRow(v)
      BY <1>3, RoleAssumption DEF LocksInv, HoldersKnown, HasRow
  <2>2. \E u \in S : WantsAdvisory(v) /\ advisory[TenantOf[v]] = u
      BY <2>1 DEF Circular, WaitsFor, WantsRow
  <2> QED
      BY <1>2, <2>2
<1> QED
    BY <1>2, <1>3 DEF Circular, WaitsFor

\* For every tenant and any number of transactions, a deadlock between
\* append_audit's advisory lock and the row locks of refresh_request_status
\* and execute_task involves the result of a delete at a regional source.
THEOREM DeadlocksAreHttpDeletes == LedgerSpec => []DeadlockNeedsHttpDelete
BY LocksInvariant, NoCircleOtherwise, PTL

\* A step with its row locks is a step of AuditChain or leaves it alone.
LEMMA LedgerStepIsChainStep ==
    LocksInv /\ [LedgerNext]_ledgerVars => [Next]_vars
<1> SUFFICES ASSUME LocksInv, [LedgerNext]_ledgerVars
             PROVE Next \/ UNCHANGED vars
    OBVIOUS
<1>1. ASSUME NEW w \in Writers, Step(w) \/ RollbackAll(w), UNCHANGED tampered
      PROVE Append(w) \/ UNCHANGED vars
  <2>1. CASE RollbackAll(w) /\ step[w] = "none"
    <3>1. /\ advisory' = [t \in Tenants |-> IF advisory[t] = w THEN NoWriter
                                                              ELSE advisory[t]]
          /\ step' = [step EXCEPT ![w] = "none"]
          /\ draft' = [draft EXCEPT ![w] = NoWriter]
          /\ audit' = audit
        BY <2>1 DEF RollbackAll, EndTransaction
    <3>2. advisory' = advisory
        BY <2>1, <3>1, ChainAssumption DEF LocksInv, LockTypes, HoldersKnown
    <3>3. step' = step
        BY <2>1, <3>1 DEF LocksInv, LockTypes
    <3>4. draft' = draft
      <4>1. draft[w] = NoWriter /\ draft = [v \in Writers |-> draft[v]]
          BY <2>1 DEF LocksInv, LockTypes, HoldersKnown
      <4> QED
          BY <3>1, <4>1
    <3> QED
        BY <1>1, <3>1, <3>2, <3>3, <3>4 DEF vars, chainVars
  <2>2. CASE RollbackAll(w) /\ step[w] # "none"
      BY <1>1, <2>2 DEF RollbackAll, Append, Rollback
  <2>3. CASE Collide(w)
      BY <1>1, <2>3 DEF Collide, RollbackAll, Append, Rollback
  <2>4. CASE LockRow(w) \/ LockLedger(w) \/ AppendEvent(w) \/ CommitAll(w)
      BY <1>1, <2>4 DEF LockRow, LockLedger, AppendEvent, CommitAll, Append
  <2> QED
      BY <1>1, <2>1, <2>2, <2>3, <2>4 DEF Step
<1> QED
    BY <1>1 DEF LedgerNext, ledgerVars, Next, Quiet

\* The transactions with their row locks and the deadlock detector implement
\* AuditChain.
THEOREM LedgerImplementsChain == LedgerSpec => Spec
<1>1. LedgerInit => Init
    BY DEF LedgerInit
<1> QED
    BY <1>1, LocksInvariant, LedgerStepIsChainStep, PTL DEF LedgerSpec, Spec

\* Chains nobody edits verify, and edited ones do not, also when results,
\* verdicts and admissions block each other and deadlocks are broken by
\* aborting transactions.
THEOREM LedgerChainsVerify == LedgerSpec => [](ChainValid /\ TamperDetected)
BY LedgerImplementsChain, ChainsVerify, EditsAreDetected, PTL

\* And no append of theirs collides with another.
THEOREM LedgerAppendsDoNotCollide == LedgerSpec => []AppendNeverCollides
BY LedgerImplementsChain, AppendsDoNotCollide, PTL
=============================================================================
