# A formal model of FleetPrivacy Control Plane

TLA+ modules, TLC configurations and TLAPS proofs for the part of the
repository that decides whether a privacy request is handled correctly:
admission under idempotency keys, the audit chain, the transactional outbox,
the leased execution of source tasks by queue workers and by the batch endpoint,
the deletion of source records, the aggregation of a request and its artifact,
the locks all of them share, and the admission window in front of a regional
source.

All paths below are relative to the repository root; the Python package is
`src/privacy_cloud`.

## 1. The system

| Component | Code | State | Operations |
|---|---|---|---|
| Request admission | `services/requests.py`, `POST /privacy-requests` in `api/routes.py`, `schemas.py` | `privacy_requests`, `request_tasks`, unique (tenant, key) | `create_privacy_request` |
| Audit chain | `services/events.py` | `audit_events`, the tenant's advisory lock | `append_audit`, `verify_audit_chain` |
| Outbox relay | `services/outbox.py` | `outbox_events.published_at`, row locks | `enqueue_outbox`, `relay_outbox_once` |
| Task queue | `services/queue.py` | SQS messages: visibility, receipt handles, receive counts, dead-letter queue | `publish`, `receive`, `heartbeat`, `ack`, `consume_with_heartbeat` |
| Queue worker | `services/queue_worker.py`, `services/worker.py` | task rows with lease and attempt, request rows, one session per step | `claim_message_task`, `execute_task`, `refresh_request_status`, `extend_task_lease`, `run_worker` |
| Batch worker | `claim_tasks`, `process_once` in `services/worker.py`, `POST /admin/process-once` | the same rows, one session per batch | claim a batch, execute it in order |
| Source records | `services/records.py`, `_execute_access`, `_execute_delete` | `device_cloud_records` | seed, select, soft delete, readback |
| Regional source admission | `services/adaptive_concurrency.py`, `services/source_connectors.py` | Redis window and in-flight set per (tenant, source) | the two Lua scripts, `RegionalSourceExecutor.execute` |
| Artifact store | `services/artifacts.py` | one object per access request; locally a temporary file and the file it replaces | `put_json`, `presign_get`, the download route |
| Reads, security, configuration, metrics, benchmarks, infrastructure | the rest | none of their own | |

How they interact. A POST commits the request, its tasks, one
`privacy_task.ready` outbox row per task and the first audit event in one
transaction. Every pass of a worker process first relays outbox rows to the
queue and then receives messages; up to ten `consume_task_message` calls run
concurrently in one process and share its `worker_id`. A call claims the task
row, calls the source, commits the result with an audit event, and refreshes
the parent request. The refresh aggregates the task rows, writes the access
artifact, and announces a terminal status with an outbox and an audit event. A
message is deleted only when the call returned `True`.

What is hard here:

* the queue delivers at least once, the relay can send an event twice, and the
  database lease, the visibility timeout and the receive count are three clocks
  that expire independently of the handler that is still working;
* a handler works with an SQLAlchemy session created with
  `expire_on_commit=False`: what it read of its task and of the request before
  the source call is what it aggregates with afterwards, even under
  `SELECT ... FOR UPDATE`;
* the task result and the request status are two commits, the object store and
  the queue are outside both, and a process can stop between any two;
* the batch endpoint executes its tasks one after the other in one session,
  extends no lease, shares a default `worker_id` between calls, and nothing
  repeats a refresh that a call did not come to;
* records may be seeded or deleted by others between a delete's selection, its
  readback and its commit;
* admissions and workers append to one hash chain per tenant;
* waits: the unique index of a key, the tenant's advisory lock and the row lock
  of a request, which not all transactions take in one order;
* the in-flight set in Redis counts holders by task id and forgets them by
  time.

The properties that make each part correct are listed with the runs in
section 3. `PROJECT.json` lists the hazards, each at the line where it bites,
with the properties that would catch it.

## 2. Modules

```
RequestContract      what is promised for a request and its tasks
  ^ refines
TaskWorker           queue, leases, execution, refresh, artifact
  MCTaskWorker       TLC instances
  TaskWorker_proofs          type correctness; what survives failed heartbeats
  TaskWorkerSafety_proofs    the inductive invariants and what follows from
                             them, the refinement included

IdempotencyContract  what is promised for an idempotency key
  ^ refines
Intake               create_privacy_request in steps, composed with AuditChain
  MCIntake, Intake_proofs

AuditChain           append_audit in steps, verify_audit_chain, table edits
  AuditChain_proofs
  ^ extended by
LedgerLocks          the appending transactions with their row locks
  MCLedgerLocks, LedgerLocks_proofs

AtLeastOnce          what is promised for an outbox event
  ^ refines
OutboxRelay          relay_outbox_once in steps
  MCOutboxRelay, OutboxRelay_proofs

BatchWorker          process_once, source records, local artifact store
  MCBatchWorker, BatchWorker_proofs

Admission            the Redis scripts and RegionalSourceExecutor.execute
  MCAdmission, Admission_proofs
```

### TaskWorker

One action is one database transaction, one queue call, one object-store call
or one source call. Task rows are `status`, `attempt`, `owner` (`lease_owner`),
`live` (`lease_expires_at` is in the future) and `receipt` (`result_summary` is
set); `trail` holds the audit events of a task. `reqStatus`, `artifact` and
`completions` (terminal outbox and audit events) are the request row, `rowLock`
its row lock from `SELECT ... FOR UPDATE` to the commit, `object` the receipts
inside the stored artifact. `published`, `place`, `receives` and `holder` are the
outbox row and the queue. A handler has a control point `pc`, a message, a
heartbeat and `local`, the part of its session that it will use again.

| Action | Code |
|---|---|
| `Publish` | `relay_outbox_once` seen from the queue: a copy is sent, `published_at` is committed or the relay exits first |
| `Receive`, `DeadLetter`, `VisibilityExpire` | `SqsTaskQueue.receive`, the redrive policy, the visibility timeout |
| `ClaimRead` | `handle_task_envelope` up to the first read of `claim_message_task` |
| `Claim`, `Busy` | the conditional UPDATE, the request UPDATE and the commit, or the rollback |
| `Load`, `LoadLost` | the SELECT of `execute_task` |
| `Execute`, `CommitResult` | the source call; the `finally` block |
| `RefreshLoad`, `PutArtifact`, `RefreshCommit` | `refresh_request_status` |
| `Ack`, `Abort` | the end of `consume_with_heartbeat`; an exception or exit of the process, the open transaction rolls back |
| `Heartbeat`, `HeartbeatDies`, `LeaseExpire` | `extend_task_lease`, the end of `maintain_visibility` after an exception, the clock |

The two clocks are events. With `HeartbeatMayFail = FALSE` a lease or a message
that a running handler keeps alive does not expire (the heartbeat period is
shorter than both timeouts); with `TRUE` a heartbeat task may end at any time
while its handler goes on, and then both may expire under it.

SQLAlchemy writes only changed attributes: `RefreshCommit` writes the status
when it differs from what the session holds, and `CommitResult` writes
`VERIFYING` unless the session had read that status. The UPDATE of the task
row in `CommitResult` names the primary key only, as in the code.

### AuditChain and Intake

A writer of `AuditChain` takes the advisory lock, reads the head, flushes and
commits or rolls back in separate steps; a committed row is visible to others,
a flushed one only to the unique index. The digest of an envelope is the tuple
it covers: SHA-256 is taken to be free of collisions. `Tamper` edits the table
behind the service: one field of one row, an exchange of two rows, or the
removal of a row that is not the last. Removing the last rows, and rewriting a
whole suffix with recomputed digests, is not detectable by this chain and is
not among the edits.

`Intake` composes the steps of `create_privacy_request` with `AuditChain`: the
first lookup, the flush that waits for a pending insert of the same key, the
append, the commit, the answer, and the lookup after an `IntegrityError`. A
process may exit at any step; the client then submits again. `Normal` is the
normalisation in `hash_subject`.

### LedgerLocks

`TaskWorker` appends an audit event atomically with the commit that carries it.
`LedgerLocks` opens that commit: it extends `AuditChain` with the row lock of
the writer's request, in the order the code takes the two.

| Role | Order | Why |
|---|---|---|
| `refresh` | row, then advisory | `SELECT ... FOR UPDATE` comes first |
| `dbDelete` | row, then advisory | the SELECT of `_active_records` flushes `VERIFYING` |
| `httpDelete` | advisory, then row | `append_audit` takes its lock before the first ORM query of the transaction flushes `VERIFYING` |
| `other` | advisory only | admissions and access results lock no row others want |

`Detect` is PostgreSQL's deadlock detector: it aborts a member of a circular
wait. Only the fairness mentions it, because an abort is a `RollbackAll`, which
may happen at any time.

### OutboxRelay and AtLeastOnce

Relays select unlocked, unpublished rows, oldest first, send them one by one,
and commit the confirmed ones together. Sends fail, processes exit. Rows are
numbered by `created_at`, and may be committed in another order. `AtLeastOnce`
is what a consumer may rely on: an event is handed over any number of times,
never after it was marked as published, and is not marked before it was handed
over. `Publish` of `TaskWorker` is its `HandOver`, with or without its `Mark`.

### BatchWorker

A batch is one `process_once` call. `Claim` is the transaction of `claim_tasks`:
it holds no lock when it ends, so `SKIP LOCKED` has nothing to skip. For each
task there follow the SELECT of `execute_task` (`Load`, `LoadLost`), the source
(`ExecuteAccess`, or `SelectRecords` and `DeleteRecords`), the `finally` block
(`CommitResult`), and the refresh with the local store's three file operations
(`RefreshLoad`, `OpenTemporary`, `WriteTemporary`, `ReplaceFile`,
`RefreshCommit`). `Seed` is the seed route, `Crash` an exception or exit,
`LeaseExpire` the clock, also under a batch that has not come to its task.

`cache` is the session. SQLAlchemy gives back an object the session still holds
with the attributes it has, whatever a SELECT returns, so `Read` takes from the
database only what is not there yet. The identity map is weak, and a request and
its tasks refer to each other once they were loaded together, so they live until
Python's cyclic collector runs: `Load` chooses whether it has. A
delete writes `VERIFYING` with the flush before its first SELECT, unless the
session has that status already, and holds the request row until its commit. The
deletions of a failed readback are committed, as in the code.
`attempt` is only written: no retry exists on this path.

### Admission

Each Lua script is one step. `entry` is a task's member of the in-flight set:
absent, live, or expired and not yet purged. A call keeps the last limit it saw
and passes it as the default of the next script call. A call may raise, exit
anywhere, fail to publish its decision or fail to release. Nothing ties a call to
its entry: an entry expires whether or not its call runs, two attempts of a task
run at once after a lost lease and share the entry, and the release of one of
them removes it. `stray` is a history variable, which no action reads: the
running calls to which one of these things has happened.
The decrease ratio is the fraction `RatioNum / RatioDen` (0.65 = 13/20).

## 3. What is checked

| Run | Question and answer |
|---|---|
| `worker_access` | An access request with two sources, two processes, a duplicated message, retries, crashes: one executor per task (`SingleExecutor`), terminal rows unchanged (`TerminalIsFinal`), no lost wake-up (`NoLostWakeup`), a message whose delivery repeats the refresh after a crash between the two commits, though it may be in the dead-letter queue (`AggregateRecoverable`), terminal status agrees with the rows (`VerdictAgrees`), the artifact has exactly the successful receipts (`ArtifactComplete`) and keeps them once its path is recorded, also when a later refresh writes it again (`ArtifactStable`), and the audit trail agrees with the attempts: none is recorded twice, a failure is final only after the last attempt and a retry is scheduled only before it (`AuditTrailAgrees`). |
| `worker_delete` | A delete request handled by two handlers of one process, which share a `worker_id` and write `VERIFYING`, over the database source with a duplicated message: the inductive invariant `SafetyInv`, recovery, and the refinement of `RequestContract`. Retries and duplicates together break the contract: see `finding_terminal_request`. |
| `worker_settles` | Liveness: every request settles or has a message in the dead-letter queue. With source retries and one message per task the worker implements `RequestContract`. |
| `worker_heartbeat_failure` | What survives failed heartbeats: success has its receipt and audit event, artifacts hold committed receipts only (`SuccessIsBacked`), every terminal status was announced (`VerdictAnnounced`). |
| `intake` | Four submissions for two keys: one request per key with exactly its events (`OneRequestPerKey`), consistent answers (`AnswersAgree`), a sound chain shared with a worker (`ChainSound`); admission implements `IdempotencyContract`; no submission waits for ever. |
| `ledger` | A refresh, both kinds of delete result and another append of one tenant, three of them on one request: chains verify (`ChainValid`), appends never collide (`AppendNeverCollides`), every modelled edit is detected and stays detected after further appends (`TamperDetected`). Circular waits happen; each involves a delete at a regional source (`DeadlockNeedsHttpDelete`), and every wait ends (`WaitsEnd`). |
| `batch` | Two calls of `process-once` with the default `worker_id` over an access and a delete request: a task belongs to one call unless its lease ran out under a call (`LeasesSeparateBatches`); a terminal status is backed by terminal tasks, an announcement and an artifact, although computed from old rows (`VerdictBacked`); a download is whole although all writers use one temporary file (`DownloadIsWhole`); a delete that succeeded left nothing its readback could see, seeding and a second executor included (`DeleteVerified`); every task settles (`EveryTaskSettles`). |
| `outbox_relay` | A published row was sent; copies beyond the first are bounded by the faults; an event the queue always refuses does not stop later ones while fewer events are refused than a batch holds; the relays implement `AtLeastOnce`. |
| `admission` | The window stays in bounds (`WindowTypeOK`). The code does not keep the calls at the source below the window: a call that outlives its entry, or shares it with another attempt, runs uncounted. `ExcessIsStray` and `AdmissionRespectsWindow` say that nothing else exceeds it, and that the other calls stay bounded meanwhile: no purge, crash, failed release or attempt that gives up costs another call its slot. No slot is lost for ever to a crashed call, a failed release or a shared entry (`CapacityReturns`). |

Three runs show a disagreement between the code and what the repository says of
it; `PROJECT.json` has the quotations.

| Run | What it shows |
|---|---|
| `finding_terminal_overwritten` | A handler whose heartbeat failed loses its lease, another finishes the task, and the first one's result commit overwrites the terminal row. |
| `finding_terminal_request` | A handler of the same request whose session read it before it became terminal does not leave it alone: it announces the completion again, comparing with the status in its session and not with the row it locked. |
| `finding_batch_stuck` | Two calls of `process-once` execute three tasks of one request, without a crash or an expired lease. The first to finish its tasks sees the other's last task running; the other one's session holds the first one's task as running. All tasks succeed and the request stays `running` for ever. |

`TerminalRequestUntouched` has two halves, one about the announcements and one
about the status. Each is violated when it is checked alone: a handler that
scheduled a retry and refreshes late, after a duplicate message let another one
finish the task, makes a completed request open again. The same late refresh can
commit `queued` after another handler has claimed a task, which contradicts
`docs/api.md:114` (`queued` means that all selected source tasks are pending);
the status is corrected by the next refresh.

### Bounds

* Worker: one request with one or two tasks, two handlers, two or three
  messages. The properties relate one task or one request to two handlers, and
  two handlers are what every race in this code takes. `MaxAttempts = 2`
  has a retry and a last attempt; `MaxReceives` 2 or 3 has a redelivery and a
  dead letter. Attempts need no bound of their own: each needs a delivery.
* Intake: four submissions, so that an equivalent and a conflicting repetition
  race with the first and another key is admitted beside them; `MaxRetries` bounds
  the resubmissions of all calls, `MaxAppends` the events of one worker.
* LedgerLocks: one transaction of each role, so that the two lock orders meet on
  one row and a bystander waits for the chain; one event each, `MaxAppends` = 1,
  and chains of four rows for the edits. Tenants share nothing.
* Batch: two calls, batches of two, three tasks, so that the batches split a
  request and one of them works on both requests; `MaxOverruns` = 2 lets both
  calls lose a lease, `MaxCrashes` = 1 stops one of them anywhere. One seed is
  enough: what matters is whether it is committed before or after a readback.
  `finding_batch_stuck` has no overruns and no crashes.
* OutboxRelay: four events, batches of two, two relays, `MaxFaults` of two exits
  or transient errors.
* Admission: three tasks, one of them attempted twice, a window of 1 or 2,
  so that decrease, increase, minimum and maximum all happen and more calls
  wait than it admits. An entry lives 35 seconds with the default settings while
  each phase of a call has a timeout of 10, so no bound relates the two and
  entries expire at any time.

Symmetry is used for handlers, processes and writers, in runs of safety
properties only.

### Fairness

* Workers loop for ever (`run_worker`), relay in each pass, and finish their
  calls; visibility timeouts and leases run out by the clock; the redrive
  policy is the queue's. Nothing is assumed about source outcomes, aborts or
  failing heartbeats.
* Intake: strong fairness for a submission stands for PostgreSQL's lock queues:
  a waiter whose lock becomes free again and again is granted it.
  Crashed submissions are repeated at most `MaxRetries` times in all.
* LedgerLocks: transactions run on, the detector acts on a circular wait
  (`deadlock_timeout`), and strong fairness of the two lock requests is
  PostgreSQL's queue of waiters.
* Batch: an operator or a scheduler goes on calling `process-once`, calls that
  were started run, leases run out. The endpoint has no loop of its own, so this
  is an assumption about its caller; without it no task need ever run.
* Admission: waiting calls poll, entries expire by time. Window expiry
  and crashes are not fair.

## 4. What is proved

TLAPS proves these for every value of the constants, hence any number of
requests, tasks, handlers, processes, messages, relays, calls, writers and
events.

| Module | Theorems | Premise |
|---|---|---|
| `TaskWorker_proofs` | `TypeCorrect`, `BackedInvariant`, `TerminalAnnounced`, `SuccessBacked` | |
| `TaskWorkerSafety_proofs` | `SafetyInvariant`, `OneExecutorPerTask`, `WakeupKept`, `VerdictSound`, `TerminalRowsFinal`, `RefreshInvariant`, `AuditTrailSound`, `ArtifactsComplete`, `AggregatesRecoverable`, `ArtifactsStable` | heartbeats do not fail |
| `TaskWorkerSafety_proofs` | `WorkersImplementContract` | heartbeats do not fail, and the source does not retry or every task has one message (`NoLateRetry`) |
| `Intake_proofs` | `IntakeInvariant`, `CallsTyped`, `RequestsUnique`, `AnswersConsistent`, `ChainsSound`, `IntakeImplementsContract` | |
| `AuditChain_proofs` | `ChainInvariant`, `ChainsVerify`, `AppendsDoNotCollide`, `EditsAreDetected` | |
| `LedgerLocks_proofs` | `LocksInvariant`, `DeadlocksAreHttpDeletes`, `LedgerImplementsChain`, `LedgerChainsVerify`, `LedgerAppendsDoNotCollide` | |
| `OutboxRelay_proofs` | `RelayInvariant`, `PublishedRowsWereSent`, `CopiesAreFaults`, `RelayImplementsAtLeastOnce` | |
| `BatchWorker_proofs` | `BatchInvariant`, `LeasesSeparate`, `VerdictsBacked`, `DownloadsWhole`, `DeletesVerified` | |
| `Admission_proofs` | `WindowInBounds`, `AdmissionInvariant`, `ExcessOnlyStray`, `AdmissionsRespectWindow` | |

The assumptions are the `ASSUME`s of the modules, which TLC evaluates in the
runs. The premises cannot be dropped. `finding_terminal_overwritten` shows what
a failed heartbeat does to a terminal row, and `finding_terminal_request` what a
retry and a duplicate do to a terminal request.

Arguments.

`SafetyInv` (worker). `SingleExecutor` is not inductive: a claim is conditional
on the row, not on other handlers. `SafetyInv` adds that a handler inside a call
beats and holds its message (`MessageHeld`), that an executing handler holds the
live lease (`LeaseHeld`), so no claim succeeds against it, and that what a handler
concluded about its task remains true until it acts on it (`ResultHeld`,
`VerdictHeld`): terminal rows do not change, so a terminal status computed from
a cached row is still the aggregate when it is committed. `NoLostWakeup` follows
because an acknowledgement is preceded by a terminal row.

`RefreshInv` (worker) is a second layer; `FullInv` is both. A session that runs
its task read the request before it was terminal (`SessionHeld`); the row lock
of a refresh is held from the SELECT to the commit (`RowHeld`), so that the
receipts it stores are the committed ones (`ArtifactHeld`, `ArtifactSound`); and
a request whose tasks are all terminal while its status is not has a task whose
handler or message still leads to a refresh (`SiblingWakes`, `RefreshDue`). The
trail of a running task ends before its attempt (`TrailOpen`). `ContractInv`
adds what the refinement of `RequestContract` needs: no session will take a
verdict back.

`BackedInv` (worker) needs no premise: it speaks of what a session will
write, not of who else runs. A session that will record a success brings the
receipt and the audit event in the same commit, and whatever writes a terminal
status writes its announcement.

`ChainInv` (audit chain) says that a writer inside `append_audit` holds its
tenant's lock, so that there is one per tenant. A chain nobody edited is
`Sound`: its rows are events numbered without gaps, they verify, and the event
a writer built still follows them; appending the successor of the last row
keeps this (`AppendSound`). An edited chain is `Broken`: it has a row whose digest
is wrong, which nothing mends since rows are only added, or an orphan whose
predecessor is gone and whose number no append takes, because what
writers built is numbered above every row (`Ahead`). `EditsBreak` shows that each
modelled edit of a sound chain breaks it in one of these ways.

`LocksInv` says who can hold a lock: the holder of a tenant's advisory lock is
inside `append_audit`, and the holder of a row works on that request. In a
circular wait without a delete at a regional source, the holder of the advisory
lock would have to wait, and inside `append_audit` it waits for nothing; so
nobody waits for the advisory lock, and the holder of a row could wait for
nothing else. `LedgerImplementsChain` shows that a step with row locks is a step
of `AuditChain`, or none, so the theorems about the chain carry over.

`IntakeInv` (admission of requests) contains `ChainInv` for the chains of the
composition, and uses the proofs of `AuditChain` through an instance of
`AuditChain_proofs`. It adds that a request row is the row of the call whose id
it has (`RowsDescribed`), that a call is inside `append_audit` only between its
flush and its commit (`AppendsInside`), that a flushed row is the only one of
its key, committed or not (`FlushedAlone`), that a call which saw a committed
row will find it again (`RequestThere`), and that a call is answered once
(`AnsweredOnce`). The refinement maps a key to the command of its row and a call
to what it was told.

`RelayInv` says that a pass holds the locks of its rows, that they are
unpublished, and counts the copies of an event against the faults: an
unconfirmed, unpublished event has at most as many copies as there were faults.
The refinement of `AtLeastOnce` needs it twice: a row that is being sent is
locked, hence unmarked, and what a pass marks was sent.

`BatchInv` (batch calls). The difficulty is the session, which may hold old
rows. `SessionOK` says per call that a task its session holds as terminal is
terminal in the database, or is the one whose result it will commit
(`NotAhead`), that a request it holds as final was announced and an artifact it
knows is whole (`RequestsKnown`), what a refresh will commit (`RefreshOK`), and
what a delete's readback accounts for (`ReadbackOK`). All writers of a request
use one temporary file, but a writer holds the request row and has read every
task as succeeded, so what it replaces the artifact with is the whole document,
now and later (`Whole`). `RowsOK` relates the rows and the store. Until a lease
runs out under a call, the claim of every task it holds is visible to the others
(`ClaimsVisible`), so claims are disjoint.

`AdmissionInv` says that a running call which did not stray has a live entry and
is the only running call of its task (`OwnEntry`). An entry is keyed by the
task: a purge takes expired entries only, and a release takes the entry of its
own task, where a second running call is a stray already. So these calls map one
to one into the entries that `ZCARD` counts, and the script compares that number
with the window.

Only model-checked: liveness (`EveryRequestSettles`, `EveryCallAnswered`,
`WaitsEnd`, `EveryTaskSettles`, `HealthyEventsPublished`, `CapacityReturns`),
because fairness and `ENABLED` are outside this prover. Every invariant, action
property and refinement that a passing run checks is also a theorem, under the
premises above.

## 5. What is not modelled

* SQLite, which serialises writers, and `LocalTaskQueue`, which drops a message
  when it is received: development adapters.
* FIFO queues, whose deduplication would only remove copies.
* Read routes, API key check, metrics, configuration, encodings, presigned
  URLs: they change no state a property is about. The download route is an
  operator of `BatchWorker`.
* `clear_seed_records`, which nothing calls, and
  `RegionalSourceClient.execute_batch`, used by benchmarks only; benchmarks,
  Terraform and Helm files.
* A request with an empty source list. The schema accepts it, it has no task and
  no ready event, and nothing ever refreshes it: it stays `queued`. The
  repository says nothing about this case.
* Row locks of tasks beside the advisory lock: only a handler whose lease was
  taken over meets another transaction there.
* Cancellation inside `execute_task` (`worker.py:306-323`). `CancelledError` is
  not an `Exception`: a single one during the source call would let the
  `finally` block commit a row that is still `RUNNING` and has no lease, which no
  claim takes again. Nothing in the repository cancels a handler: signals set
  `stop` and the pass finishes, `consume_with_heartbeat` cancels the heartbeat
  only, and the scope in which the API's HTTP middleware runs a route repeats a
  cancellation at every await, so the block does not reach its commit. `Abort`
  and `Crash` are therefore exits that roll back. The exception is SIGINT on a
  platform without `add_signal_handler`, which the deployment does not use.
* Batch calls and queue workers on the same rows at the same time: the two are
  alternatives of deployment, and each is modelled with its own concurrency.

Three documented details are contradicted by the code outside what the models
say: `docs/production-requirements.md:67` expects verification to return the
first invalid sequence, `verify_audit_chain` returns a boolean; `docs/api.md:11`
gives the key a minimum length of 8, the route 1; `docs/interview-deep-dive.md`
speaks of a decrease ratio of 0.5, the code uses 0.65.

## 6. Plan

Done, in this order: `TaskWorker` with `RequestContract`, `AuditChain`, `Intake`
with `IdempotencyContract`, `OutboxRelay`, `Admission`; `BatchWorker` with the
source records and the local artifact store, `LedgerLocks`, `AtLeastOnce`; the
proofs of section 4.

Next:

1. The worker without the premise on heartbeats: which parts of `SafetyInv`
   survive when a lease expires under its handler.
2. `Intake`, `TaskWorker` and `OutboxRelay` share the outbox table: a theorem
   that `Publish` of `TaskWorker` is a step of `AtLeastOnce`.
