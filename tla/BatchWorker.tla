----------------------------- MODULE BatchWorker -----------------------------
(***************************************************************************)
(* POST /admin/process-once: claim_tasks leases the oldest open tasks of a *)
(* tenant and process_once executes them one after the other, in one       *)
(* session, against the records in the database; the seed route adds       *)
(* records at any time.  The artifact goes to the local store              *)
(* (src/src/privacy_cloud/services/{worker,records,artifacts}.py,          *)
(* api/routes.py; source_executor is None).                                *)
(*                                                                         *)
(* A batch is one process_once call.  Nothing extends its leases.  Its     *)
(* session (expire_on_commit=False) keeps the rows it has read: a row in   *)
(* the session is not read again, locked or not, while the session holds   *)
(* the objects.  Request and tasks refer to each other after the first     *)
(* refresh, so Python frees them at its next cyclic collection, if any.    *)
(***************************************************************************)
EXTENDS Naturals, FiniteSets

CONSTANTS
    Requests, KindOf,   \* privacy_requests of one tenant and subject
    TaskCount,          \* request_tasks, numbered by created_at
    RequestOf, SourceOf,
    Seeds,              \* seed_records calls, each adds to every source
    Batches, WorkerOf,  \* process_once calls and their worker_id
    BatchSize,
    MaxOverruns,        \* bound: leases that expire under a running batch
    MaxCrashes,         \* bound: batches that raise or whose process exits
    Torn, NoFile, NoWorker, NoBatch, NoTask

Tasks == 1..TaskCount

ASSUME BatchAssumption ==
    /\ TaskCount \in Nat
    /\ RequestOf \in [Tasks -> Requests]
    /\ KindOf \in [Requests -> {"access", "delete"}]
    /\ DOMAIN SourceOf = Tasks
    /\ DOMAIN WorkerOf = Batches
    /\ BatchSize \in Nat \ {0}
    /\ MaxOverruns \in Nat /\ MaxCrashes \in Nat
    /\ NoTask \notin Tasks /\ NoBatch \notin Batches
    /\ \A S \in SUBSET Tasks : NoFile # S

VARIABLES
    status, attempt, owner, live,       \* request_tasks
    reqStatus, artifact, announced,     \* privacy_requests, terminal events
    rowLock,                            \* row lock of a request
    seeded, deleted,                    \* device_cloud_records
    temporary, file,                    \* local store: <id>.tmp and <id>.json
    pc, todo, task,                     \* of a batch: rest, current task
    cache,                              \* of a batch: the rows in its session
    found, checked,                     \* records selected, seeds read back
    overruns, crashes

taskVars == <<status, attempt, owner, live>>
requestVars == <<reqStatus, artifact, announced>>
recordVars == <<seeded, deleted>>
fileVars == <<temporary, file>>
batchVars == <<pc, todo, task, cache, found, checked>>
boundVars == <<overruns, crashes>>
vars == <<taskVars, requestVars, rowLock, recordVars, fileVars, batchVars,
          boundVars>>

-----------------------------------------------------------------------------
Terminal == {"succeeded", "failed"}
Final == {"completed", "partial", "failed"}
TasksOf(r) == {t \in Tasks : RequestOf[t] = r}
Req(b) == RequestOf[task[b]]

\* An UPDATE or SELECT ... FOR UPDATE waits for the row of a request.
Unlocked_Always(r) == TRUE
Unlocked(r) == rowLock[r] = NoBatch

\* _claimable.
Claimable_AnyLease(t) == status[t] \in {"pending", "running"}
Claimable_PendingOnly(t) == status[t] = "pending"
Claimable(t) == \/ status[t] = "pending"
                \/ status[t] = "running" /\ ~live[t]

\* ORDER BY created_at LIMIT batch_size.
Oldest(S) == {t \in S : Cardinality({u \in S : u < t}) < BatchSize}

\* The records of a source that are committed and not deleted.
Active(source) == (seeded \X {source}) \ deleted

\* What the readback of _execute_delete counts.
Remaining_NotChecked(b) == {}
Remaining(b) == Active(SourceOf[task[b]]) \ found[b]

\* The request status for a set of task statuses.
Aggregate_IgnoresRunning(S) ==
    IF S \subseteq {"pending"} THEN "queued"
    ELSE IF "pending" \in S THEN "running"
    ELSE IF S = {"failed"} THEN "failed"
    ELSE "completed"
Aggregate(S) ==
    IF S \subseteq {"pending"} THEN "queued"
    ELSE IF S \intersect {"pending", "running"} # {} THEN "running"
    ELSE IF S = {"succeeded"} THEN "completed"
    ELSE IF S = {"failed"} THEN "failed"
    ELSE "partial"

-----------------------------------------------------------------------------
\* A session: the statuses of the tasks and requests it holds, and whether
\* artifact_path was set.
Empty == [tasks |-> [t \in Tasks |-> "unread"],
          req |-> [r \in Requests |-> "unread"],
          art |-> [r \in Requests |-> FALSE]]

\* The session c after a SELECT of the tasks T with the request r: only what
\* is not in it yet is taken from the database.
Read(c, T, r) ==
    [tasks |-> [t \in Tasks |-> IF t \in T /\ c.tasks[t] = "unread"
                                THEN status[t] ELSE c.tasks[t]],
     req |-> [c.req EXCEPT ![r] = IF @ = "unread" THEN reqStatus[r] ELSE @],
     art |-> [c.art EXCEPT ![r] = IF c.req[r] = "unread"
                                  THEN artifact[r] ELSE @]]

\* The session c after the objects of r were collected.
Collected(c, r) ==
    [c EXCEPT !.tasks = [t \in Tasks |-> IF t \in TasksOf(r) THEN "unread"
                                                             ELSE @[t]],
              !.req[r] = "unread"]

\* refresh_request_status in the session of b: the status, and what follows.
Verdict(b) == Aggregate({cache[b].tasks[t] : t \in TasksOf(Req(b))})
BecameTerminal(b) ==
    Verdict(b) \in Final /\ cache[b].req[Req(b)] \notin Final
NeedsArtifact(c, r, verdict) ==
    KindOf[r] = "access" /\ verdict \in {"completed", "partial"} /\ ~c.art[r]
Document(b) == {t \in TasksOf(Req(b)) : cache[b].tasks[t] = "succeeded"}

\* b has claimed t and not finished it.
Holds(b, t) == \/ t \in todo[b]
               \/ task[b] = t /\ pc[b] \in {"execute", "delete", "commit"}

-----------------------------------------------------------------------------
Init ==
    /\ status = [t \in Tasks |-> "pending"]
    /\ attempt = [t \in Tasks |-> 0]
    /\ owner = [t \in Tasks |-> NoWorker]
    /\ live = [t \in Tasks |-> FALSE]
    /\ reqStatus = [r \in Requests |-> "queued"]
    /\ artifact = [r \in Requests |-> FALSE]
    /\ announced = {}
    /\ rowLock = [r \in Requests |-> NoBatch]
    /\ seeded = {} /\ deleted = {}
    /\ temporary = [r \in Requests |-> NoFile]
    /\ file = [r \in Requests |-> NoFile]
    /\ pc = [b \in Batches |-> "idle"]
    /\ todo = [b \in Batches |-> {}]
    /\ task = [b \in Batches |-> NoTask]
    /\ cache = [b \in Batches |-> Empty]
    /\ found = [b \in Batches |-> {}]
    /\ checked = [b \in Batches |-> {}]
    /\ overruns = 0 /\ crashes = 0

\* seed_records: one commit with records for every source.
Seed(s) ==
    /\ s \notin seeded
    /\ seeded' = seeded \union {s}
    /\ UNCHANGED <<taskVars, requestVars, rowLock, deleted, fileVars,
                   batchVars, boundVars>>

\* claim_tasks.  Its second UPDATE waits for the row of a queued request.
Claim(b) ==
    LET S == Oldest({t \in Tasks : Claimable(t)})
        R == {RequestOf[t] : t \in S} IN
    /\ pc[b] = "idle"
    /\ S # {}
    /\ \A r \in R : reqStatus[r] = "queued" => Unlocked(r)
    /\ status' = [t \in Tasks |-> IF t \in S THEN "running" ELSE status[t]]
    /\ attempt' = [t \in Tasks |-> IF t \in S THEN attempt[t] + 1
                                              ELSE attempt[t]]
    /\ owner' = [t \in Tasks |-> IF t \in S THEN WorkerOf[b] ELSE owner[t]]
    /\ live' = [t \in Tasks |-> t \in S \/ live[t]]
    /\ reqStatus' = [r \in Requests |->
                        IF r \in R /\ reqStatus[r] = "queued"
                        THEN "running" ELSE reqStatus[r]]
    /\ todo' = [todo EXCEPT ![b] = S]
    /\ pc' = [pc EXCEPT ![b] = "next"]
    /\ UNCHANGED <<artifact, announced, rowLock, recordVars, fileVars, task,
                   cache, found, checked, boundVars>>

\* Nothing to claim: the call returns.
EmptyClaim(b) ==
    /\ pc[b] = "idle"
    /\ \A t \in Tasks : ~Claimable(t)
    /\ UNCHANGED vars

\* The call of b is over and its session is closed.
EndBatch(b) ==
    /\ pc' = [pc EXCEPT ![b] = "idle"]
    /\ todo' = [todo EXCEPT ![b] = {}]
    /\ task' = [task EXCEPT ![b] = NoTask]
    /\ cache' = [cache EXCEPT ![b] = Empty]
    /\ found' = [found EXCEPT ![b] = {}]
    /\ checked' = [checked EXCEPT ![b] = {}]

\* The loop of process_once goes on with the tasks rest, in a session c.
Continue(b, rest, c) ==
    \/ rest = {} /\ EndBatch(b)
    \/ /\ rest # {}
       /\ pc' = [pc EXCEPT ![b] = "next"]
       /\ todo' = [todo EXCEPT ![b] = rest]
       /\ task' = [task EXCEPT ![b] = NoTask]
       /\ cache' = [cache EXCEPT ![b] = c]
       /\ found' = [found EXCEPT ![b] = {}]
       /\ checked' = [checked EXCEPT ![b] = {}]

First(S) == CHOOSE t \in S : \A u \in S : t <= u

\* The SELECT of execute_task compares with the database; the objects it
\* returns are those of the session, unless they were collected.
Matches(b, t) == status[t] = "running" /\ owner[t] = WorkerOf[b]
Load(b) ==
    LET t == First(todo[b]) IN
    LET r == RequestOf[t] IN
    /\ pc[b] = "next"
    /\ Matches(b, t)
    /\ \E c \in {cache[b], Collected(cache[b], r)} :
          cache' = [cache EXCEPT ![b] = Read(c, {t}, r)]
    /\ task' = [task EXCEPT ![b] = t]
    /\ todo' = [todo EXCEPT ![b] = @ \ {t}]
    /\ pc' = [pc EXCEPT ![b] = "execute"]
    /\ UNCHANGED <<taskVars, requestVars, rowLock, recordVars, fileVars, found,
                   checked, boundVars>>

\* Another batch took or finished the task: execute_task returns False.
LoadLost(b) ==
    /\ pc[b] = "next"
    /\ ~Matches(b, First(todo[b]))
    /\ Continue(b, todo[b] \ {First(todo[b])}, cache[b])
    /\ UNCHANGED <<taskVars, requestVars, rowLock, recordVars, fileVars,
                   boundVars>>

\* _execute_access: the active records are the receipt.
ExecuteAccess(b) ==
    /\ pc[b] = "execute"
    /\ KindOf[Req(b)] = "access"
    /\ cache' = [cache EXCEPT ![b].tasks[task[b]] = "succeeded"]
    /\ pc' = [pc EXCEPT ![b] = "commit"]
    /\ UNCHANGED <<taskVars, requestVars, rowLock, recordVars, fileVars, todo,
                   task, found, checked, boundVars>>

\* _active_records of a delete.  The SELECT flushes VERIFYING first, which
\* locks the request row, unless the session has that status already.
SelectRecords(b) ==
    LET r == Req(b) IN
    /\ pc[b] = "execute"
    /\ KindOf[r] = "delete"
    /\ \/ cache[b].req[r] = "verifying" /\ UNCHANGED rowLock
       \/ /\ cache[b].req[r] # "verifying"
          /\ Unlocked(r)
          /\ rowLock' = [rowLock EXCEPT ![r] = b]
    /\ cache' = [cache EXCEPT ![b].req[r] = "verifying"]
    /\ found' = [found EXCEPT ![b] = Active(SourceOf[task[b]])]
    /\ pc' = [pc EXCEPT ![b] = "delete"]
    /\ UNCHANGED <<taskVars, requestVars, recordVars, fileVars, todo, task,
                   checked, boundVars>>

\* The rest of _execute_delete: the flush waits for records another
\* transaction has deleted and not committed; then the readback, which sees
\* what was committed since.
DeleteRecords(b) ==
    /\ pc[b] = "delete"
    /\ \A c \in Batches \ {b} :
          pc[c] = "commit" => found[b] \intersect found[c] = {}
    /\ cache' = [cache EXCEPT ![b].tasks[task[b]] =
                    IF Remaining(b) = {} THEN "succeeded" ELSE "failed"]
    /\ checked' = [checked EXCEPT ![b] = seeded]
    /\ pc' = [pc EXCEPT ![b] = "commit"]
    /\ UNCHANGED <<taskVars, requestVars, rowLock, recordVars, fileVars, todo,
                   task, found, boundVars>>

\* The row locks of requests after the transaction of b.
Released(b) == [r \in Requests |-> IF rowLock[r] = b THEN NoBatch
                                                     ELSE rowLock[r]]

\* The finally block of execute_task: the task row by its key, VERIFYING when
\* this transaction wrote it, the deletions also of a failed readback.
CommitResult(b) ==
    LET t == task[b] IN
    /\ pc[b] = "commit"
    /\ status' = [status EXCEPT ![t] = cache[b].tasks[t]]
    /\ owner' = [owner EXCEPT ![t] = NoWorker]
    /\ live' = [live EXCEPT ![t] = FALSE]
    /\ deleted' = deleted \union found[b]
    /\ reqStatus' = [r \in Requests |-> IF rowLock[r] = b THEN "verifying"
                                                          ELSE reqStatus[r]]
    /\ rowLock' = Released(b)
    /\ pc' = [pc EXCEPT ![b] = "refresh"]
    /\ UNCHANGED <<attempt, artifact, announced, seeded, fileVars, todo, task,
                   cache, found, checked, boundVars>>

\* The SELECT ... FOR UPDATE of refresh_request_status with its tasks.
RefreshLoad(b) ==
    LET r == Req(b) IN
    LET c == Read(cache[b], TasksOf(r), r) IN
    /\ pc[b] = "refresh"
    /\ Unlocked(r)
    /\ rowLock' = [rowLock EXCEPT ![r] = b]
    /\ cache' = [cache EXCEPT ![b] = c]
    /\ pc' = [pc EXCEPT ![b] =
                 IF NeedsArtifact(c, r, Aggregate({c.tasks[t] : t \in TasksOf(r)}))
                 THEN "open" ELSE "store"]
    /\ UNCHANGED <<taskVars, requestVars, recordVars, fileVars, todo, task,
                   found, checked, boundVars>>

\* LocalArtifactStore.put_json: write_bytes truncates the temporary file and
\* fills it, replace moves it over the artifact (and raises without it).
OpenTemporary(b) ==
    /\ pc[b] = "open"
    /\ temporary' = [temporary EXCEPT ![Req(b)] = Torn]
    /\ pc' = [pc EXCEPT ![b] = "write"]
    /\ UNCHANGED <<taskVars, requestVars, rowLock, recordVars, file, todo,
                   task, cache, found, checked, boundVars>>
WriteTemporary(b) ==
    /\ pc[b] = "write"
    /\ temporary' = [temporary EXCEPT ![Req(b)] = Document(b)]
    /\ pc' = [pc EXCEPT ![b] = "replace"]
    /\ UNCHANGED <<taskVars, requestVars, rowLock, recordVars, file, todo,
                   task, cache, found, checked, boundVars>>
ReplaceFile(b) ==
    LET r == Req(b) IN
    /\ pc[b] = "replace"
    /\ temporary[r] # NoFile
    /\ file' = [file EXCEPT ![r] = temporary[r]]
    /\ temporary' = [temporary EXCEPT ![r] = NoFile]
    /\ cache' = [cache EXCEPT ![b].art[r] = TRUE]
    /\ pc' = [pc EXCEPT ![b] = "store"]
    /\ UNCHANGED <<taskVars, requestVars, rowLock, recordVars, todo, task,
                   found, checked, boundVars>>

\* The commit of refresh_request_status, then the next task of the batch.
RefreshCommit(b) ==
    LET r == Req(b) IN
    /\ pc[b] = "store"
    /\ reqStatus' = [reqStatus EXCEPT ![r] =
                        IF Verdict(b) # cache[b].req[r] THEN Verdict(b) ELSE @]
    /\ artifact' = [artifact EXCEPT ![r] = @ \/ cache[b].art[r]]
    /\ announced' = announced \union {s \in {r} : BecameTerminal(b)}
    /\ rowLock' = Released(b)
    /\ Continue(b, todo[b], [cache[b] EXCEPT !.req[r] = Verdict(b)])
    /\ UNCHANGED <<taskVars, recordVars, fileVars, boundVars>>

\* The call raises (the store, the database) or its process exits: the open
\* transaction rolls back, the leases of the batch stay.
Crash(b) ==
    /\ pc[b] # "idle"
    /\ crashes < MaxCrashes
    /\ crashes' = crashes + 1
    /\ rowLock' = Released(b)
    /\ EndBatch(b)
    /\ UNCHANGED <<taskVars, requestVars, recordVars, fileVars, overruns>>

\* lease_expires_at passes, also under a batch that has not come to the task.
LeaseExpire(t) ==
    /\ status[t] = "running"
    /\ live[t]
    /\ live' = [live EXCEPT ![t] = FALSE]
    /\ IF \E b \in Batches : Holds(b, t)
       THEN overruns < MaxOverruns /\ overruns' = overruns + 1
       ELSE UNCHANGED overruns
    /\ UNCHANGED <<status, attempt, owner, requestVars, rowLock, recordVars,
                   fileVars, batchVars, crashes>>

\* What the artifact route answers.
Download(r) ==
    IF ~artifact[r] THEN "409" ELSE IF file[r] = NoFile THEN "404" ELSE file[r]

BatchStep(b) ==
    \/ Load(b) \/ LoadLost(b) \/ ExecuteAccess(b) \/ SelectRecords(b)
    \/ DeleteRecords(b) \/ CommitResult(b) \/ RefreshLoad(b)
    \/ OpenTemporary(b) \/ WriteTemporary(b) \/ ReplaceFile(b)
    \/ RefreshCommit(b)

Next ==
    \/ \E s \in Seeds : Seed(s)
    \/ \E b \in Batches : Claim(b) \/ EmptyClaim(b) \/ BatchStep(b) \/ Crash(b)
    \/ \E t \in Tasks : LeaseExpire(t)

Spec == Init /\ [][Next]_vars

\* Somebody goes on calling process-once, calls that were started run, and
\* time passes.
Fairness ==
    /\ \A b \in Batches : WF_vars(Claim(b)) /\ WF_vars(BatchStep(b))
    /\ \A t \in Tasks : WF_vars(LeaseExpire(t))

FairSpec == Spec /\ Fairness

-----------------------------------------------------------------------------
\* As long as no lease expires under a running batch, a task belongs to one
\* batch only, from its claim to its result: the leases separate calls that
\* use one worker_id (the route's default), calls that crash included.
LeasesSeparateBatches ==
    overruns = 0 =>
        \A b, c \in Batches, t \in Tasks : Holds(b, t) /\ Holds(c, t) => b = c

\* A delete that is recorded as succeeded left no record of its source that
\* was committed before its readback, whatever was seeded or deleted by
\* others while it ran, and also when two batches ran it.
Succeeds(b) == /\ pc[b] = "commit" /\ pc'[b] = "refresh"
               /\ KindOf[Req(b)] = "delete"
               /\ cache[b].tasks[task[b]] = "succeeded"
DeleteVerified ==
    [][\A b \in Batches :
          Succeeds(b) => checked[b] \X {SourceOf[task[b]]} \subseteq deleted']_vars

\* A terminal request status is backed: every task of the request is
\* terminal, although it was computed from a session with old rows, the
\* event was written, and an access request has its artifact.
VerdictBacked ==
    \A r \in Requests :
        reqStatus[r] \in Final =>
            /\ \A t \in TasksOf(r) : status[t] \in Terminal
            /\ r \in announced
            /\ KindOf[r] = "access" /\ reqStatus[r] # "failed" => artifact[r]

\* From the moment the artifact route stops answering 409, it serves a whole
\* document with the receipts of all tasks, also while another batch with an
\* older session writes it again, and after crashes in the middle of that.
DownloadIsWhole ==
    \A r \in Requests :
        artifact[r] => Download(r) = {t \in TasksOf(r) : status[t] = "succeeded"}

\* Every task settles while process-once is called, although nothing extends
\* the leases and calls crash.
EveryTaskSettles == \A t \in Tasks : <>(status[t] \in Terminal)

\* A request all of whose tasks succeeded reads completed in the end.
SucceededCompletes ==
    \A r \in Requests :
        (\A t \in TasksOf(r) : status[t] = "succeeded")
            ~> reqStatus[r] = "completed"

-----------------------------------------------------------------------------
(* The inductive invariant behind the safety properties.                     *)

Labels == {"idle", "next", "execute", "delete", "commit", "refresh", "open",
           "write", "replace", "store"}
TaskStates == {"pending", "running"} \union Terminal
RequestStates == {"queued", "running", "verifying"} \union Final
Sessions == [tasks : [Tasks -> TaskStates \union {"unread"}],
             req : [Requests -> RequestStates \union {"unread"}],
             art : [Requests -> BOOLEAN]]

TypeOK ==
    /\ status \in [Tasks -> TaskStates]
    /\ live \in [Tasks -> BOOLEAN]
    /\ reqStatus \in [Requests -> RequestStates]
    /\ artifact \in [Requests -> BOOLEAN]
    /\ rowLock \in [Requests -> Batches \union {NoBatch}]
    /\ DOMAIN temporary = Requests /\ DOMAIN file = Requests
    /\ pc \in [Batches -> Labels]
    /\ todo \in [Batches -> SUBSET Tasks]
    /\ task \in [Batches -> Tasks \union {NoTask}]
    /\ cache \in [Batches -> Sessions]
    /\ DOMAIN found = Batches /\ DOMAIN checked = Batches
    /\ overruns \in Nat

\* Until a lease expires under its batch, the claim of a task is visible.
ClaimsVisible ==
    overruns = 0 =>
        \A b \in Batches, t \in Tasks :
            Holds(b, t) => status[t] = "running" /\ live[t]

\* Where a batch stands fits the task it works on.
PhaseOK(b) ==
    /\ pc[b] \notin {"idle", "next"} => task[b] \in Tasks \ todo[b]
    /\ pc[b] = "next" => todo[b] # {}
    /\ pc[b] = "delete" => KindOf[Req(b)] = "delete"
    /\ pc[b] = "commit" => cache[b].tasks[task[b]] \in Terminal

\* An access task cannot fail.
CanFail(t) == KindOf[RequestOf[t]] = "delete"

\* What a session believes of a task is not ahead of the database, except
\* for the result it is about to commit.
NotAhead(b) ==
    \A t \in Tasks :
        /\ cache[b].tasks[t] \in Terminal =>
              status[t] \in Terminal \/ (pc[b] = "commit" /\ task[b] = t)
        /\ cache[b].tasks[t] = "failed" => CanFail(t)

\* The artifact of r is the whole document, and will stay that.
Whole(r) == /\ KindOf[r] = "access" /\ file[r] = TasksOf(r)
            /\ \A t \in TasksOf(r) : status[t] = "succeeded"

\* A session that holds a final request knows an announced one, and one that
\* holds an artifact knows a whole one.
RequestsKnown(b) ==
    \A r \in Requests : /\ cache[b].req[r] \in Final => r \in announced
                        /\ cache[b].art[r] => Whole(r)

\* The batch that refreshes a request holds its row and has read its tasks;
\* the one that writes an artifact is alone with the temporary file and has
\* all receipts; the one that stores a verdict has the artifact.
RefreshOK(b) ==
    /\ pc[b] \in {"open", "write", "replace", "store"} =>
          /\ rowLock[Req(b)] = b
          /\ \A t \in TasksOf(Req(b)) : cache[b].tasks[t] # "unread"
    /\ pc[b] \in {"open", "write", "replace"} =>
          /\ KindOf[Req(b)] = "access"
          /\ \A t \in TasksOf(Req(b)) : cache[b].tasks[t] = "succeeded"
    /\ pc[b] = "replace" => temporary[Req(b)] = TasksOf(Req(b))
    /\ /\ pc[b] = "store" /\ KindOf[Req(b)] = "access"
       /\ Verdict(b) \in {"completed", "partial"}
       => cache[b].art[Req(b)]

\* A readback without remaining records accounts for every record it saw.
ReadbackOK(b) ==
    /\ pc[b] = "commit" /\ KindOf[Req(b)] = "delete"
    /\ cache[b].tasks[task[b]] = "succeeded"
    => checked[b] \X {SourceOf[task[b]]} \subseteq deleted \union found[b]

SessionOK(b) == /\ PhaseOK(b) /\ NotAhead(b) /\ RequestsKnown(b)
                /\ RefreshOK(b) /\ ReadbackOK(b)

\* The rows agree with each other and with the store.
RowsOK ==
    /\ \A t \in Tasks : status[t] = "failed" => CanFail(t)
    /\ VerdictBacked
    /\ \A r \in Requests : artifact[r] => Whole(r)

\* All of it.
BatchInv ==
    /\ TypeOK
    /\ ClaimsVisible /\ LeasesSeparateBatches
    /\ \A b \in Batches : SessionOK(b)
    /\ RowsOK
=============================================================================
