----------------------------- MODULE TaskWorker -----------------------------
(***************************************************************************)
(* The queue-driven execution of privacy tasks: wake-up messages on an     *)
(* at-least-once queue, task rows leased in PostgreSQL, the regional       *)
(* source call, the task receipt, and the aggregation of the parent        *)
(* request with its access artifact                                        *)
(* (src/src/privacy_cloud/services/{worker,queue_worker,queue}.py).        *)
(*                                                                         *)
(* A handler is one concurrent consume_task_message call; the handlers of  *)
(* one process share its worker_id.  Each action is one database           *)
(* transaction, one queue call, one object-store call or one source call,  *)
(* so that every interleaving the code allows between them is a behaviour. *)
(***************************************************************************)
EXTENDS Naturals, Sequences, FiniteSets

CONSTANTS
    Requests,           \* privacy_requests rows
    Tasks,              \* request_tasks rows, created with their request
    RequestOf,          \* RequestTask.request_id
    KindOf,             \* PrivacyRequest.kind
    Workers,            \* worker_id values
    Handlers,           \* concurrent consume_task_message calls
    WorkerOf,           \* the process a handler runs in
    Messages,           \* queue messages, copies of one event included
    MsgTask,            \* payload.task_id of a message, or NoTask
    MaxAttempts,        \* settings.max_task_attempts
    MaxReceives,        \* maxReceiveCount of the redrive policy
    HttpSource,         \* source_backend = "http" (else "database")
    HeartbeatMayFail,   \* a heartbeat call may raise or come too late
    NoWorker, NoHandler, NoTask, NoMsg

ASSUME RowAssumption ==
    /\ RequestOf \in [Tasks -> Requests]
    /\ KindOf \in [Requests -> {"access", "delete"}]
ASSUME ProcessAssumption ==
    /\ WorkerOf \in [Handlers -> Workers]
    /\ NoWorker \notin Workers
    /\ NoHandler \notin Handlers
ASSUME QueueAssumption ==
    /\ MsgTask \in [Messages -> Tasks \union {NoTask}]
    /\ NoTask \notin Tasks
    /\ NoMsg \notin Messages
ASSUME LimitAssumption ==
    /\ MaxAttempts \in Nat \ {0}
    /\ MaxReceives \in Nat \ {0}
    /\ HttpSource \in BOOLEAN
    /\ HeartbeatMayFail \in BOOLEAN

VARIABLES
    \* request_tasks
    status, attempt, owner, live, receipt,
    \* audit_events of a task: one entry per persisted result
    trail,
    \* privacy_requests, its row lock, and its terminal outbox/audit events
    reqStatus, artifact, completions, rowLock,
    \* the object store: the receipts inside the object of a request
    object,
    \* outbox row of a task marked published, and the queue
    published, place, receives, holder,
    \* the handlers
    pc, msg, beating, local

taskVars == <<status, attempt, owner, live, receipt, trail>>
requestVars == <<reqStatus, artifact, completions>>
queueVars == <<published, place, receives, holder>>
handlerVars == <<pc, msg, beating, local>>
vars == <<taskVars, requestVars, rowLock, object, queueVars, handlerVars>>

-----------------------------------------------------------------------------
TaskStatus == {"pending", "running", "succeeded", "failed"}
Terminal == {"succeeded", "failed"}
RequestStatus ==
    {"queued", "running", "verifying", "completed", "partial", "failed"}
Final == {"completed", "partial", "failed"}

TasksOf(r) == {t \in Tasks : RequestOf[t] = r}
MessagesOf(t) == {m \in Messages : MsgTask[m] = t}

\* What a handler's session keeps after the rows were read
\* (expire_on_commit=False): its task, the request, and the aggregation
\* computed from them.  dup marks the session of a terminal duplicate.
Blank == [dup |-> FALSE, attempt |-> 0, own |-> "pending", req |-> "queued",
          art |-> FALSE, verdict |-> "queued", doc |-> {}]
Local == [dup : BOOLEAN, attempt : Nat, own : TaskStatus, req : RequestStatus,
          art : BOOLEAN, verdict : RequestStatus, doc : SUBSET Tasks]

Steps == {"idle", "handle", "claim", "load", "execute", "commit", "refresh",
          "artifact", "store", "ack"}

TaskOf(h) == MsgTask[msg[h]]
Req(h) == RequestOf[TaskOf(h)]
Deleting(h) == KindOf[Req(h)] = "delete"

\* A handler that claimed its task and has not committed a result.
Executing(h) == pc[h] \in {"load", "execute", "commit"}
-----------------------------------------------------------------------------
\* Claim a pending task, or a running one whose lease expired.
Claimable_AnyLease(t) == status[t] \in {"pending", "running"}
Claimable(t) == \/ status[t] = "pending"
                \/ status[t] = "running" /\ ~live[t]

\* The status execute_task writes after a source call that returned ok.
ResultStatus_OneMore(h, ok) ==
    IF ok THEN "succeeded"
    ELSE IF HttpSource /\ local[h].attempt <= MaxAttempts
         THEN "pending" ELSE "failed"
ResultStatus(h, ok) ==
    IF ok THEN "succeeded"
    ELSE IF HttpSource /\ local[h].attempt < MaxAttempts
         THEN "pending" ELSE "failed"

\* The request status for a set of task statuses.
Aggregate_IgnoresRunning(S) ==
    IF S \subseteq {"pending"} THEN "queued"
    ELSE IF "pending" \in S THEN "running"
    ELSE IF S = {"succeeded"} THEN "completed"
    ELSE IF S = {"failed"} THEN "failed"
    ELSE "partial"
Aggregate(S) ==
    IF S \subseteq {"pending"} THEN "queued"
    ELSE IF S \intersect {"pending", "running"} # {} THEN "running"
    ELSE IF S = {"succeeded"} THEN "completed"
    ELSE IF S = {"failed"} THEN "failed"
    ELSE "partial"

\* The task statuses a refreshing session works with: its own task is still
\* in the session, the siblings are read now.
SeenStatuses(h) ==
    {IF t = TaskOf(h) /\ ~local[h].dup THEN local[h].own ELSE status[t] :
        t \in TasksOf(Req(h))}

\* The receipts in the document that _write_artifact builds.
SeenReceipts_SiblingsOnly(h) ==
    {t \in TasksOf(Req(h)) \ {TaskOf(h)} : receipt[t]}
SeenReceipts(h) ==
    {t \in TasksOf(Req(h)) :
        IF t = TaskOf(h) /\ ~local[h].dup THEN t \in local[h].doc
                                          ELSE receipt[t]}

\* The refresh takes the request from a status the session knew as open to a
\* terminal one, which is announced.
BecameTerminal_SuccessOnly(h) ==
    local[h].verdict \in {"completed", "partial"} /\ local[h].req \notin Final
BecameTerminal(h) == local[h].verdict \in Final /\ local[h].req \notin Final

\* The artifact of r is due in a session with the values l.
NeedsArtifact_CompletedOnly(l, r) ==
    KindOf[r] = "access" /\ l.verdict = "completed" /\ ~l.art
NeedsArtifact(l, r) ==
    KindOf[r] = "access" /\ l.verdict \in {"completed", "partial"} /\ ~l.art

\* result_summary is set on success and kept otherwise.
Receipted_Forgotten(t, own) == receipt[t]
Receipted(t, own) == receipt[t] \/ own = "succeeded"

\* The audit action of a task result.
Action_RawStatus(own) == own
Action(own) == IF own = "pending" THEN "retry_scheduled" ELSE own

\* A message of a terminal task leads to a refresh of its request.
AfterDuplicate_AckAtOnce == "ack"
AfterDuplicate == "refresh"

\* The boolean handle_task_envelope returns; the message is acknowledged
\* only on True.
Handled_AnyResult(h) == TRUE
Handled(h) == local[h].dup \/ local[h].own = "succeeded"

\* Nobody holds the row lock of r.
Unlocked(r) == rowLock[r] = NoHandler

-----------------------------------------------------------------------------
Init ==
    /\ status = [t \in Tasks |-> "pending"]
    /\ attempt = [t \in Tasks |-> 0]
    /\ owner = [t \in Tasks |-> NoWorker]
    /\ live = [t \in Tasks |-> FALSE]
    /\ receipt = [t \in Tasks |-> FALSE]
    /\ trail = [t \in Tasks |-> << >>]
    /\ reqStatus = [r \in Requests |-> "queued"]
    /\ artifact = [r \in Requests |-> FALSE]
    /\ completions = [r \in Requests |-> 0]
    /\ rowLock = [r \in Requests |-> NoHandler]
    /\ object = [r \in Requests |-> {}]
    /\ published = [t \in Tasks \union {NoTask} |-> FALSE]
    /\ place = [m \in Messages |-> "unsent"]
    /\ receives = [m \in Messages |-> 0]
    /\ holder = [m \in Messages |-> NoHandler]
    /\ pc = [h \in Handlers |-> "idle"]
    /\ msg = [h \in Handlers |-> NoMsg]
    /\ beating = [h \in Handlers |-> FALSE]
    /\ local = [h \in Handlers |-> Blank]

-----------------------------------------------------------------------------
\* The outbox relay sends the event of m; it may exit before it commits
\* published_at, which a later relay pass answers with another copy.
Publish(m) ==
    LET t == MsgTask[m] IN
    /\ place[m] = "unsent"
    /\ ~published[t]
    /\ place' = [place EXCEPT ![m] = "visible"]
    /\ \/ published' = [published EXCEPT ![t] = TRUE]
       \/ /\ \E n \in MessagesOf(t) : n # m /\ place[n] = "unsent"
          /\ UNCHANGED published
    /\ UNCHANGED <<taskVars, requestVars, rowLock, object, receives, holder,
                   handlerVars>>

\* receive: the message is in flight for the visibility timeout.
Receive(h, m) ==
    /\ pc[h] = "idle"
    /\ place[m] = "visible"
    /\ receives[m] < MaxReceives
    /\ place' = [place EXCEPT ![m] = "inflight"]
    /\ receives' = [receives EXCEPT ![m] = @ + 1]
    /\ holder' = [holder EXCEPT ![m] = h]
    /\ pc' = [pc EXCEPT ![h] = "handle"]
    /\ msg' = [msg EXCEPT ![h] = m]
    /\ beating' = [beating EXCEPT ![h] = TRUE]
    /\ UNCHANGED <<taskVars, requestVars, rowLock, object, published, local>>

\* The redrive policy moves a message received too often to the dead-letter
\* queue.
DeadLetter(m) ==
    /\ place[m] = "visible"
    /\ receives[m] >= MaxReceives
    /\ place' = [place EXCEPT ![m] = "dead"]
    /\ UNCHANGED <<taskVars, requestVars, rowLock, object, published,
                   receives, holder, handlerVars>>

\* The call is over: its heartbeat stops and its session is gone.
Finish(h) ==
    /\ pc' = [pc EXCEPT ![h] = "idle"]
    /\ msg' = [msg EXCEPT ![h] = NoMsg]
    /\ beating' = [beating EXCEPT ![h] = FALSE]
    /\ local' = [local EXCEPT ![h] = Blank]

\* Nobody will use the receipt handle of h any more.
DropReceipt(h) ==
    holder' = [m \in Messages |-> IF holder[m] = h THEN NoHandler
                                                   ELSE holder[m]]

\* The call returned False or raised: the message stays in flight until its
\* visibility timeout.
LeaveMessage(h) == /\ Finish(h)
                   /\ DropReceipt(h)
                   /\ UNCHANGED <<published, place, receives>>

\* handle_task_envelope up to the session.get of claim_message_task.
ClaimRead(h) ==
    /\ pc[h] = "handle"
    /\ \/ /\ TaskOf(h) = NoTask
          /\ pc' = [pc EXCEPT ![h] = "ack"]
          /\ UNCHANGED local
       \/ /\ TaskOf(h) # NoTask
          /\ status[TaskOf(h)] \in Terminal
          /\ pc' = [pc EXCEPT ![h] = AfterDuplicate]
          /\ local' = [local EXCEPT ![h].dup = TRUE]
       \/ /\ TaskOf(h) # NoTask
          /\ status[TaskOf(h)] \notin Terminal
          /\ pc' = [pc EXCEPT ![h] = "claim"]
          /\ UNCHANGED local
    /\ UNCHANGED <<taskVars, requestVars, rowLock, object, queueVars, msg,
                   beating>>

\* claim_message_task from its UPDATE to its commit.  The second UPDATE only
\* waits for the row lock when the request is queued.
Claim(h) ==
    LET t == TaskOf(h) IN
    LET r == Req(h) IN
    /\ pc[h] = "claim"
    /\ Claimable(t)
    /\ reqStatus[r] = "queued" => Unlocked(r)
    /\ status' = [status EXCEPT ![t] = "running"]
    /\ attempt' = [attempt EXCEPT ![t] = @ + 1]
    /\ owner' = [owner EXCEPT ![t] = WorkerOf[h]]
    /\ live' = [live EXCEPT ![t] = TRUE]
    /\ reqStatus' = [reqStatus EXCEPT ![r] =
                        IF @ = "queued" THEN "running" ELSE @]
    /\ pc' = [pc EXCEPT ![h] = "load"]
    /\ UNCHANGED <<receipt, trail, artifact, completions, rowLock, object,
                   queueVars, msg, beating, local>>

\* The UPDATE matched no row: BUSY, the message is left for redelivery.
Busy(h) ==
    /\ pc[h] = "claim"
    /\ ~Claimable(TaskOf(h))
    /\ LeaveMessage(h)
    /\ UNCHANGED <<taskVars, requestVars, rowLock, object>>

\* The session after the SELECT of execute_task.
Loaded(h) ==
    [local[h] EXCEPT !.attempt = attempt[TaskOf(h)],
                     !.own = "running",
                     !.req = reqStatus[Req(h)],
                     !.art = artifact[Req(h)],
                     !.doc = {t \in {TaskOf(h)} : receipt[t]}]

\* The SELECT of execute_task: the task must still be running for this
\* worker_id; task and request stay in the session from here on.
Load(h) ==
    LET t == TaskOf(h) IN
    /\ pc[h] = "load"
    /\ status[t] = "running"
    /\ owner[t] = WorkerOf[h]
    /\ local' = [local EXCEPT ![h] = Loaded(h)]
    /\ pc' = [pc EXCEPT ![h] = "execute"]
    /\ UNCHANGED <<taskVars, requestVars, rowLock, object, queueVars, msg,
                   beating>>

\* The task was reclaimed by another worker or finished: return False.
LoadLost(h) ==
    LET t == TaskOf(h) IN
    /\ pc[h] = "load"
    /\ status[t] # "running" \/ owner[t] # WorkerOf[h]
    /\ LeaveMessage(h)
    /\ UNCHANGED <<taskVars, requestVars, rowLock, object>>

\* The session after a source call that returned ok or failed.
Executed(h, ok) ==
    [local[h] EXCEPT !.own = ResultStatus(h, ok),
                     !.doc = IF ok THEN {TaskOf(h)} ELSE local[h].doc]

\* The source call, and the status it leads to.
Execute(h) ==
    /\ pc[h] = "execute"
    /\ \E ok \in BOOLEAN : local' = [local EXCEPT ![h] = Executed(h, ok)]
    /\ pc' = [pc EXCEPT ![h] = "commit"]
    /\ UNCHANGED <<taskVars, requestVars, rowLock, object, queueVars, msg,
                   beating>>

\* The finally block of execute_task.  The UPDATE of the task row names only
\* its primary key.  A delete also writes VERIFYING to its request, unless
\* the session read that status.
CommitResult(h) ==
    LET t == TaskOf(h) IN
    LET r == Req(h) IN
    LET l == local[h] IN
    LET verifying == Deleting(h) /\ l.req # "verifying" IN
    /\ pc[h] = "commit"
    /\ verifying => Unlocked(r)
    /\ status' = [status EXCEPT ![t] = l.own]
    /\ owner' = [owner EXCEPT ![t] = NoWorker]
    /\ live' = [live EXCEPT ![t] = FALSE]
    /\ receipt' = [receipt EXCEPT ![t] = Receipted(t, l.own)]
    /\ trail' = [trail EXCEPT ![t] =
                    Append(@, [attempt |-> l.attempt, action |-> Action(l.own)])]
    /\ reqStatus' = [reqStatus EXCEPT ![r] =
                        IF verifying THEN "verifying" ELSE @]
    /\ local' = [local EXCEPT ![h].req = IF Deleting(h) THEN "verifying" ELSE @]
    /\ pc' = [pc EXCEPT ![h] = "refresh"]
    /\ UNCHANGED <<attempt, artifact, completions, rowLock, object, queueVars,
                   msg, beating>>

\* The session after the SELECT of refresh_request_status and the aggregation:
\* one that already holds the request keeps the values it read then.
Refreshed(h) ==
    [local[h] EXCEPT
        !.req = IF local[h].dup THEN reqStatus[Req(h)] ELSE local[h].req,
        !.art = IF local[h].dup THEN artifact[Req(h)] ELSE local[h].art,
        !.verdict = Aggregate(SeenStatuses(h)),
        !.doc = SeenReceipts(h)]

\* The SELECT ... FOR UPDATE of refresh_request_status and what it computes.
RefreshLoad(h) ==
    LET r == Req(h) IN
    /\ pc[h] = "refresh"
    /\ Unlocked(r)
    /\ rowLock' = [rowLock EXCEPT ![r] = h]
    /\ local' = [local EXCEPT ![h] = Refreshed(h)]
    /\ pc' = [pc EXCEPT ![h] = IF NeedsArtifact(Refreshed(h), r)
                               THEN "artifact" ELSE "store"]
    /\ UNCHANGED <<taskVars, requestVars, object, queueVars, msg, beating>>

\* _write_artifact puts the object at the request's deterministic key.
PutArtifact(h) ==
    /\ pc[h] = "artifact"
    /\ object' = [object EXCEPT ![Req(h)] = local[h].doc]
    /\ local' = [local EXCEPT ![h].art = TRUE]
    /\ pc' = [pc EXCEPT ![h] = "store"]
    /\ UNCHANGED <<taskVars, requestVars, rowLock, queueVars, msg, beating>>

\* The commit of refresh_request_status: the status when it differs from the
\* session's, the artifact path, and the terminal outbox and audit events.
RefreshCommit(h) ==
    LET r == Req(h) IN
    LET l == local[h] IN
    /\ pc[h] = "store"
    /\ reqStatus' = [reqStatus EXCEPT ![r] =
                        IF l.verdict # l.req THEN l.verdict ELSE @]
    /\ artifact' = [artifact EXCEPT ![r] = @ \/ l.art]
    /\ completions' = [completions EXCEPT ![r] =
                          IF BecameTerminal(h) THEN @ + 1 ELSE @]
    /\ rowLock' = [rowLock EXCEPT ![r] = NoHandler]
    /\ IF Handled(h)
       THEN /\ pc' = [pc EXCEPT ![h] = "ack"]
            /\ UNCHANGED <<queueVars, msg, beating, local>>
       ELSE LeaveMessage(h)
    /\ UNCHANGED <<taskVars, object>>

\* The handler returned True: the message is deleted.  With a receipt handle
\* that is no longer the latest the queue may keep the message.
Ack(h) ==
    LET m == msg[h] IN
    /\ pc[h] = "ack"
    /\ \/ place' = [place EXCEPT ![m] = "deleted"]
       \/ holder[m] # h /\ UNCHANGED place
    /\ Finish(h)
    /\ DropReceipt(h)
    /\ UNCHANGED <<taskVars, requestVars, rowLock, object, published, receives>>

\* The call raises or its process exits: the open transaction rolls back.
Abort(h) ==
    /\ pc[h] # "idle"
    /\ rowLock' = [r \in Requests |-> IF rowLock[r] = h THEN NoHandler
                                                        ELSE rowLock[r]]
    /\ LeaveMessage(h)
    /\ UNCHANGED <<taskVars, requestVars, object>>

-----------------------------------------------------------------------------
\* extend_task_lease, as consume_task_message's heartbeat hook calls it: any
\* beating handler of the owning worker extends the lease, expired or not.
Heartbeat(h) ==
    LET t == TaskOf(h) IN
    /\ pc[h] # "idle"
    /\ beating[h]
    /\ t # NoTask
    /\ status[t] = "running"
    /\ owner[t] = WorkerOf[h]
    /\ ~live[t]
    /\ live' = [live EXCEPT ![t] = TRUE]
    /\ UNCHANGED <<status, attempt, owner, receipt, trail, requestVars,
                   rowLock, object, queueVars, handlerVars>>

\* A heartbeat call raised: maintain_visibility ends, the handler goes on.
HeartbeatDies(h) ==
    /\ HeartbeatMayFail
    /\ beating[h]
    /\ beating' = [beating EXCEPT ![h] = FALSE]
    /\ UNCHANGED <<taskVars, requestVars, rowLock, object, queueVars, pc, msg,
                   local>>

\* A handler keeps the lease of its task, and its message, alive.
KeepsLease(h, t) == /\ Executing(h) /\ beating[h]
                    /\ TaskOf(h) = t /\ owner[t] = WorkerOf[h]
KeepsMessage(h, m) == pc[h] # "idle" /\ beating[h] /\ msg[h] = m

\* lease_expires_at passes: heartbeats are shorter than the lease, so only
\* a lease that nobody extends expires.
LeaseExpire(t) ==
    /\ status[t] = "running"
    /\ live[t]
    /\ \A h \in Handlers : ~KeepsLease(h, t)
    /\ live' = [live EXCEPT ![t] = FALSE]
    /\ UNCHANGED <<status, attempt, owner, receipt, trail, requestVars,
                   rowLock, object, queueVars, handlerVars>>

\* The visibility timeout passes: the queue may deliver the message again.
VisibilityExpire(m) ==
    /\ place[m] = "inflight"
    /\ \A h \in Handlers : ~KeepsMessage(h, m)
    /\ place' = [place EXCEPT ![m] = "visible"]
    /\ UNCHANGED <<taskVars, requestVars, rowLock, object, published,
                   receives, holder, handlerVars>>

\* Workers go on polling a queue with nothing left to deliver.
PollEmpty ==
    /\ \A h \in Handlers : pc[h] = "idle"
    /\ \A m \in Messages : \/ place[m] \in {"deleted", "dead"}
                           \/ place[m] = "unsent" /\ published[MsgTask[m]]
    /\ UNCHANGED vars

HandlerStep(h) ==
    \/ ClaimRead(h) \/ Claim(h) \/ Busy(h) \/ Load(h) \/ LoadLost(h)
    \/ Execute(h) \/ CommitResult(h) \/ RefreshLoad(h) \/ PutArtifact(h)
    \/ RefreshCommit(h) \/ Ack(h)

Next ==
    \/ \E m \in Messages :
          Publish(m) \/ DeadLetter(m) \/ VisibilityExpire(m)
    \/ \E h \in Handlers, m \in Messages : Receive(h, m)
    \/ \E h \in Handlers :
          HandlerStep(h) \/ Abort(h) \/ Heartbeat(h) \/ HeartbeatDies(h)
    \/ \E t \in Tasks : LeaseExpire(t)
    \/ PollEmpty

Spec == Init /\ [][Next]_vars

\* Workers poll, relay and finish their calls; clocks advance.  Nothing is
\* assumed about aborts, the outcome of source calls or failing heartbeats.
Fairness ==
    /\ \A m \in Messages : /\ WF_vars(Publish(m))
                           /\ WF_vars(DeadLetter(m))
                           /\ WF_vars(VisibilityExpire(m))
    /\ \A h \in Handlers : /\ WF_vars(HandlerStep(h))
                           /\ WF_vars(\E m \in Messages : Receive(h, m))
    /\ \A t \in Tasks : WF_vars(LeaseExpire(t))

FairSpec == Spec /\ Fairness

-----------------------------------------------------------------------------
Places == {"unsent", "visible", "inflight", "deleted", "dead"}
AuditEntry == [attempt : Nat, action : {"retry_scheduled", "succeeded", "failed"}]

TaskTypes ==
    /\ status \in [Tasks -> TaskStatus]
    /\ attempt \in [Tasks -> Nat]
    /\ owner \in [Tasks -> Workers \union {NoWorker}]
    /\ live \in [Tasks -> BOOLEAN]
    /\ receipt \in [Tasks -> BOOLEAN]
    /\ trail \in [Tasks -> Seq(AuditEntry)]
RequestTypes ==
    /\ reqStatus \in [Requests -> RequestStatus]
    /\ artifact \in [Requests -> BOOLEAN]
    /\ completions \in [Requests -> Nat]
    /\ rowLock \in [Requests -> Handlers \union {NoHandler}]
    /\ object \in [Requests -> SUBSET Tasks]
QueueTypes ==
    /\ published \in [Tasks \union {NoTask} -> BOOLEAN]
    /\ place \in [Messages -> Places]
    /\ receives \in [Messages -> Nat]
    /\ holder \in [Messages -> Handlers \union {NoHandler}]
HandlerTypes ==
    /\ pc \in [Handlers -> Steps]
    /\ msg \in [Handlers -> Messages \union {NoMsg}]
    /\ beating \in [Handlers -> BOOLEAN]
    /\ local \in [Handlers -> Local]

\* The rows, the queue and the handlers hold values of their columns.
TypeOK == TaskTypes /\ RequestTypes /\ QueueTypes /\ HandlerTypes

\* At most one handler is between claiming a task and committing its result,
\* so a regional source never sees two concurrent operations for one task:
\* the claim UPDATE together with the heartbeats of the executing handler.
SingleExecutor ==
    \A g, h \in Handlers :
        Executing(g) /\ Executing(h) /\ TaskOf(g) = TaskOf(h) => g = h

\* Once execute_task has persisted succeeded or failed, no claim, retry,
\* duplicate or late handler changes the row or its audit trail again.
TerminalKept ==
    \A t \in Tasks : status[t] \in Terminal => /\ status'[t] = status[t]
                                               /\ attempt'[t] = attempt[t]
                                               /\ trail'[t] = trail[t]
TerminalIsFinal == [][TerminalKept]_vars

\* A task that is not terminal keeps a wake-up: its outbox row is still to be
\* relayed, or a copy of its message is queued, in flight or dead-lettered.
\* No acknowledgement and no relay crash loses the last one.
HasWakeup(t) ==
    \/ ~published[t]
    \/ \E m \in MessagesOf(t) : place[m] \in {"visible", "inflight", "dead"}
NoLostWakeup ==
    \A t \in Tasks : status[t] \notin Terminal => HasWakeup(t)

Statuses(r) == {status[t] : t \in TasksOf(r)}
AllTerminal(r) == Statuses(r) \subseteq Terminal

\* Whenever all tasks of a request are terminal but the request row does not
\* say so yet (a handler stopped between the task commit and the request
\* commit, or the object store failed), a message of the request remains whose
\* delivery refreshes it: still to be relayed, queued, in flight, or in the
\* dead-letter queue, where an operator has to redrive it.
AggregateRecoverable ==
    \A r \in Requests :
        AllTerminal(r) /\ reqStatus[r] # Aggregate(Statuses(r)) =>
            \E t \in TasksOf(r) : HasWakeup(t)

\* A terminal request status is the one its task rows give, although it is
\* computed from a session that caches one of them and commits later.
VerdictAgrees ==
    \A r \in Requests :
        reqStatus[r] \in Final =>
            AllTerminal(r) /\ reqStatus[r] = Aggregate(Statuses(r))

\* An access request that reports completed or partial has its artifact
\* recorded, and the stored object holds the receipt of every source that
\* succeeded and of no other, whichever handlers wrote or rewrote it.
ArtifactComplete ==
    \A r \in Requests :
        KindOf[r] = "access" /\ reqStatus[r] \in {"completed", "partial"} =>
            /\ artifact[r]
            /\ object[r] = {t \in TasksOf(r) : status[t] = "succeeded"}

\* A terminal request was announced: its outbox and audit events are in the
\* same commit as the status, for every path that can write the status.
VerdictAnnounced ==
    \A r \in Requests : reqStatus[r] \in Final => completions[r] > 0

\* The audit events of a task: attempts strictly increase (no attempt is
\* recorded twice), only the last may be terminal, it is terminal exactly when
\* the row is, a failure is terminal only when the attempts are used up, and a
\* retry is scheduled only while they are not, claims after a lost lease
\* counted as attempts.
AuditTrailAgrees ==
    \A t \in Tasks :
        LET n == Len(trail[t]) IN
        /\ \A i \in 1..n : trail[t][i].attempt <= attempt[t]
        /\ \A i \in 1..(n - 1) :
              /\ trail[t][i].attempt < trail[t][i + 1].attempt
              /\ trail[t][i].action = "retry_scheduled"
        /\ n > 0 => (trail[t][n].action \in Terminal <=> status[t] \in Terminal)
        /\ status[t] \in Terminal => n > 0 /\ trail[t][n].action = status[t]
        /\ HttpSource /\ status[t] = "failed" => attempt[t] >= MaxAttempts
        /\ \A i \in 1..n : trail[t][i].action = "retry_scheduled" =>
              HttpSource /\ trail[t][i].attempt < MaxAttempts

\* Every request reaches a terminal status unless one of its messages ends in
\* the dead-letter queue: leases and visibility expire, retries are finite.
EveryRequestSettles ==
    \A r \in Requests :
        <>[](\/ reqStatus[r] \in Final
             \/ \E t \in TasksOf(r), m \in Messages :
                   MsgTask[m] = t /\ place[m] = "dead")
-----------------------------------------------------------------------------
\* The contract of the status model: one outcome per task, then one verdict
\* per request.
Contract == INSTANCE RequestContract WITH
    outcome <- [t \in Tasks |->
                   IF status[t] \in Terminal THEN status[t] ELSE "open"],
    verdict <- [r \in Requests |->
                   IF reqStatus[r] \in Final THEN reqStatus[r] ELSE "open"]

\* The worker implements the contract: what a client reads as terminal was
\* decided once, from the outcomes of all its tasks.
ImplementsContract == Contract!Spec

\* What still holds when heartbeats fail and handlers run past their leases:
\* a succeeded task has its receipt and its audit event, and a stored artifact
\* holds only receipts that were committed.
SuccessIsBacked ==
    /\ \A t \in Tasks :
          status[t] = "succeeded" =>
             /\ receipt[t]
             /\ \E i \in DOMAIN trail[t] : trail[t][i].action = "succeeded"
    /\ \A r \in Requests : \A t \in object[r] : receipt[t]

\* Once the artifact of a request can be downloaded, what it holds stays the
\* same: handlers whose sessions still see artifact_path NULL write the key
\* again, each with the tasks of its own session.
ArtifactStable ==
    [][\A r \in Requests :
          artifact[r] => artifact'[r] /\ object'[r] = object[r]]_vars

\* Processing a terminal request again has no side effects: its status
\* stays, and no further outbox and audit events announce it.
TerminalRequestUntouched ==
    [][\A r \in Requests :
          reqStatus[r] \in Final => /\ reqStatus'[r] = reqStatus[r]
                                   /\ completions'[r] = completions[r]]_vars
-----------------------------------------------------------------------------
(* The inductive invariant behind the safety properties, for workers whose   *)
(* heartbeats do not fail.                                                   *)

\* What the control point of a handler says about its own variables.
HandlerOK ==
    \A h \in Handlers :
        /\ pc[h] # "idle" => msg[h] \in Messages
        /\ pc[h] \notin {"idle", "handle", "ack"} => TaskOf(h) \in Tasks
        /\ pc[h] = "commit" => local[h].own # "running"

\* A handler in a call is beating and has its message to itself.
MessageHeld ==
    \A h \in Handlers :
        pc[h] # "idle" =>
            beating[h] /\ place[msg[h]] = "inflight" /\ holder[msg[h]] = h

\* A handler that works on a task holds its live lease.
LeaseHeld ==
    \A h \in Handlers :
        Executing(h) => /\ status[TaskOf(h)] = "running"
                        /\ owner[TaskOf(h)] = WorkerOf[h]
                        /\ live[TaskOf(h)]

\* What a handler concluded about its task is still so: a duplicate stays a
\* duplicate and a committed terminal result stays in the row, up to the
\* acknowledgement that relies on it.
ResultHeldBy(h) ==
    /\ pc[h] \in {"refresh", "artifact", "store"} =>
          \/ local[h].dup /\ status[TaskOf(h)] \in Terminal
          \/ ~local[h].dup /\ local[h].own \notin Terminal
          \/ ~local[h].dup /\ local[h].own = status[TaskOf(h)]
    /\ pc[h] \notin {"refresh", "artifact", "store", "ack"} => ~local[h].dup
    /\ pc[h] = "ack" /\ TaskOf(h) # NoTask => status[TaskOf(h)] \in Terminal
ResultHeld == \A h \in Handlers : ResultHeldBy(h)

\* A terminal status on its way to the request row is the one the task rows
\* still give.
VerdictHeldBy(h) ==
    pc[h] \in {"artifact", "store"} /\ local[h].verdict \in Final =>
        /\ AllTerminal(Req(h))
        /\ local[h].verdict = Aggregate(Statuses(Req(h)))
VerdictHeld == \A h \in Handlers : VerdictHeldBy(h)

\* All of it.
SafetyInv ==
    /\ TypeOK
    /\ HandlerOK
    /\ MessageHeld
    /\ LeaseHeld
    /\ SingleExecutor
    /\ ResultHeld
    /\ NoLostWakeup
    /\ VerdictHeld
    /\ VerdictAgrees
-----------------------------------------------------------------------------
(* What holds with and without failing heartbeats, inductively.              *)

\* The session of h holds rows of its task and request.
InSession(h) == \/ pc[h] \in {"execute", "commit", "artifact", "store"}
                \/ pc[h] = "refresh" /\ ~local[h].dup

\* A session that knows a terminal status comes after its announcement, and
\* its receipts are committed or will be with its result.
SessionBackedBy(h) ==
    InSession(h) =>
        /\ local[h].req \in Final => completions[Req(h)] > 0
        /\ \A t \in local[h].doc :
              \/ receipt[t]
              \/ pc[h] = "commit" /\ t = TaskOf(h) /\ local[h].own = "succeeded"
SessionBacked == \A h \in Handlers : SessionBackedBy(h)

BackedInv == TypeOK /\ HandlerOK /\ SessionBacked /\ VerdictAnnounced /\ SuccessIsBacked
-----------------------------------------------------------------------------
(* The second layer of the inductive invariant for workers whose heartbeats  *)
(* do not fail: sessions, artifacts, recovery and the audit trail.           *)

Succeeded(r) == {t \in TasksOf(r) : status[t] = "succeeded"}
ReceiptAgrees == \A t \in Tasks : receipt[t] <=> status[t] = "succeeded"

\* A session that executes its task, or has executed it, read the request
\* before it was terminal, and knows the current attempt.
SessionHeldBy(h) ==
    /\ pc[h] \in {"execute", "commit"} => local[h].attempt = attempt[TaskOf(h)]
    /\ pc[h] = "commit" /\ local[h].own = "failed" /\ HttpSource =>
          local[h].attempt >= MaxAttempts
    /\ pc[h] = "commit" /\ local[h].own = "pending" =>
          HttpSource /\ local[h].attempt < MaxAttempts
    /\ InSession(h) /\ ~local[h].dup => local[h].req \notin Final
    /\ InSession(h) /\ pc[h] \notin {"artifact", "store"} => ~local[h].art
    /\ pc[h] = "execute" => local[h].doc = {}
    /\ InSession(h) /\ pc[h] \in {"commit", "refresh"} =>
          (TaskOf(h) \in local[h].doc <=> local[h].own = "succeeded")
SessionHeld == \A h \in Handlers : SessionHeldBy(h)

\* A refresh holds the request row, which stays what a duplicate read.
RowHeldBy(h) ==
    pc[h] \in {"artifact", "store"} =>
        /\ rowLock[Req(h)] = h
        /\ local[h].dup => reqStatus[Req(h)] = local[h].req
RowHeld == \A h \in Handlers : RowHeldBy(h)

\* What a refresh writes to the object store, or found there, is complete.
ArtifactHeldBy(h) ==
    /\ pc[h] = "artifact" => /\ local[h].verdict \in {"completed", "partial"}
                             /\ local[h].doc = Succeeded(Req(h))
    /\ pc[h] = "store" => ~NeedsArtifact(local[h], Req(h))
    /\ pc[h] = "store" /\ local[h].art =>
          AllTerminal(Req(h)) /\ object[Req(h)] = Succeeded(Req(h))
ArtifactHeld == \A h \in Handlers : ArtifactHeldBy(h)
ArtifactSound ==
    \A r \in Requests :
        artifact[r] => AllTerminal(r) /\ object[r] = Succeeded(r)

\* t has a wake-up that no handler is about to acknowledge.
KeepsWakeup(t) ==
    \/ ~published[t]
    \/ \E m \in MessagesOf(t) :
          /\ place[m] \in {"visible", "inflight", "dead"}
          /\ \A h \in Handlers : pc[h] = "ack" => msg[h] # m

\* A refresh that will acknowledge its message without a terminal verdict
\* leaves the verdict to the wake-up of a sibling task.
SiblingWakesBy(h) ==
    pc[h] \in {"artifact", "store"} /\ local[h].verdict \notin Final /\ Handled(h) =>
        \E t \in TasksOf(Req(h)) \ {TaskOf(h)} : KeepsWakeup(t)
SiblingWakes == \A h \in Handlers : SiblingWakesBy(h)
RefreshDue ==
    \A r \in Requests :
        AllTerminal(r) /\ reqStatus[r] # Aggregate(Statuses(r)) =>
            \E t \in TasksOf(r) : KeepsWakeup(t)

\* The attempt under way has no audit event yet.
TrailOpen ==
    \A t \in Tasks :
        status[t] = "running" =>
            \A i \in 1..Len(trail[t]) : trail[t][i].attempt < attempt[t]

RefreshInv ==
    /\ ReceiptAgrees /\ SessionHeld /\ RowHeld
    /\ ArtifactHeld /\ ArtifactSound /\ ArtifactComplete
    /\ SiblingWakes /\ RefreshDue
    /\ TrailOpen /\ AuditTrailAgrees
-----------------------------------------------------------------------------
(* What the contract needs beyond that: no session takes back a verdict,     *)
(* because the source does not retry, or every task has one message.         *)

OneMessagePerTask ==
    \A m, n \in Messages :
        MsgTask[m] = MsgTask[n] /\ MsgTask[m] # NoTask => m = n
NoLateRetry == ~HttpSource \/ OneMessagePerTask

RetryPendingBy(h) ==
    /\ pc[h] \in {"commit", "refresh", "artifact", "store"} /\ ~HttpSource =>
          local[h].dup \/ local[h].own \in Terminal
    /\ pc[h] \in {"refresh", "artifact", "store"} /\ ~local[h].dup =>
          local[h].own = status[TaskOf(h)]
OpenHeldBy(h) ==
    pc[h] \in {"artifact", "store"} /\ local[h].verdict \notin Final =>
        reqStatus[Req(h)] \notin Final
ContractInv == \A h \in Handlers : RetryPendingBy(h) /\ OpenHeldBy(h)
=============================================================================
