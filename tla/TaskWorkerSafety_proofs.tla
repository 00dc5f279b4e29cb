---------------------- MODULE TaskWorkerSafety_proofs -----------------------
(***************************************************************************)
(* The safety properties of TaskWorker, for every instance in which        *)
(* heartbeats do not fail, from the inductive invariant SafetyInv.         *)
(***************************************************************************)
EXTENDS TaskWorker_proofs

\* The parts of the invariant, for citing.
LEMMA Parts ==
    ASSUME SafetyInv
    PROVE  /\ TypeInv /\ TypeOK /\ HandlerOK
           /\ TaskTypes /\ RequestTypes /\ QueueTypes /\ HandlerTypes
           /\ MessageHeld /\ LeaseHeld /\ SingleExecutor /\ ResultHeld
           /\ NoLostWakeup /\ VerdictHeld /\ VerdictAgrees
BY DEF SafetyInv, TypeInv, TypeOK

\* The steps of a handler that leave the task rows, the queue and its message
\* alone.
LocalStep(h) == ClaimRead(h) \/ Load(h) \/ Execute(h) \/ RefreshLoad(h) \/ PutArtifact(h)

\* The steps that end a call without an acknowledgement.
LeavingStep(h) == Busy(h) \/ LoadLost(h) \/ Abort(h)

\* No step of a worker, however late, changes a terminal task row.
LEMMA TerminalStays ==
    ASSUME SafetyInv, [Next]_vars, NEW t \in Tasks, status[t] \in Terminal
    PROVE  status'[t] = status[t] /\ attempt'[t] = attempt[t] /\ trail'[t] = trail[t]
<1>0. TaskTypes /\ LeaseHeld
  BY Parts
<1>1. ASSUME NEW h \in Handlers, Claim(h) PROVE t # TaskOf(h)
  BY <1>1 DEF Claim, Claimable, Terminal
<1>2. ASSUME NEW h \in Handlers, CommitResult(h) PROVE t # TaskOf(h)
  BY <1>0, <1>2 DEF CommitResult, LeaseHeld, Executing, Terminal
<1>3. ASSUME NEW h \in Handlers, Claim(h)
      PROVE  status'[t] = status[t] /\ attempt'[t] = attempt[t] /\ trail'[t] = trail[t]
  BY <1>0, <1>1, <1>3 DEF Claim, TaskTypes
<1>4. ASSUME NEW h \in Handlers, CommitResult(h)
      PROVE  status'[t] = status[t] /\ attempt'[t] = attempt[t] /\ trail'[t] = trail[t]
  BY <1>0, <1>2, <1>4 DEF CommitResult, TaskTypes
<1>5. CASE UNCHANGED <<status, attempt, trail>>
  BY <1>5
<1>6. ASSUME NEW m \in Messages, Publish(m) \/ DeadLetter(m) \/ VisibilityExpire(m)
      PROVE  UNCHANGED <<status, attempt, trail>>
  BY <1>6 DEF Publish, DeadLetter, VisibilityExpire, taskVars
<1>7. ASSUME NEW h \in Handlers, NEW m \in Messages, Receive(h, m)
      PROVE  UNCHANGED <<status, attempt, trail>>
  BY <1>7 DEF Receive, taskVars
<1>8. ASSUME NEW h \in Handlers, LocalStep(h) \/ LeavingStep(h) \/ RefreshCommit(h) \/ Ack(h)
      PROVE  UNCHANGED <<status, attempt, trail>>
  BY <1>8 DEF LocalStep, LeavingStep, ClaimRead, Load, Execute, RefreshLoad, PutArtifact,
       Busy, LoadLost,
     Abort, RefreshCommit, Ack, taskVars
<1>9. ASSUME NEW h \in Handlers, Heartbeat(h) \/ HeartbeatDies(h)
      PROVE  UNCHANGED <<status, attempt, trail>>
  BY <1>9 DEF Heartbeat, HeartbeatDies, taskVars
<1>10. ASSUME NEW x \in Tasks, LeaseExpire(x) PROVE UNCHANGED <<status, attempt, trail>>
  BY <1>10 DEF LeaseExpire
<1>11. CASE UNCHANGED vars
  BY <1>11 DEF vars, taskVars
<1> QED
  BY <1>3, <1>4, <1>5, <1>6, <1>7, <1>8, <1>9, <1>10, <1>11
     DEF Next, HandlerStep, LocalStep, LeavingStep, PollEmpty

\* What the local steps of a handler leave alone.
LEMMA LocalStepFrame ==
    ASSUME SafetyInv, NEW h \in Handlers, LocalStep(h)
    PROVE  /\ UNCHANGED <<taskVars, queueVars, msg, beating>>
           /\ pc[h] # "idle" /\ pc'[h] # "idle"
           /\ pc' \in [Handlers -> Steps]
           /\ \A g \in Handlers : g # h => pc'[g] = pc[g] /\ local'[g] = local[g]
<1>0. pc \in [Handlers -> Steps] /\ local \in [Handlers -> Local]
  BY Parts DEF HandlerTypes
<1>1. CASE ClaimRead(h)
  BY <1>0, <1>1 DEF ClaimRead, AfterDuplicate, Steps
<1>2. CASE Load(h)
  BY <1>0, <1>2 DEF Load, Steps
<1>3. CASE Execute(h)
  <2>1. PICK ok \in BOOLEAN : local' = [local EXCEPT ![h] = Executed(h, ok)]
    BY <1>3 DEF Execute
  <2> QED BY <1>0, <1>3, <2>1 DEF Execute, Steps
<1>4. CASE RefreshLoad(h)
  BY <1>0, <1>4 DEF RefreshLoad, Steps
<1>5. CASE PutArtifact(h)
  <2>1. \A g \in Handlers : g # h => local'[g] = local[g]
    BY <1>0, <1>5 DEF PutArtifact
  <2> QED BY <1>0, <1>5, <2>1 DEF PutArtifact, Steps
<1> QED BY <1>1, <1>2, <1>3, <1>4, <1>5 DEF LocalStep

\* A call that ends without an acknowledgement changes only its handler.
LEMMA LeaveFrame ==
    ASSUME SafetyInv, NEW h \in Handlers, LeaveMessage(h)
    PROVE  /\ UNCHANGED <<published, place, receives>>
           /\ pc'[h] = "idle" /\ local'[h] = Blank /\ msg'[h] = NoMsg
           /\ \A g \in Handlers : g # h =>
                 /\ pc'[g] = pc[g] /\ msg'[g] = msg[g]
                 /\ beating'[g] = beating[g] /\ local'[g] = local[g]
           /\ \A m \in Messages : holder[m] # h => holder'[m] = holder[m]
BY Parts DEF LeaveMessage, Finish, DropReceipt, HandlerTypes, QueueTypes

\* What the steps that end a call without an acknowledgement leave alone.
LEMMA LeavingStepFrame ==
    ASSUME NEW h \in Handlers, LeavingStep(h)
    PROVE  LeaveMessage(h) /\ UNCHANGED taskVars /\ UNCHANGED requestVars
BY DEF LeavingStep, Busy, LoadLost, Abort

\* As long as heartbeats do not fail, a message in a handler's hands is in
\* flight for that handler alone.
LEMMA MessageStep ==
    ASSUME SafetyInv, [Next]_vars, HeartbeatMayFail = FALSE
    PROVE  MessageHeld'
<1>0. QueueTypes /\ HandlerTypes /\ HandlerOK /\ MessageHeld
  BY Parts
<1>a. \A g, h \in Handlers : pc[g] # "idle" /\ pc[h] # "idle" /\ g # h => msg[g] # msg[h]
  BY <1>0 DEF MessageHeld
<1>1. ASSUME NEW m \in Messages, Publish(m) PROVE MessageHeld'
  BY <1>0, <1>1 DEF Publish, MessageHeld, HandlerOK, QueueTypes, handlerVars
<1>2. ASSUME NEW m \in Messages, DeadLetter(m) PROVE MessageHeld'
  BY <1>0, <1>2 DEF DeadLetter, MessageHeld, HandlerOK, QueueTypes, handlerVars
<1>3. ASSUME NEW m \in Messages, VisibilityExpire(m) PROVE MessageHeld'
  BY <1>0, <1>3 DEF VisibilityExpire, KeepsMessage, MessageHeld, HandlerOK, QueueTypes, handlerVars
<1>4. ASSUME NEW h \in Handlers, NEW m \in Messages, Receive(h, m) PROVE MessageHeld'
  <2>1. \A g \in Handlers : pc[g] # "idle" => msg[g] # m
    BY <1>0, <1>4 DEF Receive, MessageHeld
  <2>2. ASSUME NEW g \in Handlers, g # h, pc'[g] # "idle"
        PROVE  beating'[g] /\ place'[msg'[g]] = "inflight" /\ holder'[msg'[g]] = g
    BY <1>0, <1>4, <2>1, <2>2 DEF Receive, MessageHeld, HandlerOK, QueueTypes, HandlerTypes
  <2>3. beating'[h] /\ place'[msg'[h]] = "inflight" /\ holder'[msg'[h]] = h
    BY <1>0, <1>4 DEF Receive, QueueTypes, HandlerTypes
  <2> QED BY <2>2, <2>3 DEF MessageHeld
<1>5. ASSUME NEW h \in Handlers, LocalStep(h) PROVE MessageHeld'
  BY <1>0, <1>5, LocalStepFrame DEF MessageHeld, queueVars
<1>6. ASSUME NEW h \in Handlers, LeaveMessage(h) PROVE MessageHeld'
  BY <1>0, <1>6, LeaveFrame DEF MessageHeld, HandlerOK
<1>7. ASSUME NEW h \in Handlers, Claim(h) PROVE MessageHeld'
  BY <1>0, <1>7 DEF Claim, MessageHeld, HandlerTypes, queueVars
<1>8. ASSUME NEW h \in Handlers, CommitResult(h) PROVE MessageHeld'
  BY <1>0, <1>8 DEF CommitResult, MessageHeld, HandlerTypes, queueVars
<1>9. ASSUME NEW h \in Handlers, RefreshCommit(h) PROVE MessageHeld'
  <2>1. CASE LeaveMessage(h)
    BY <1>6, <2>1
  <2>2. CASE pc' = [pc EXCEPT ![h] = "ack"] /\ UNCHANGED <<queueVars, msg, beating, local>>
    BY <1>0, <1>9, <2>2 DEF RefreshCommit, MessageHeld, HandlerTypes, queueVars
  <2> QED BY <1>9, <2>1, <2>2 DEF RefreshCommit
<1>10. ASSUME NEW h \in Handlers, Ack(h) PROVE MessageHeld'
  BY <1>0, <1>a, <1>10
      DEF Ack, Finish, DropReceipt, MessageHeld, HandlerOK, HandlerTypes, QueueTypes
<1>11. ASSUME NEW h \in Handlers, Heartbeat(h) \/ HeartbeatDies(h) PROVE MessageHeld'
  BY <1>0, <1>11 DEF Heartbeat, HeartbeatDies, MessageHeld, queueVars, handlerVars
<1>12. ASSUME NEW t \in Tasks, LeaseExpire(t) PROVE MessageHeld'
  BY <1>0, <1>12 DEF LeaseExpire, MessageHeld, queueVars, handlerVars
<1>13. CASE UNCHANGED vars
  BY <1>0, <1>13 DEF MessageHeld, vars, queueVars, handlerVars
<1> QED
  BY <1>1, <1>2, <1>3, <1>4, <1>5, <1>6, <1>7, <1>8, <1>9, <1>10, <1>11, <1>12, <1>13,
       LeavingStepFrame
     DEF Next, HandlerStep, LocalStep, LeavingStep, PollEmpty

\* The executing handlers after a step that starts no execution.
LEMMA ExecutingFrame ==
    ASSUME NEW g \in Handlers, pc'[g] = pc[g], msg'[g] = msg[g]
    PROVE  (Executing(g)' <=> Executing(g)) /\ TaskOf(g)' = TaskOf(g)
BY DEF Executing, TaskOf

\* A handler that works on a task keeps its lease, and so works alone: the
\* claim finds neither a pending row nor an expired lease.
LEMMA LeaseStep ==
    ASSUME SafetyInv, [Next]_vars, HeartbeatMayFail = FALSE
    PROVE  LeaseHeld' /\ SingleExecutor'
<1>0. TaskTypes /\ HandlerTypes /\ HandlerOK /\ MessageHeld /\ LeaseHeld /\ SingleExecutor
  BY Parts
<1>1. ASSUME UNCHANGED <<status, owner, live>>,
             \A g \in Handlers : Executing(g)' => Executing(g) /\ TaskOf(g)' = TaskOf(g)
      PROVE  LeaseHeld' /\ SingleExecutor'
  BY <1>0, <1>1 DEF LeaseHeld, SingleExecutor
<1>2. ASSUME UNCHANGED <<status, owner, live, pc, msg>> PROVE LeaseHeld' /\ SingleExecutor'
  BY <1>1, <1>2, ExecutingFrame
<1>3. ASSUME NEW h \in Handlers, NEW m \in Messages, Receive(h, m)
      PROVE  LeaseHeld' /\ SingleExecutor'
  <2>1. \A g \in Handlers : Executing(g)' => Executing(g) /\ TaskOf(g)' = TaskOf(g)
    BY <1>0, <1>3 DEF Receive, Executing, TaskOf, HandlerTypes
  <2> QED BY <1>1, <1>3, <2>1 DEF Receive, taskVars
<1>4. ASSUME NEW h \in Handlers, ClaimRead(h) PROVE LeaseHeld' /\ SingleExecutor'
  <2>1. \A g \in Handlers : Executing(g)' => Executing(g) /\ TaskOf(g)' = TaskOf(g)
    BY <1>0, <1>4 DEF ClaimRead, AfterDuplicate, Executing, TaskOf, HandlerTypes
  <2> QED BY <1>1, <1>4, <2>1 DEF ClaimRead, taskVars
<1>5. ASSUME NEW h \in Handlers, Load(h) \/ Execute(h) \/ RefreshLoad(h) \/ PutArtifact(h)
      PROVE  LeaseHeld' /\ SingleExecutor'
  <2>1. \A g \in Handlers : Executing(g)' => Executing(g) /\ TaskOf(g)' = TaskOf(g)
    BY <1>0, <1>5 DEF Load, Execute, RefreshLoad, PutArtifact, Executing, TaskOf, HandlerTypes
  <2> QED BY <1>1, <1>5, <2>1 DEF Load, Execute, RefreshLoad, PutArtifact, taskVars
<1>6. ASSUME NEW h \in Handlers, LeaveMessage(h), UNCHANGED taskVars
      PROVE  LeaseHeld' /\ SingleExecutor'
  <2>1. \A g \in Handlers : Executing(g)' => Executing(g) /\ TaskOf(g)' = TaskOf(g)
    BY <1>6, LeaveFrame DEF Executing, TaskOf
  <2> QED BY <1>1, <1>6, <2>1 DEF taskVars
<1>7. ASSUME NEW h \in Handlers, RefreshCommit(h) PROVE LeaseHeld' /\ SingleExecutor'
  <2>1. CASE LeaveMessage(h)
    BY <1>6, <1>7, <2>1 DEF RefreshCommit
  <2>2. CASE pc' = [pc EXCEPT ![h] = "ack"] /\ UNCHANGED <<queueVars, msg, beating, local>>
    <3>1. \A g \in Handlers : Executing(g)' => Executing(g) /\ TaskOf(g)' = TaskOf(g)
      BY <1>0, <2>2 DEF Executing, TaskOf, HandlerTypes
    <3> QED BY <1>1, <1>7, <3>1 DEF RefreshCommit, taskVars
  <2> QED BY <1>7, <2>1, <2>2 DEF RefreshCommit
<1>8. ASSUME NEW h \in Handlers, Ack(h) PROVE LeaseHeld' /\ SingleExecutor'
  <2>1. \A g \in Handlers : Executing(g)' => Executing(g) /\ TaskOf(g)' = TaskOf(g)
    BY <1>0, <1>8 DEF Ack, Finish, Executing, TaskOf, HandlerTypes
  <2> QED BY <1>1, <1>8, <2>1 DEF Ack, taskVars
<1>9. ASSUME NEW h \in Handlers, Claim(h) PROVE LeaseHeld' /\ SingleExecutor'
  <2>1. \A g \in Handlers : Executing(g) => TaskOf(g) # TaskOf(h)
    BY <1>0, <1>9 DEF Claim, Claimable, LeaseHeld
  <2>2. \A g \in Handlers : g # h => (Executing(g)' <=> Executing(g)) /\ TaskOf(g)' = TaskOf(g)
    BY <1>0, <1>9 DEF Claim, Executing, TaskOf, HandlerTypes
  <2>3. TaskOf(h)' = TaskOf(h) /\ TaskOf(h) \in Tasks
    BY <1>0, <1>9 DEF Claim, TaskOf, HandlerOK
  <2>4. status'[TaskOf(h)] = "running" /\ owner'[TaskOf(h)] = WorkerOf[h] /\ live'[TaskOf(h)]
    BY <1>0, <1>9, <2>3 DEF Claim, TaskTypes
  <2>5. \A t \in Tasks : t # TaskOf(h) =>
            status'[t] = status[t] /\ owner'[t] = owner[t] /\ live'[t] = live[t]
    BY <1>0, <1>9 DEF Claim, TaskTypes
  <2>6. \A g \in Handlers : Executing(g) => TaskOf(g) \in Tasks
    BY <1>0 DEF Executing, HandlerOK
  <2>7. LeaseHeld'
    BY <1>0, <2>1, <2>2, <2>3, <2>4, <2>5, <2>6 DEF LeaseHeld
  <2>8. SingleExecutor'
    BY <1>0, <2>1, <2>2, <2>3 DEF SingleExecutor
  <2> QED BY <2>7, <2>8
<1>10. ASSUME NEW h \in Handlers, CommitResult(h) PROVE LeaseHeld' /\ SingleExecutor'
  <2>1. \A g \in Handlers : g # h => (Executing(g)' <=> Executing(g)) /\ TaskOf(g)' = TaskOf(g)
    BY <1>0, <1>10 DEF CommitResult, Executing, TaskOf, HandlerTypes
  <2>2. ~Executing(h)' /\ Executing(h)
    BY <1>0, <1>10 DEF CommitResult, Executing, HandlerTypes
  <2>3. \A g \in Handlers : g # h /\ Executing(g) => TaskOf(g) # TaskOf(h) /\ TaskOf(g) \in Tasks
    BY <1>0, <2>2 DEF SingleExecutor, HandlerOK, Executing
  <2>4. \A t \in Tasks : t # TaskOf(h) =>
            status'[t] = status[t] /\ owner'[t] = owner[t] /\ live'[t] = live[t]
    BY <1>0, <1>10 DEF CommitResult, TaskTypes
  <2>5. LeaseHeld'
    BY <1>0, <2>1, <2>2, <2>3, <2>4 DEF LeaseHeld
  <2>6. SingleExecutor'
    BY <1>0, <2>1, <2>2 DEF SingleExecutor
  <2> QED BY <2>5, <2>6
<1>11. ASSUME NEW h \in Handlers, Heartbeat(h) PROVE LeaseHeld' /\ SingleExecutor'
  <2>1. \A g \in Handlers : (Executing(g)' <=> Executing(g)) /\ TaskOf(g)' = TaskOf(g)
    BY <1>11 DEF Heartbeat, handlerVars, Executing, TaskOf
  <2>2. \A g \in Handlers : Executing(g) => TaskOf(g) \in Tasks
    BY <1>0 DEF Executing, HandlerOK
  <2>3. \A t \in Tasks : live[t] => live'[t]
    BY <1>0, <1>11 DEF Heartbeat, TaskTypes
  <2> QED BY <1>0, <1>11, <2>1, <2>2, <2>3 DEF Heartbeat, LeaseHeld, SingleExecutor
<1>12. ASSUME NEW t \in Tasks, LeaseExpire(t) PROVE LeaseHeld' /\ SingleExecutor'
  <2>1. \A g \in Handlers : (Executing(g)' <=> Executing(g)) /\ TaskOf(g)' = TaskOf(g)
    BY <1>12 DEF LeaseExpire, handlerVars, Executing, TaskOf
  <2>2. \A g \in Handlers : Executing(g) => TaskOf(g) \in Tasks /\ beating[g]
    BY <1>0 DEF Executing, HandlerOK, MessageHeld
  <2>3. \A g \in Handlers : Executing(g) => TaskOf(g) # t
    BY <1>0, <1>12, <2>2 DEF LeaseExpire, KeepsLease, LeaseHeld
  <2>4. \A x \in Tasks : x # t => live'[x] = live[x]
    BY <1>0, <1>12 DEF LeaseExpire, TaskTypes
  <2> QED BY <1>0, <1>12, <2>1, <2>2, <2>3, <2>4 DEF LeaseExpire, LeaseHeld, SingleExecutor
<1>13. ASSUME NEW m \in Messages, Publish(m) \/ DeadLetter(m) \/ VisibilityExpire(m)
       PROVE  LeaseHeld' /\ SingleExecutor'
  BY <1>2, <1>13 DEF Publish, DeadLetter, VisibilityExpire, taskVars, handlerVars
<1>14. ASSUME NEW h \in Handlers, HeartbeatDies(h) PROVE LeaseHeld' /\ SingleExecutor'
  BY <1>14 DEF HeartbeatDies
<1>15. CASE UNCHANGED vars
  BY <1>2, <1>15 DEF vars, taskVars, handlerVars
<1> QED
  BY <1>3, <1>4, <1>5, <1>6, <1>7, <1>8, <1>9, <1>10, <1>11, <1>12, <1>13, <1>14, <1>15,
       LeavingStepFrame
     DEF Next, HandlerStep, LeavingStep, PollEmpty

\* What a handler concluded survives the steps of the others.
LEMMA ResultFrame ==
    ASSUME SafetyInv, [Next]_vars, NEW g \in Handlers,
           pc'[g] = pc[g], msg'[g] = msg[g], local'[g] = local[g]
    PROVE  ResultHeldBy(g)'
<1>0. HandlerOK /\ ResultHeldBy(g)
  BY Parts DEF ResultHeld
<1>1. TaskOf(g)' = TaskOf(g)
  BY DEF TaskOf
<1>2. CASE pc[g] \in {"refresh", "artifact", "store"}
  <2>1. TaskOf(g) \in Tasks
    BY <1>0, <1>2 DEF HandlerOK
  <2>2. status[TaskOf(g)] \in Terminal => status'[TaskOf(g)] = status[TaskOf(g)]
    BY <2>1, TerminalStays
  <2> QED BY <1>0, <1>1, <1>2, <2>2 DEF ResultHeldBy
<1>3. CASE pc[g] = "ack"
  <2>1. TaskOf(g) # NoTask => TaskOf(g) \in Tasks
    BY <1>0, <1>3, QueueAssumption DEF HandlerOK, TaskOf
  <2>2. TaskOf(g) # NoTask => status'[TaskOf(g)] = status[TaskOf(g)]
    BY <1>0, <1>3, <2>1, TerminalStays DEF ResultHeldBy
  <2> QED BY <1>0, <1>1, <1>3, <2>2 DEF ResultHeldBy
<1>4. CASE pc[g] \notin {"refresh", "artifact", "store", "ack"}
  BY <1>0, <1>4 DEF ResultHeldBy
<1> QED BY <1>2, <1>3, <1>4

\* What a handler concludes itself is so.
LEMMA ResultStep ==
    ASSUME SafetyInv, [Next]_vars
    PROVE  ResultHeld'
<1>0. TaskTypes /\ HandlerTypes /\ HandlerOK /\ ResultHeld /\ pc \in [Handlers -> Steps]
      /\ local \in [Handlers -> Local]
  BY Parts DEF HandlerTypes
<1>1. ASSUME NEW h \in Handlers,
             \A g \in Handlers : g # h => pc'[g] = pc[g] /\ msg'[g] = msg[g] /\ local'[g] = local[g],
             ResultHeldBy(h)'
      PROVE  ResultHeld'
  BY <1>1, ResultFrame DEF ResultHeld
<1>2. ASSUME UNCHANGED <<pc, msg, local>> PROVE ResultHeld'
  BY <1>2, ResultFrame DEF ResultHeld
<1>3. ASSUME NEW h \in Handlers, NEW m \in Messages, Receive(h, m) PROVE ResultHeld'
  <2>1. \A g \in Handlers : g # h => pc'[g] = pc[g] /\ msg'[g] = msg[g] /\ local'[g] = local[g]
    BY <1>0, <1>3 DEF Receive, HandlerTypes
  <2>2. ResultHeldBy(h)'
    BY <1>0, <1>3 DEF Receive, ResultHeld, ResultHeldBy
  <2> QED BY <1>1, <2>1, <2>2
<1>4. ASSUME NEW h \in Handlers, LocalStep(h), ResultHeldBy(h)' PROVE ResultHeld'
  BY <1>1, <1>4, LocalStepFrame
<1>5. ASSUME NEW h \in Handlers, ClaimRead(h) PROVE ResultHeld'
  <2>1. pc'[h] \in {"ack", "claim", "refresh"}
    BY <1>0, <1>5 DEF ClaimRead, AfterDuplicate
  <2>2. CASE pc'[h] \in {"ack", "claim"}
    <3>1. ResultHeldBy(h)'
      BY <1>0, <1>5, <2>2 DEF ClaimRead, AfterDuplicate, ResultHeld, ResultHeldBy, TaskOf
    <3> QED BY <1>4, <1>5, <3>1 DEF LocalStep
  <2>3. CASE pc'[h] = "refresh"
    <3>1. status'[TaskOf(h)'] \in Terminal
      BY <1>0, <1>5, <2>3 DEF ClaimRead, TaskOf, taskVars
    <3>2. local'[h].dup
      <4>1. local' = [local EXCEPT ![h].dup = TRUE]
        BY <1>0, <1>5, <2>3 DEF ClaimRead
      <4> QED BY <1>0, <4>1 DEF Local
    <3> QED BY <1>4, <1>5, <2>3, <3>1, <3>2 DEF LocalStep, ResultHeldBy
  <2> QED BY <2>1, <2>2, <2>3
<1>6. ASSUME NEW h \in Handlers, LeaveMessage(h) PROVE ResultHeld'
  <2>1. ResultHeldBy(h)'
    BY <1>6, LeaveFrame DEF ResultHeldBy, Blank
  <2> QED BY <1>1, <1>6, <2>1, LeaveFrame
<1>7. ASSUME NEW h \in Handlers, Claim(h) PROVE ResultHeld'
  <2>1. \A g \in Handlers : g # h => pc'[g] = pc[g] /\ msg'[g] = msg[g] /\ local'[g] = local[g]
    BY <1>0, <1>7 DEF Claim
  <2>2. ResultHeldBy(h)'
    BY <1>0, <1>7 DEF Claim, ResultHeld, ResultHeldBy
  <2> QED BY <1>1, <2>1, <2>2
<1>8. ASSUME NEW h \in Handlers, Load(h) PROVE ResultHeld'
  <2>1. local'[h].dup = local[h].dup
    BY <1>0, <1>8 DEF Load, Loaded, Local
  <2>2. ResultHeldBy(h)'
    BY <1>0, <1>8, <2>1 DEF Load, ResultHeld, ResultHeldBy
  <2> QED BY <1>4, <1>8, <2>2 DEF LocalStep
<1>9. ASSUME NEW h \in Handlers, Execute(h) PROVE ResultHeld'
  <2>1. PICK ok \in BOOLEAN : local' = [local EXCEPT ![h] = Executed(h, ok)]
    BY <1>9 DEF Execute
  <2>2. local'[h].dup = local[h].dup
    BY <1>0, <2>1 DEF Executed, Local
  <2>3. ResultHeldBy(h)'
    BY <1>0, <1>9, <2>2 DEF Execute, ResultHeld, ResultHeldBy
  <2> QED BY <1>4, <1>9, <2>3 DEF LocalStep
<1>10. ASSUME NEW h \in Handlers, CommitResult(h) PROVE ResultHeld'
  <2>1. local'[h].dup = local[h].dup /\ local'[h].own = local[h].own
    BY <1>0, <1>10 DEF CommitResult, Local
  <2>2. TaskOf(h)' = TaskOf(h) /\ TaskOf(h) \in Tasks /\ ~local[h].dup
    BY <1>0, <1>10 DEF CommitResult, HandlerOK, TaskOf, ResultHeld, ResultHeldBy
  <2>3. status'[TaskOf(h)] = local[h].own
    BY <1>0, <1>10, <2>2 DEF CommitResult, TaskTypes
  <2>4. pc'[h] = "refresh"
    BY <1>0, <1>10 DEF CommitResult
  <2>5. ResultHeldBy(h)'
    BY <2>1, <2>2, <2>3, <2>4 DEF ResultHeldBy
  <2>6. \A g \in Handlers : g # h => pc'[g] = pc[g] /\ msg'[g] = msg[g] /\ local'[g] = local[g]
    BY <1>0, <1>10 DEF CommitResult
  <2> QED BY <1>1, <2>5, <2>6
<1>11. ASSUME NEW h \in Handlers, RefreshLoad(h) PROVE ResultHeld'
  <2>1. local'[h].dup = local[h].dup /\ local'[h].own = local[h].own
    BY <1>0, <1>11 DEF RefreshLoad, Refreshed, Local
  <2>2. TaskOf(h)' = TaskOf(h) /\ status' = status /\ pc'[h] \in {"artifact", "store"}
    BY <1>0, <1>11 DEF RefreshLoad, TaskOf, taskVars
  <2>3. ResultHeldBy(h)'
    BY <1>0, <1>11, <2>1, <2>2 DEF RefreshLoad, ResultHeld, ResultHeldBy
  <2> QED BY <1>4, <1>11, <2>3 DEF LocalStep
<1>12. ASSUME NEW h \in Handlers, PutArtifact(h) PROVE ResultHeld'
  <2>1. local'[h].dup = local[h].dup /\ local'[h].own = local[h].own
    BY <1>0, <1>12 DEF PutArtifact, Local
  <2>2. TaskOf(h)' = TaskOf(h) /\ status' = status /\ pc'[h] = "store"
    BY <1>0, <1>12 DEF PutArtifact, TaskOf, taskVars
  <2>3. ResultHeldBy(h)'
    BY <1>0, <1>12, <2>1, <2>2 DEF PutArtifact, ResultHeld, ResultHeldBy
  <2> QED BY <1>4, <1>12, <2>3 DEF LocalStep
<1>13. ASSUME NEW h \in Handlers, RefreshCommit(h) PROVE ResultHeld'
  <2>1. CASE LeaveMessage(h)
    BY <1>6, <2>1
  <2>2. CASE Handled(h) /\ pc' = [pc EXCEPT ![h] = "ack"] /\ UNCHANGED <<queueVars, msg,
       beating, local>>
    <3>1. status[TaskOf(h)] \in Terminal
      BY <1>0, <1>13, <2>2 DEF RefreshCommit, Handled, ResultHeld, ResultHeldBy, Terminal
    <3>2. ResultHeldBy(h)'
      BY <1>0, <1>13, <2>2, <3>1 DEF RefreshCommit, ResultHeldBy, TaskOf, taskVars
    <3> QED BY <1>0, <1>1, <2>2, <3>2
  <2> QED BY <1>13, <2>1, <2>2 DEF RefreshCommit
<1>14. ASSUME NEW h \in Handlers, Ack(h) PROVE ResultHeld'
  <2>1. \A g \in Handlers : g # h => pc'[g] = pc[g] /\ msg'[g] = msg[g] /\ local'[g] = local[g]
    BY <1>0, <1>14 DEF Ack, Finish, HandlerTypes
  <2>2. ResultHeldBy(h)'
    BY <1>0, <1>14 DEF Ack, Finish, ResultHeldBy, Blank
  <2> QED BY <1>1, <2>1, <2>2
<1>15. ASSUME NEW h \in Handlers, Heartbeat(h) \/ HeartbeatDies(h) PROVE ResultHeld'
  BY <1>2, <1>15 DEF Heartbeat, HeartbeatDies, handlerVars
<1>16. ASSUME NEW t \in Tasks, LeaseExpire(t) PROVE ResultHeld'
  BY <1>2, <1>16 DEF LeaseExpire, handlerVars
<1>17. ASSUME NEW m \in Messages,
     Publish(m) \/ DeadLetter(m) \/ VisibilityExpire(m) PROVE ResultHeld'
  BY <1>2, <1>17 DEF Publish, DeadLetter, VisibilityExpire, handlerVars
<1>18. CASE UNCHANGED vars
  BY <1>2, <1>18 DEF vars, handlerVars
<1> QED
  BY <1>3, <1>5, <1>6, <1>7, <1>8, <1>9, <1>10, <1>11, <1>12, <1>13, <1>14, <1>15, <1>16,
       <1>17, <1>18,
     LeavingStepFrame
     DEF Next, HandlerStep, LeavingStep, PollEmpty

\* A terminal aggregate comes only from terminal statuses.
LEMMA AggregateFinal ==
    ASSUME NEW S \in SUBSET TaskStatus, Aggregate(S) \in Final
    PROVE  S \subseteq Terminal
<1>1. "pending" \notin S /\ "running" \notin S
  BY DEF Aggregate, Final
<1> QED BY <1>1 DEF TaskStatus, Terminal

\* Once all tasks of a request are terminal its aggregate stands.
LEMMA AllTerminalStays ==
    ASSUME SafetyInv, [Next]_vars, NEW r, AllTerminal(r)
    PROVE  AllTerminal(r)' /\ Statuses(r)' = Statuses(r)
<1>1. \A t \in TasksOf(r) : t \in Tasks /\ status[t] \in Terminal
  BY DEF AllTerminal, Statuses, TasksOf
<1>2. \A t \in TasksOf(r) : status'[t] = status[t]
  BY <1>1, TerminalStays
<1>3. TasksOf(r)' = TasksOf(r)
  BY DEF TasksOf
<1> QED BY <1>2, <1>3 DEF AllTerminal, Statuses

\* A handler with the same session and an unchanged verdict.
LEMMA VerdictFrame ==
    ASSUME SafetyInv, [Next]_vars, NEW g \in Handlers, VerdictHeldBy(g),
           pc'[g] \in {"artifact", "store"} => pc[g] \in {"artifact", "store"},
           msg'[g] = msg[g], local'[g].verdict = local[g].verdict
    PROVE  VerdictHeldBy(g)'
<1>1. TaskOf(g)' = TaskOf(g) /\ Req(g)' = Req(g)
  BY DEF TaskOf, Req
<1> QED BY <1>1, AllTerminalStays DEF VerdictHeldBy

\* The verdict a handler computes from its session and the sibling rows is
\* the one all rows give, if it is terminal.
LEMMA RefreshedVerdict ==
    ASSUME SafetyInv, NEW h \in Handlers, RefreshLoad(h), Aggregate(SeenStatuses(h)) \in Final
    PROVE  /\ AllTerminal(Req(h)) /\ SeenStatuses(h) = Statuses(Req(h))
           /\ ~local[h].dup => local[h].own = status[TaskOf(h)]
<1>0. TaskTypes /\ HandlerTypes /\ HandlerOK /\ ResultHeldBy(h)
  BY Parts DEF ResultHeld
<1>1. TaskOf(h) \in Tasks /\ local[h] \in Local /\ pc[h] = "refresh"
  BY <1>0 DEF RefreshLoad, HandlerOK, HandlerTypes
<1>2. local[h].own \in TaskStatus
  BY <1>1, LocalType
<1>3. \A t \in TasksOf(Req(h)) : status[t] \in TaskStatus
  BY <1>0 DEF TasksOf, TaskTypes
<1>4. SeenStatuses(h) \subseteq TaskStatus
  BY <1>2, <1>3 DEF SeenStatuses
<1>5. SeenStatuses(h) \subseteq Terminal
  BY <1>4, AggregateFinal
<1>6. ~local[h].dup => local[h].own = status[TaskOf(h)]
  <2>1. TaskOf(h) \in TasksOf(Req(h))
    BY <1>1 DEF TasksOf, Req
  <2>2. ~local[h].dup => local[h].own \in SeenStatuses(h)
    BY <2>1 DEF SeenStatuses
  <2> QED BY <1>0, <1>1, <1>5, <2>2 DEF ResultHeldBy
<1>7. SeenStatuses(h) = Statuses(Req(h))
  BY <1>6 DEF SeenStatuses, Statuses
<1> QED BY <1>5, <1>6, <1>7 DEF AllTerminal

\* A computed terminal verdict stays right up to its commit.
LEMMA VerdictHeldStep ==
    ASSUME SafetyInv, [Next]_vars
    PROVE  VerdictHeld'
<1>0. HandlerTypes /\ VerdictHeld /\ pc \in [Handlers -> Steps] /\ local \in [Handlers -> Local]
  BY Parts DEF HandlerTypes
<1>1. ASSUME NEW h \in Handlers,
             \A g \in Handlers : g # h => pc'[g] = pc[g] /\ msg'[g] = msg[g] /\ local'[g] = local[g],
             VerdictHeldBy(h)'
      PROVE  VerdictHeld'
  BY <1>0, <1>1, VerdictFrame DEF VerdictHeld
<1>2. ASSUME UNCHANGED <<pc, msg, local>> PROVE VerdictHeld'
  BY <1>0, <1>2, VerdictFrame DEF VerdictHeld
<1>3. ASSUME NEW h \in Handlers, NEW m \in Messages, Receive(h, m) PROVE VerdictHeld'
  <2>1. \A g \in Handlers : g # h => pc'[g] = pc[g] /\ msg'[g] = msg[g] /\ local'[g] = local[g]
    BY <1>0, <1>3 DEF Receive, HandlerTypes
  <2>2. VerdictHeldBy(h)'
    BY <1>0, <1>3 DEF Receive, VerdictHeldBy
  <2> QED BY <1>1, <2>1, <2>2
<1>4. ASSUME NEW h \in Handlers, LocalStep(h), VerdictHeldBy(h)' PROVE VerdictHeld'
  BY <1>1, <1>4, LocalStepFrame
<1>5. ASSUME NEW h \in Handlers, ClaimRead(h) \/ Load(h) \/ Execute(h) PROVE VerdictHeld'
  <2>1. pc'[h] \notin {"artifact", "store"}
    BY <1>0, <1>5 DEF ClaimRead, AfterDuplicate, Load, Execute
  <2> QED BY <1>4, <1>5, <2>1 DEF LocalStep, VerdictHeldBy
<1>6. ASSUME NEW h \in Handlers, LeaveMessage(h) PROVE VerdictHeld'
  <2>1. VerdictHeldBy(h)'
    BY <1>6, LeaveFrame DEF VerdictHeldBy
  <2> QED BY <1>1, <1>6, <2>1, LeaveFrame
<1>7. ASSUME NEW h \in Handlers, Claim(h) \/ CommitResult(h) PROVE VerdictHeld'
  <2>1. pc'[h] \notin {"artifact", "store"}
    BY <1>0, <1>7 DEF Claim, CommitResult
  <2>2. \A g \in Handlers : g # h => pc'[g] = pc[g] /\ msg'[g] = msg[g] /\ local'[g] = local[g]
    BY <1>0, <1>7 DEF Claim, CommitResult
  <2> QED BY <1>1, <2>1, <2>2 DEF VerdictHeldBy
<1>8. ASSUME NEW h \in Handlers, RefreshLoad(h) PROVE VerdictHeld'
  <2>1. local'[h].verdict = Aggregate(SeenStatuses(h))
    BY <1>0, <1>8 DEF RefreshLoad, Refreshed, Local
  <2>2. Req(h)' = Req(h) /\ AllTerminal(Req(h))' = AllTerminal(Req(h))
        /\ Statuses(Req(h))' = Statuses(Req(h))
    BY <1>8 DEF RefreshLoad, Req, TaskOf, AllTerminal, Statuses, TasksOf, taskVars
  <2>3. VerdictHeldBy(h)'
    BY <1>8, <2>1, <2>2, RefreshedVerdict DEF VerdictHeldBy
  <2> QED BY <1>4, <1>8, <2>3 DEF LocalStep
<1>9. ASSUME NEW h \in Handlers, PutArtifact(h) PROVE VerdictHeld'
  <2>1. local'[h].verdict = local[h].verdict
    BY <1>0, <1>9 DEF PutArtifact, Local
  <2>2. pc[h] = "artifact" /\ msg'[h] = msg[h] /\ VerdictHeldBy(h)
    BY <1>0, <1>9 DEF PutArtifact, VerdictHeld
  <2>3. VerdictHeldBy(h)'
    BY <2>1, <2>2, VerdictFrame
  <2> QED BY <1>4, <1>9, <2>3 DEF LocalStep
<1>10. ASSUME NEW h \in Handlers, RefreshCommit(h) PROVE VerdictHeld'
  <2>1. CASE LeaveMessage(h)
    BY <1>6, <2>1
  <2>2. CASE pc' = [pc EXCEPT ![h] = "ack"] /\ UNCHANGED <<queueVars, msg, beating, local>>
    <3>1. VerdictHeldBy(h)'
      BY <1>0, <2>2 DEF VerdictHeldBy
    <3> QED BY <1>0, <1>1, <2>2, <3>1
  <2> QED BY <1>10, <2>1, <2>2 DEF RefreshCommit
<1>11. ASSUME NEW h \in Handlers, Ack(h) PROVE VerdictHeld'
  <2>1. \A g \in Handlers : g # h => pc'[g] = pc[g] /\ msg'[g] = msg[g] /\ local'[g] = local[g]
    BY <1>0, <1>11 DEF Ack, Finish, HandlerTypes
  <2>2. VerdictHeldBy(h)'
    BY <1>0, <1>11 DEF Ack, Finish, VerdictHeldBy
  <2> QED BY <1>1, <2>1, <2>2
<1>12. ASSUME NEW h \in Handlers, Heartbeat(h) \/ HeartbeatDies(h) PROVE VerdictHeld'
  BY <1>2, <1>12 DEF Heartbeat, HeartbeatDies, handlerVars
<1>13. ASSUME NEW t \in Tasks, LeaseExpire(t) PROVE VerdictHeld'
  BY <1>2, <1>13 DEF LeaseExpire, handlerVars
<1>14. ASSUME NEW m \in Messages,
     Publish(m) \/ DeadLetter(m) \/ VisibilityExpire(m) PROVE VerdictHeld'
  BY <1>2, <1>14 DEF Publish, DeadLetter, VisibilityExpire, handlerVars
<1>15. CASE UNCHANGED vars
  BY <1>2, <1>15 DEF vars, handlerVars
<1> QED
  BY <1>3, <1>5, <1>6, <1>7, <1>8, <1>9, <1>10, <1>11, <1>12, <1>13, <1>14, <1>15, LeavingStepFrame
     DEF Next, HandlerStep, LeavingStep, PollEmpty

\* Only the refresh writes a terminal request status.
LEMMA VerdictStep ==
    ASSUME SafetyInv, [Next]_vars
    PROVE  VerdictAgrees'
<1>0. RequestTypes /\ HandlerTypes /\ VerdictAgrees /\ VerdictHeld
  BY Parts
<1> DEFINE Wrote(r) == \E h \in Handlers : /\ RefreshCommit(h) /\ r = Req(h)
                                           /\ reqStatus'[r] = local[h].verdict
<1>1. ASSUME NEW r \in Requests, reqStatus'[r] \in Final
      PROVE  reqStatus'[r] = reqStatus[r] \/ Wrote(r)
  <2>1. ASSUME NEW h \in Handlers, Claim(h) PROVE reqStatus'[r] = reqStatus[r]
    BY <1>0, <1>1, <2>1 DEF Claim, RequestTypes, Final
  <2>2. ASSUME NEW h \in Handlers, CommitResult(h) PROVE reqStatus'[r] = reqStatus[r]
    BY <1>0, <1>1, <2>2 DEF CommitResult, RequestTypes, Final
  <2>3. ASSUME NEW h \in Handlers, RefreshCommit(h) PROVE reqStatus'[r] = reqStatus[r] \/ Wrote(r)
    BY <1>0, <2>3 DEF RefreshCommit, RequestTypes
  <2>4. ASSUME NEW h \in Handlers,
       LocalStep(h) \/ LeavingStep(h) \/ Ack(h) PROVE reqStatus' = reqStatus
    BY <2>4 DEF LocalStep, ClaimRead, Load, Execute, RefreshLoad, PutArtifact, LeavingStep,
         Busy, LoadLost,
       Abort, Ack, requestVars
  <2>5. ASSUME NEW h \in Handlers, Heartbeat(h) \/ HeartbeatDies(h) PROVE reqStatus' = reqStatus
    BY <2>5 DEF Heartbeat, HeartbeatDies, requestVars
  <2>6. ASSUME NEW t \in Tasks, LeaseExpire(t) PROVE reqStatus' = reqStatus
    BY <2>6 DEF LeaseExpire, requestVars
  <2>7. ASSUME NEW m \in Messages, Publish(m) \/ DeadLetter(m) \/ VisibilityExpire(m)
        PROVE  reqStatus' = reqStatus
    BY <2>7 DEF Publish, DeadLetter, VisibilityExpire, requestVars
  <2>8. ASSUME NEW h \in Handlers, NEW m \in Messages, Receive(h, m) PROVE reqStatus' = reqStatus
    BY <2>8 DEF Receive, requestVars
  <2>9. CASE UNCHANGED vars
    BY <2>9 DEF vars, requestVars
  <2> QED
    BY <2>1, <2>2, <2>3, <2>4, <2>5, <2>6, <2>7, <2>8, <2>9
       DEF Next, HandlerStep, LocalStep, LeavingStep, PollEmpty
<1>2. ASSUME NEW r \in Requests, reqStatus'[r] \in Final
      PROVE  AllTerminal(r) /\ reqStatus'[r] = Aggregate(Statuses(r))
  <2>1. CASE reqStatus'[r] = reqStatus[r]
    BY <1>0, <1>2, <2>1 DEF VerdictAgrees
  <2>2. CASE Wrote(r)
    BY <1>0, <1>2, <2>2 DEF VerdictHeld, VerdictHeldBy, RefreshCommit
  <2> QED BY <1>1, <1>2, <2>1, <2>2
<1> QED BY <1>2, AllTerminalStays DEF VerdictAgrees

\* No acknowledgement deletes the last wake-up of an open task.
LEMMA WakeupStep ==
    ASSUME SafetyInv, [Next]_vars
    PROVE  NoLostWakeup'
<1>0. TaskTypes /\ QueueTypes /\ HandlerTypes /\ HandlerOK /\ NoLostWakeup /\ ResultHeld
  BY Parts
<1> SUFFICES ASSUME NEW t \in Tasks, status'[t] \notin Terminal PROVE HasWakeup(t)'
  BY DEF NoLostWakeup
<1>1. status[t] \notin Terminal
  BY TerminalStays
<1>2. HasWakeup(t)
  BY <1>0, <1>1 DEF NoLostWakeup
<1>3. ASSUME UNCHANGED <<published, place>> PROVE HasWakeup(t)'
  BY <1>2, <1>3 DEF HasWakeup, MessagesOf
<1>4. ASSUME NEW m \in Messages, Publish(m) PROVE HasWakeup(t)'
  <2>1. CASE MsgTask[m] = t
    <3>1. m \in MessagesOf(t) /\ place'[m] = "visible"
      BY <1>0, <1>4, <2>1 DEF Publish, QueueTypes, MessagesOf
    <3> QED BY <3>1 DEF HasWakeup, MessagesOf
  <2>2. CASE MsgTask[m] # t
    <3>1. published'[t] = published[t]
      BY <1>0, <1>4, <2>2 DEF Publish, QueueTypes
    <3>2. \A n \in MessagesOf(t) : place'[n] = place[n]
      BY <1>0, <1>4, <2>2 DEF Publish, QueueTypes, MessagesOf
    <3> QED BY <1>2, <3>1, <3>2 DEF HasWakeup, MessagesOf
  <2> QED BY <2>1, <2>2
<1>5. ASSUME NEW m \in Messages,
             \/ DeadLetter(m) \/ VisibilityExpire(m)
             \/ \E h \in Handlers : Receive(h, m)
      PROVE  HasWakeup(t)'
  <2>1. published' = published
    BY <1>5 DEF DeadLetter, VisibilityExpire, Receive
  <2>2. place' = [place EXCEPT ![m] = place'[m]] /\ place'[m] \in {"visible", "inflight", "dead"}
    BY <1>0, <1>5 DEF DeadLetter, VisibilityExpire, Receive, QueueTypes
  <2>3. \A n \in Messages : place[n] \in {"visible", "inflight", "dead"} =>
                               place'[n] \in {"visible", "inflight", "dead"}
    BY <1>0, <2>2 DEF QueueTypes
  <2> QED BY <1>2, <2>1, <2>3 DEF HasWakeup, MessagesOf
<1>6. ASSUME NEW h \in Handlers, Ack(h) PROVE HasWakeup(t)'
  <2>1. msg[h] \in Messages /\ MsgTask[msg[h]] # t
    BY <1>0, <1>1, <1>6, QueueAssumption DEF Ack, HandlerOK, ResultHeld, ResultHeldBy, TaskOf
  <2>2. \A n \in MessagesOf(t) : place'[n] = place[n]
    BY <1>0, <1>6, <2>1 DEF Ack, QueueTypes, MessagesOf
  <2>3. published' = published
    BY <1>6 DEF Ack
  <2> QED BY <1>2, <2>2, <2>3 DEF HasWakeup, MessagesOf
<1>7. ASSUME NEW h \in Handlers, LeaveMessage(h) PROVE HasWakeup(t)'
  BY <1>3, <1>7 DEF LeaveMessage
<1>8. ASSUME NEW h \in Handlers,
     LocalStep(h) \/ Claim(h) \/ CommitResult(h) \/ Heartbeat(h) \/ HeartbeatDies(h)
      PROVE  HasWakeup(t)'
  BY <1>3, <1>8
      DEF LocalStep, ClaimRead, Load, Execute, RefreshLoad, PutArtifact, Claim, CommitResult,
     Heartbeat, HeartbeatDies, queueVars
<1>9. ASSUME NEW h \in Handlers, RefreshCommit(h) PROVE HasWakeup(t)'
  BY <1>3, <1>7, <1>9 DEF RefreshCommit, queueVars
<1>10. ASSUME NEW x \in Tasks, LeaseExpire(x) PROVE HasWakeup(t)'
  BY <1>3, <1>10 DEF LeaseExpire, queueVars
<1>11. CASE UNCHANGED vars
  BY <1>3, <1>11 DEF vars, queueVars
<1> QED
  BY <1>4, <1>5, <1>6, <1>7, <1>8, <1>9, <1>10, <1>11, LeavingStepFrame
     DEF Next, HandlerStep, LocalStep, LeavingStep, PollEmpty

\* The invariant holds before the first message is relayed.
LEMMA SafetyInit == Init => SafetyInv
<1> SUFFICES ASSUME Init PROVE SafetyInv
  OBVIOUS
<1>1. TypeOK /\ HandlerOK
  BY TypeInit DEF TypeInv
<1>2. MessageHeld /\ LeaseHeld /\ SingleExecutor
  BY DEF Init, MessageHeld, LeaseHeld, SingleExecutor, Executing
<1>3. ResultHeld /\ VerdictHeld
  BY DEF Init, ResultHeld, ResultHeldBy, VerdictHeld, VerdictHeldBy, Blank
<1>4. NoLostWakeup
  BY DEF Init, NoLostWakeup, HasWakeup
<1>5. VerdictAgrees
  BY DEF Init, VerdictAgrees, Final
<1> QED BY <1>1, <1>2, <1>3, <1>4, <1>5 DEF SafetyInv

\* SafetyInv is inductive as long as heartbeats do not fail.
LEMMA SafetyStep ==
    ASSUME HeartbeatMayFail = FALSE, SafetyInv, [Next]_vars PROVE SafetyInv'
<1>1. TypeOK' /\ HandlerOK'
  BY Parts, TypeStep DEF TypeInv
<1>2. MessageHeld'
  BY MessageStep
<1>3. LeaseHeld' /\ SingleExecutor'
  BY LeaseStep
<1>4. ResultHeld'
  BY ResultStep
<1>5. VerdictHeld' /\ VerdictAgrees'
  BY VerdictHeldStep, VerdictStep
<1>6. NoLostWakeup'
  BY WakeupStep
<1> QED BY <1>1, <1>2, <1>3, <1>4, <1>5, <1>6 DEF SafetyInv

\* SafetyInv holds in every reachable state when heartbeats do not fail.
THEOREM SafetyInvariant == HeartbeatMayFail = FALSE /\ Spec => []SafetyInv
<1>1. (HeartbeatMayFail = FALSE) /\ SafetyInv /\ [Next]_vars => SafetyInv'
  BY SafetyStep
<1>2. (HeartbeatMayFail = FALSE) => (HeartbeatMayFail = FALSE)'
  OBVIOUS
<1> QED BY <1>1, <1>2, SafetyInit, PTL DEF Spec

\* For any number of handlers, messages and copies, no two handlers execute
\* one task at the same time.
THEOREM OneExecutorPerTask == HeartbeatMayFail = FALSE /\ Spec => []SingleExecutor
<1>1. SafetyInv => SingleExecutor
  BY Parts
<1> QED BY <1>1, SafetyInvariant, PTL

\* Acknowledgements and relay crashes never lose the last wake-up of a task
\* that execute_task has not finished.
THEOREM WakeupKept == HeartbeatMayFail = FALSE /\ Spec => []NoLostWakeup
<1>1. SafetyInv => NoLostWakeup
  BY Parts
<1> QED BY <1>1, SafetyInvariant, PTL

\* A terminal status that refresh_request_status committed always agrees with
\* all task rows, although it comes from a session with cached rows.
THEOREM VerdictSound == HeartbeatMayFail = FALSE /\ Spec => []VerdictAgrees
<1>1. SafetyInv => VerdictAgrees
  BY Parts
<1> QED BY <1>1, SafetyInvariant, PTL

\* A task row that execute_task made terminal is never changed again by a
\* claim, a retry, a duplicate or a late handler.
THEOREM TerminalRowsFinal == HeartbeatMayFail = FALSE /\ Spec => TerminalIsFinal
<1>1. SafetyInv /\ [Next]_vars => [TerminalKept]_vars
  BY TerminalStays DEF TerminalKept
<1> QED BY <1>1, SafetyInvariant, PTL DEF Spec, TerminalIsFinal

-----------------------------------------------------------------------------
(* RefreshInv: sessions, artifacts, recovery and the audit trail.            *)

\* The two layers together.
FullInv == SafetyInv /\ RefreshInv

\* The parts of the second layer, for citing.
LEMMA FullParts ==
    ASSUME FullInv
    PROVE  /\ SafetyInv /\ TypeInv
           /\ ReceiptAgrees /\ SessionHeld /\ RowHeld
           /\ ArtifactHeld /\ ArtifactSound /\ ArtifactComplete
           /\ SiblingWakes /\ RefreshDue /\ TrailOpen /\ AuditTrailAgrees
BY Parts DEF FullInv, RefreshInv

\* A handler that commits a result holds a running task.
LEMMA CommitsRunning ==
    ASSUME SafetyInv, NEW h \in Handlers, CommitResult(h)
    PROVE  TaskOf(h) \in Tasks /\ status[TaskOf(h)] = "running"
<1>1. pc[h] = "commit"
  BY DEF CommitResult
<1> QED BY <1>1, Parts, Working DEF LeaseHeld, Executing

\* A request with an open task is neither terminal nor has an artifact.
LEMMA OpenRequest ==
    ASSUME SafetyInv, NEW t \in Tasks, status[t] \notin Terminal
    PROVE  ~AllTerminal(RequestOf[t]) /\ reqStatus[RequestOf[t]] \notin Final
<1>1. t \in TasksOf(RequestOf[t]) /\ RequestOf[t] \in Requests
  BY RowAssumption DEF TasksOf
<1>2. ~AllTerminal(RequestOf[t])
  BY <1>1 DEF AllTerminal, Statuses
<1> QED BY <1>1, <1>2, Parts DEF VerdictAgrees

\* A receipt is committed exactly with the success of its task.
LEMMA ReceiptStep == ASSUME FullInv, [Next]_vars PROVE ReceiptAgrees'
<1>0. SafetyInv /\ TypeInv /\ ReceiptAgrees
  BY FullParts
<1> SUFFICES ASSUME NEW t \in Tasks PROVE receipt'[t] <=> status'[t] = "succeeded"
  BY DEF ReceiptAgrees
<1>1. receipt[t] <=> status[t] = "succeeded"
  BY <1>0 DEF ReceiptAgrees
<1>2. ASSUME NEW h \in Handlers, t = TaskOf(h), Claim(h)
      PROVE  receipt'[t] <=> status'[t] = "succeeded"
  BY <1>0, <1>1, <1>2, ClaimEffect DEF Terminal
<1>3. ASSUME NEW h \in Handlers, t = TaskOf(h), CommitResult(h)
      PROVE  receipt'[t] <=> status'[t] = "succeeded"
  <2>1. status[t] = "running"
    BY <1>0, <1>3, CommitsRunning
  <2>2. status'[t] = local[h].own /\ receipt'[t] = (receipt[t] \/ local[h].own = "succeeded")
    BY <1>0, <1>3, CommitEffect
  <2> QED BY <1>1, <2>1, <2>2
<1> QED BY <1>0, <1>1, <1>2, <1>3, TaskRowStep

\* The attempt of a task does not change while a handler executes it.
LEMMA AttemptKept ==
    ASSUME SafetyInv, [Next]_vars, NEW g \in Handlers, Executing(g)
    PROVE  attempt'[TaskOf(g)] = attempt[TaskOf(g)]
<1>0. TypeInv /\ LeaseHeld
  BY Parts
<1>1. TaskOf(g) \in Tasks
  BY <1>0, Working DEF Executing
<1>2. ASSUME NEW h \in Handlers, TaskOf(g) = TaskOf(h), Claim(h) PROVE FALSE
  BY <1>0, <1>2, ClaimEffect DEF LeaseHeld, Claimable
<1>3. ASSUME NEW h \in Handlers, CommitResult(h) PROVE attempt' = attempt
  BY <1>0, <1>3, CommitEffect
<1> QED BY <1>0, <1>1, <1>2, <1>3, TaskRowStep

\* What the sessions know stays true.
LEMMA SessionStep == ASSUME FullInv, [Next]_vars PROVE SessionHeld'
<1>0. /\ SafetyInv /\ TypeInv /\ SessionHeld /\ ReceiptAgrees /\ ArtifactSound
      /\ LeaseHeld /\ ResultHeld
  BY FullParts, Parts
<1>1. ASSUME NEW g \in Handlers, pc'[g] = pc[g], msg'[g] = msg[g], local'[g] = local[g]
      PROVE  SessionHeldBy(g)'
  <2>1. TaskOf(g)' = TaskOf(g) /\ InSession(g)' = InSession(g)
    BY <1>1 DEF TaskOf, InSession
  <2>2. pc[g] \in {"execute", "commit"} => attempt'[TaskOf(g)] = attempt[TaskOf(g)]
    BY <1>0, AttemptKept DEF Executing
  <2> QED BY <1>0, <1>1, <2>1, <2>2 DEF SessionHeld, SessionHeldBy
<1>2. CASE QuietStep
  BY <1>1, <1>2, QuietEffect DEF SessionHeld
<1>3. ASSUME NEW h \in Handlers, Moves(h), SessionHeldBy(h)' PROVE SessionHeld'
  BY <1>0, <1>1, <1>3, HandlerMoves DEF SessionHeld, OthersKept
<1>4. ASSUME NEW h \in Handlers, ~InSession(h)' PROVE SessionHeldBy(h)'
  BY <1>4 DEF SessionHeldBy, InSession
<1>5. ASSUME NEW h \in Handlers, Moves(h) PROVE SessionHeldBy(h)'
  <2>0. SessionHeldBy(h)
    BY <1>0 DEF SessionHeld
  <2>1. CASE Receives(h) \/ Leaves(h)
    BY <1>0, <1>4, <2>1, ReceivesEffect, LeavesEffect DEF InSession
  <2>2. CASE ClaimRead(h)
    BY <1>0, <1>4, <2>2, ClaimReadEffect DEF InSession
  <2>3. CASE Claim(h)
    BY <1>0, <1>4, <2>3, ClaimEffect DEF InSession
  <2>4. CASE Ack(h) \/ RefreshCommit(h)
    BY <1>0, <1>4, <2>4, AckEffect, RefreshCommitEffect DEF InSession
  <2>5. CASE Load(h)
    <3>1. /\ pc[h] = "load" /\ pc'[h] = "execute" /\ Stays(h) /\ SameRows
          /\ local'[h].attempt = attempt[TaskOf(h)]
          /\ local'[h].req = reqStatus[Req(h)] /\ local'[h].art = artifact[Req(h)]
          /\ local'[h].doc = {t \in {TaskOf(h)} : receipt[t]}
      BY <1>0, <2>5, LoadEffect
    <3>2. TaskOf(h) \in Tasks /\ Req(h) \in Requests /\ status[TaskOf(h)] = "running"
      BY <1>0, <3>1, Working DEF LeaseHeld, Executing
    <3>3. ~AllTerminal(Req(h)) /\ reqStatus[Req(h)] \notin Final
      BY <1>0, <3>2, OpenRequest DEF Terminal, Req
    <3>4. ~local'[h].art
      BY <1>0, <3>1, <3>2, <3>3 DEF ArtifactSound
    <3>5. local'[h].doc = {}
      BY <1>0, <3>1, <3>2 DEF ReceiptAgrees
    <3> QED BY <3>1, <3>3, <3>4, <3>5 DEF SessionHeldBy, SameRows, Stays
  <2>6. CASE Execute(h)
    <3>1. /\ pc[h] = "execute" /\ pc'[h] = "commit" /\ Stays(h) /\ SameRows
          /\ local'[h].dup = local[h].dup /\ local'[h].attempt = local[h].attempt
          /\ local'[h].req = local[h].req /\ local'[h].art = local[h].art
      BY <1>0, <2>6, ExecuteEffect
    <3>2. PICK ok \in BOOLEAN : /\ local'[h].own = ResultStatus(h, ok)
                                /\ local'[h].doc = IF ok THEN {TaskOf(h)} ELSE local[h].doc
      BY <1>0, <2>6, ExecuteEffect
    <3>3. /\ local[h].attempt = attempt[TaskOf(h)] /\ local[h].doc = {} /\ ~local[h].art
          /\ ~local[h].dup => local[h].req \notin Final
      BY <2>0, <3>1 DEF SessionHeldBy, InSession
    <3>4. local[h].attempt \in Nat /\ MaxAttempts \in Nat
      BY <1>0, <3>1, Working, LocalType, LimitAssumption
    <3>5. local'[h].own = "failed" /\ HttpSource => local'[h].attempt >= MaxAttempts
      BY <3>1, <3>2, <3>4 DEF ResultStatus
    <3>6. local'[h].own = "pending" => HttpSource /\ local'[h].attempt < MaxAttempts
      BY <3>1, <3>2, <3>4 DEF ResultStatus
    <3>7. TaskOf(h) \in local'[h].doc <=> local'[h].own = "succeeded"
      BY <3>2, <3>3 DEF ResultStatus
    <3> QED BY <3>1, <3>3, <3>5, <3>6, <3>7 DEF SessionHeldBy, SameRows, Stays
  <2>7. CASE CommitResult(h)
    <3>1. /\ pc[h] = "commit" /\ pc'[h] = "refresh" /\ Stays(h)
          /\ local'[h].dup = local[h].dup /\ local'[h].own = local[h].own
          /\ local'[h].art = local[h].art /\ local'[h].doc = local[h].doc
          /\ local'[h].req = local[h].req \/ local'[h].req = "verifying"
      BY <1>0, <2>7, CommitEffect
    <3>2. InSession(h)
      BY <3>1 DEF InSession
    <3> QED BY <2>0, <3>1, <3>2 DEF SessionHeldBy, Stays, Final
  <2>8. CASE RefreshLoad(h)
    <3>1. /\ pc[h] = "refresh" /\ pc'[h] \in {"artifact", "store"}
          /\ local'[h].dup = local[h].dup
          /\ ~local[h].dup => local'[h].req = local[h].req
      BY <1>0, <2>8, RefreshLoadEffect
    <3> QED BY <2>0, <3>1 DEF SessionHeldBy, InSession
  <2>9. CASE PutArtifact(h)
    <3>1. /\ pc[h] = "artifact" /\ pc'[h] = "store"
          /\ local'[h].dup = local[h].dup /\ local'[h].req = local[h].req
      BY <1>0, <2>9, PutEffect
    <3> QED BY <2>0, <3>1 DEF SessionHeldBy, InSession
  <2> QED BY <1>5, <2>1, <2>2, <2>3, <2>4, <2>5, <2>6, <2>7, <2>8, <2>9
       DEF Moves, Leaves, HandlerStep
<1> QED BY <1>2, <1>3, <1>5, StepKinds

\* The request row and the stored object of a request stay as they are while
\* a refresh other than the moving handler's holds the row lock.
LEMMA RowKept ==
    ASSUME FullInv, [Next]_vars, NEW g \in Handlers, pc[g] \in {"artifact", "store"},
           pc'[g] = pc[g], msg'[g] = msg[g], local'[g] = local[g],
           QuietStep \/ \E h \in Handlers : Moves(h) /\ h # g
    PROVE  /\ Req(g) \in Requests /\ rowLock'[Req(g)] = g
           /\ reqStatus'[Req(g)] = reqStatus[Req(g)]
           /\ object'[Req(g)] = object[Req(g)]
<1>0. TypeInv /\ RowHeld
  BY FullParts
<1>1. Req(g) \in Requests /\ rowLock[Req(g)] = g
  BY <1>0, Working DEF RowHeld, RowHeldBy
<1>2. ~Unlocked(Req(g))
  BY <1>1, ProcessAssumption DEF Unlocked
<1>3. ASSUME NEW h \in Handlers, h # g, pc[h] \in {"artifact", "store"} PROVE Req(h) # Req(g)
  BY <1>0, <1>1, <1>3 DEF RowHeld, RowHeldBy
<1>4. CASE QuietStep
  BY <1>1, <1>4, QuietEffect DEF SameRows
<1>5. ASSUME NEW h \in Handlers, Moves(h), h # g
      PROVE  /\ rowLock'[Req(g)] = g /\ reqStatus'[Req(g)] = reqStatus[Req(g)]
             /\ object'[Req(g)] = object[Req(g)]
  <2>1. CASE Receives(h)
    BY <1>0, <1>1, <2>1, ReceivesEffect DEF SameRows
  <2>2. CASE Leaves(h)
    BY <1>0, <1>1, <1>5, <2>2, LeavesEffect DEF SameRows
  <2>3. CASE ClaimRead(h) \/ Load(h)
    BY <1>0, <1>1, <2>3, ClaimReadEffect, LoadEffect DEF SameRows
  <2>4. CASE Execute(h) \/ Ack(h)
    BY <1>0, <1>1, <2>4, ExecuteEffect, AckEffect DEF SameRows
  <2>5. CASE Claim(h)
    BY <1>0, <1>1, <1>2, <2>5, ClaimEffect
  <2>6. CASE CommitResult(h)
    BY <1>0, <1>1, <1>2, <2>6, CommitEffect
  <2>7. CASE RefreshLoad(h)
    BY <1>0, <1>1, <1>2, <2>7, RefreshLoadEffect DEF SameRows
  <2>8. CASE PutArtifact(h)
    BY <1>0, <1>1, <1>3, <1>5, <2>8, PutEffect DEF SameRows
  <2>9. CASE RefreshCommit(h)
    BY <1>0, <1>1, <1>3, <1>5, <2>9, RefreshCommitEffect
  <2> QED BY <1>5, <2>1, <2>2, <2>3, <2>4, <2>5, <2>6, <2>7, <2>8, <2>9
       DEF Moves, Leaves, HandlerStep
<1> QED BY <1>1, <1>4, <1>5

\* Where a handler is during a refresh after its own step.
LEMMA IntoRefresh ==
    ASSUME TypeInv, NEW h \in Handlers, Moves(h), pc'[h] \in {"artifact", "store"}
    PROVE  RefreshLoad(h) \/ PutArtifact(h)
<1>1. ~Receives(h) /\ ~Leaves(h)
  BY ReceivesEffect, LeavesEffect
<1>2. ~ClaimRead(h) /\ ~Load(h) /\ ~Claim(h)
  BY ClaimReadEffect, LoadEffect, ClaimEffect
<1>3. ~Execute(h) /\ ~CommitResult(h)
  BY ExecuteEffect, CommitEffect
<1>4. ~Ack(h) /\ ~RefreshCommit(h)
  BY AckEffect, RefreshCommitEffect
<1> QED BY <1>1, <1>2, <1>3, <1>4 DEF Moves, Leaves, HandlerStep

\* A refresh keeps the row lock, and a duplicate's view of the row.
LEMMA RowStep == ASSUME FullInv, [Next]_vars PROVE RowHeld'
<1>0. TypeInv /\ RowHeld
  BY FullParts
<1>1. ASSUME NEW g \in Handlers, pc'[g] = pc[g], msg'[g] = msg[g], local'[g] = local[g],
             QuietStep \/ \E h \in Handlers : Moves(h) /\ h # g
      PROVE  RowHeldBy(g)'
  <2>1. Req(g)' = Req(g)
    BY <1>1 DEF TaskOf, Req
  <2> QED BY <1>0, <1>1, <2>1, RowKept DEF RowHeld, RowHeldBy
<1>2. CASE QuietStep
  BY <1>1, <1>2, QuietEffect DEF RowHeld
<1>3. ASSUME NEW h \in Handlers, Moves(h) PROVE RowHeldBy(h)'
  <2>1. CASE RefreshLoad(h)
    <3>1. /\ Stays(h) /\ rowLock'[Req(h)] = h /\ SameRows
          /\ local'[h].dup = local[h].dup
          /\ local[h].dup => local'[h].req = reqStatus[Req(h)]
      BY <1>0, <2>1, RefreshLoadEffect
    <3> QED BY <3>1 DEF RowHeldBy, Stays, SameRows
  <2>2. CASE PutArtifact(h)
    <3>1. /\ Stays(h) /\ UNCHANGED rowLock /\ SameRows /\ pc[h] = "artifact"
          /\ local'[h].dup = local[h].dup /\ local'[h].req = local[h].req
      BY <1>0, <2>2, PutEffect
    <3> QED BY <1>0, <3>1 DEF RowHeld, RowHeldBy, Stays, SameRows
  <2>3. CASE pc'[h] \notin {"artifact", "store"}
    BY <2>3 DEF RowHeldBy
  <2> QED BY <1>0, <1>3, <2>1, <2>2, <2>3, IntoRefresh
<1>4. ASSUME NEW h \in Handlers, Moves(h) PROVE RowHeld'
  BY <1>0, <1>1, <1>3, <1>4, HandlerMoves DEF RowHeld, OthersKept
<1> QED BY <1>2, <1>4, StepKinds

\* The succeeded tasks of a request whose tasks are all terminal stand.
LEMMA SucceededStays ==
    ASSUME SafetyInv, [Next]_vars, NEW r, AllTerminal(r)
    PROVE  AllTerminal(r)' /\ Succeeded(r)' = Succeeded(r)
<1>1. \A t \in TasksOf(r) : t \in Tasks /\ status[t] \in Terminal
  BY DEF AllTerminal, Statuses, TasksOf
<1>2. \A t \in TasksOf(r) : status'[t] = status[t]
  BY <1>1, TerminalStays
<1>3. TasksOf(r)' = TasksOf(r)
  BY DEF TasksOf
<1> QED BY <1>2, <1>3, AllTerminalStays DEF Succeeded

\* The document a refresh builds for a terminal verdict holds the receipts of
\* the succeeded tasks, its own included.
LEMMA DocumentComplete ==
    ASSUME FullInv, NEW h \in Handlers, RefreshLoad(h), Aggregate(SeenStatuses(h)) \in Final
    PROVE  SeenReceipts(h) = Succeeded(Req(h))
<1>0. SafetyInv /\ TypeInv /\ ReceiptAgrees /\ SessionHeldBy(h)
  BY FullParts DEF SessionHeld
<1>1. pc[h] = "refresh"
  BY <1>0, RefreshLoadEffect
<1>2. ~local[h].dup => local[h].own = status[TaskOf(h)]
  BY <1>0, RefreshedVerdict
<1>3. ~local[h].dup => (TaskOf(h) \in local[h].doc <=> local[h].own = "succeeded")
  BY <1>0, <1>1 DEF SessionHeldBy, InSession
<1>4. \A t \in TasksOf(Req(h)) : receipt[t] <=> status[t] = "succeeded"
  BY <1>0 DEF ReceiptAgrees, TasksOf
<1> QED BY <1>2, <1>3, <1>4 DEF SeenReceipts, Succeeded

\* What a refresh writes to the object store is complete.
LEMMA ArtifactHeldStep == ASSUME FullInv, [Next]_vars PROVE ArtifactHeld'
<1>0. SafetyInv /\ TypeInv /\ ArtifactHeld /\ ArtifactSound /\ SessionHeld /\ VerdictHeld
  BY FullParts, Parts
<1>1. ASSUME NEW g \in Handlers, pc'[g] = pc[g], msg'[g] = msg[g], local'[g] = local[g],
             QuietStep \/ \E h \in Handlers : Moves(h) /\ h # g
      PROVE  ArtifactHeldBy(g)'
  <2>1. Req(g)' = Req(g) /\ NeedsArtifact(local[g], Req(g))' = NeedsArtifact(local[g], Req(g))
    BY <1>1 DEF TaskOf, Req, NeedsArtifact
  <2>2. ArtifactHeldBy(g) /\ VerdictHeldBy(g)
    BY <1>0 DEF ArtifactHeld, VerdictHeld
  <2>3. CASE pc[g] = "artifact"
    <3>1. AllTerminal(Req(g))
      BY <2>2, <2>3 DEF ArtifactHeldBy, VerdictHeldBy, Final
    <3>2. Succeeded(Req(g))' = Succeeded(Req(g))
      <4>1. \A r : r = Req(g) => Succeeded(r)' = Succeeded(r)
        BY <1>0, <3>1, SucceededStays
      <4> QED BY <2>1, <4>1 DEF Succeeded
    <3> QED BY <1>1, <2>1, <2>2, <2>3, <3>2 DEF ArtifactHeldBy
  <2>4. CASE pc[g] = "store"
    <3>1. object'[Req(g)] = object[Req(g)]
      BY <1>1, <2>4, RowKept
    <3>2. AllTerminal(Req(g)) => AllTerminal(Req(g))' /\ Succeeded(Req(g))' = Succeeded(Req(g))
      <4>1. \A r : AllTerminal(r) => AllTerminal(r)' /\ Succeeded(r)' = Succeeded(r)
        BY <1>0, SucceededStays
      <4> QED BY <2>1, <4>1 DEF Succeeded, AllTerminal, Statuses
    <3> QED BY <1>1, <2>1, <2>2, <2>4, <3>1, <3>2 DEF ArtifactHeldBy
  <2> QED BY <1>1, <2>3, <2>4 DEF ArtifactHeldBy
<1>2. CASE QuietStep
  BY <1>1, <1>2, QuietEffect DEF ArtifactHeld
<1>3. ASSUME NEW h \in Handlers, Moves(h) PROVE ArtifactHeldBy(h)'
  <2>1. CASE RefreshLoad(h)
    <3>1. /\ Stays(h) /\ SameRows /\ UNCHANGED object /\ pc[h] = "refresh"
          /\ pc'[h] = IF NeedsArtifact(local'[h], Req(h)) THEN "artifact" ELSE "store"
          /\ local'[h].art = IF local[h].dup THEN artifact[Req(h)] ELSE local[h].art
          /\ local'[h].verdict = Aggregate(SeenStatuses(h))
          /\ local'[h].doc = SeenReceipts(h)
      BY <1>0, <2>1, RefreshLoadEffect
    <3>2. /\ Succeeded(Req(h))' = Succeeded(Req(h)) /\ AllTerminal(Req(h))' = AllTerminal(Req(h))
          /\ NeedsArtifact(local[h], Req(h))' = NeedsArtifact(local'[h], Req(h))
      BY <3>1 DEF SameRows, Stays, Succeeded, TasksOf, AllTerminal, Statuses, NeedsArtifact
    <3>3. CASE NeedsArtifact(local'[h], Req(h))
      <4>1. pc'[h] = "artifact" /\ local'[h].verdict \in {"completed", "partial"}
        BY <3>1, <3>3 DEF NeedsArtifact
      <4>2. local'[h].doc = Succeeded(Req(h))
        BY <2>1, <3>1, <4>1, DocumentComplete DEF Final
      <4> QED BY <3>2, <4>1, <4>2 DEF ArtifactHeldBy
    <3>4. CASE ~NeedsArtifact(local'[h], Req(h))
      <4>1. pc'[h] = "store" /\ Req(h) \in Requests
        BY <1>0, <3>1, <3>4, Working
      <4>2. ~local[h].dup => ~local[h].art
        BY <1>0, <3>1 DEF SessionHeld, SessionHeldBy, InSession
      <4>3. local'[h].art => artifact[Req(h)]
        BY <3>1, <4>2
      <4>4. local'[h].art => AllTerminal(Req(h)) /\ object[Req(h)] = Succeeded(Req(h))
        BY <1>0, <4>1, <4>3 DEF ArtifactSound
      <4>5. object'[Req(h)'] = object[Req(h)]
        BY <3>1 DEF Stays
      <4> QED BY <3>2, <3>4, <4>1, <4>4, <4>5 DEF ArtifactHeldBy
    <3> QED BY <3>3, <3>4
  <2>2. CASE PutArtifact(h)
    <3>1. /\ Stays(h) /\ SameRows /\ pc[h] = "artifact" /\ pc'[h] = "store"
          /\ local'[h].art = TRUE /\ object'[Req(h)] = local[h].doc
      BY <1>0, <2>2, PutEffect
    <3>2. /\ Succeeded(Req(h))' = Succeeded(Req(h)) /\ AllTerminal(Req(h))' = AllTerminal(Req(h))
          /\ ~NeedsArtifact(local[h], Req(h))'
      BY <3>1 DEF SameRows, Stays, Succeeded, TasksOf, AllTerminal, Statuses, NeedsArtifact
    <3>3. AllTerminal(Req(h)) /\ local[h].doc = Succeeded(Req(h))
      BY <1>0, <3>1 DEF ArtifactHeld, ArtifactHeldBy, VerdictHeld, VerdictHeldBy, Final
    <3>4. object'[Req(h)'] = local[h].doc
      BY <3>1 DEF Stays
    <3> QED BY <3>1, <3>2, <3>3, <3>4 DEF ArtifactHeldBy
  <2>3. CASE pc'[h] \notin {"artifact", "store"}
    BY <2>3 DEF ArtifactHeldBy
  <2> QED BY <1>0, <1>3, <2>1, <2>2, <2>3, IntoRefresh
<1>4. ASSUME NEW h \in Handlers, Moves(h) PROVE ArtifactHeld'
  BY <1>0, <1>1, <1>3, <1>4, HandlerMoves DEF ArtifactHeld, OthersKept
<1> QED BY <1>2, <1>4, StepKinds

\* What a put writes is what a recorded artifact holds already.
LEMMA PutComplete ==
    ASSUME FullInv, NEW h \in Handlers, PutArtifact(h)
    PROVE  Req(h) \in Requests /\ object'[Req(h)] = Succeeded(Req(h))
<1>0. TypeInv /\ ArtifactHeldBy(h)
  BY FullParts DEF ArtifactHeld
<1>1. pc[h] = "artifact" /\ object'[Req(h)] = local[h].doc
  BY <1>0, PutEffect
<1> QED BY <1>0, <1>1, Working DEF ArtifactHeldBy

\* An artifact is recorded by the refresh that stored it, and stays.
LEMMA ArtifactRecorded ==
    ASSUME FullInv, [Next]_vars, NEW r \in Requests
    PROVE  /\ artifact[r] => artifact'[r]
           /\ artifact'[r] => AllTerminal(r) /\ object[r] = Succeeded(r)
<1>0. TypeInv /\ ArtifactSound /\ ArtifactHeld
  BY FullParts
<1>1. CASE artifact'[r] = artifact[r]
  BY <1>0, <1>1 DEF ArtifactSound
<1>2. ASSUME NEW h \in Handlers, r = Req(h), Claim(h) \/ CommitResult(h)
      PROVE  artifact'[r] = artifact[r]
  BY <1>0, <1>2, ClaimEffect, CommitEffect
<1>3. ASSUME NEW h \in Handlers, r = Req(h), RefreshCommit(h)
      PROVE  /\ artifact[r] => artifact'[r]
             /\ artifact'[r] => AllTerminal(r) /\ object[r] = Succeeded(r)
  <2>1. pc[h] = "store" /\ artifact'[r] = (artifact[r] \/ local[h].art)
    BY <1>0, <1>3, RefreshCommitEffect
  <2> QED BY <1>0, <1>3, <2>1 DEF ArtifactSound, ArtifactHeld, ArtifactHeldBy
<1> QED BY <1>0, <1>1, <1>2, <1>3, RequestRowStep

\* A recorded artifact is complete.
LEMMA ArtifactSoundStep == ASSUME FullInv, [Next]_vars PROVE ArtifactSound'
<1>0. SafetyInv /\ TypeInv
  BY FullParts
<1> SUFFICES ASSUME NEW r \in Requests, artifact'[r]
             PROVE  AllTerminal(r)' /\ object'[r] = Succeeded(r)'
  BY DEF ArtifactSound
<1>1. AllTerminal(r) /\ object[r] = Succeeded(r)
  BY ArtifactRecorded
<1>2. AllTerminal(r)' /\ Succeeded(r)' = Succeeded(r)
  BY <1>0, <1>1, SucceededStays
<1>3. object'[r] = Succeeded(r)
  BY <1>0, <1>1, ObjectStep, PutComplete
<1> QED BY <1>2, <1>3

\* A request turns completed or partial together with its artifact.
LEMMA ArtifactCompleteStep == ASSUME FullInv, [Next]_vars PROVE ArtifactComplete'
<1>0. TypeInv /\ ArtifactComplete /\ ArtifactHeld
  BY FullParts
<1> SUFFICES ASSUME NEW r \in Requests, KindOf[r] = "access",
                    reqStatus'[r] \in {"completed", "partial"}
             PROVE  artifact'[r]
  BY ArtifactSoundStep DEF ArtifactComplete, ArtifactSound, Succeeded
<1>1. CASE reqStatus'[r] = reqStatus[r]
  BY <1>0, <1>1, ArtifactRecorded DEF ArtifactComplete
<1>2. ASSUME NEW h \in Handlers, r = Req(h), Claim(h) \/ CommitResult(h)
      PROVE  reqStatus'[r] = reqStatus[r]
  BY <1>0, <1>2, ClaimEffect, CommitEffect
<1>3. ASSUME NEW h \in Handlers, r = Req(h), RefreshCommit(h), reqStatus'[r] # reqStatus[r]
      PROVE  artifact'[r]
  <2>1. /\ pc[h] = "store" /\ local[h].verdict = reqStatus'[r]
        /\ artifact'[r] = (artifact[r] \/ local[h].art)
    BY <1>0, <1>3, RefreshCommitEffect
  <2> QED BY <1>0, <1>3, <2>1 DEF ArtifactHeld, ArtifactHeldBy, NeedsArtifact
<1> QED BY <1>0, <1>1, <1>2, <1>3, RequestRowStep

\* The message of a handler in a call is no other handler's.
LEMMA OwnMessage ==
    ASSUME SafetyInv, NEW g \in Handlers, NEW h \in Handlers,
           pc[g] # "idle", pc[h] # "idle", msg[g] = msg[h]
    PROVE  g = h
BY Parts DEF MessageHeld

\* A task that a handler works on keeps its wake-up: the handler's message.
LEMMA HeldKeepsWakeup ==
    ASSUME SafetyInv, NEW h \in Handlers, pc[h] \notin {"idle", "handle", "ack"}
    PROVE  KeepsWakeup(TaskOf(h))
<1>1. msg[h] \in MessagesOf(TaskOf(h)) /\ place[msg[h]] = "inflight"
  BY Parts, Working DEF MessagesOf, TaskOf, MessageHeld
<1>2. \A g \in Handlers : pc[g] = "ack" => msg[g] # msg[h]
  BY OwnMessage
<1> QED BY <1>1, <1>2 DEF KeepsWakeup

\* An open task keeps its wake-up: only messages of terminal tasks are about
\* to be acknowledged.
LEMMA OpenKeepsWakeup ==
    ASSUME SafetyInv, NEW t \in Tasks, status[t] \notin Terminal
    PROVE  KeepsWakeup(t)
<1>1. HasWakeup(t) /\ ResultHeld
  BY Parts DEF NoLostWakeup
<1>2. \A h \in Handlers, m \in MessagesOf(t) : pc[h] = "ack" => msg[h] # m
  BY <1>1, QueueAssumption DEF ResultHeld, ResultHeldBy, TaskOf, MessagesOf
<1> QED BY <1>1, <1>2 DEF HasWakeup, KeepsWakeup

\* Only the end of a handled refresh of t endangers a wake-up of t.
LEMMA KeepsWakeupStays ==
    ASSUME SafetyInv, [Next]_vars, NEW t \in Tasks, KeepsWakeup(t),
           \A h \in Handlers : RefreshCommit(h) /\ TaskOf(h) = t => ~Handled(h)
    PROVE  KeepsWakeup(t)'
<1>0. TypeInv /\ QueueTypes /\ HandlerTypes /\ MessageHeld
  BY Parts
<1> DEFINE Alive(m) == place[m] \in {"visible", "inflight", "dead"}
<1> DEFINE Quiet(m) == \A h \in Handlers : pc[h] = "ack" => msg[h] # m
<1>1. MessagesOf(t)' = MessagesOf(t) /\ MessagesOf(t) \subseteq Messages
  BY DEF MessagesOf
<1>2. ASSUME UNCHANGED published,
             \A m \in MessagesOf(t) : Alive(m) /\ Quiet(m) => Alive(m)' /\ Quiet(m)'
      PROVE  KeepsWakeup(t)'
  BY <1>1, <1>2 DEF KeepsWakeup
<1>3. ASSUME UNCHANGED <<published, pc, msg>>, \A m \in Messages : Alive(m) => Alive(m)'
      PROVE  KeepsWakeup(t)'
  BY <1>1, <1>2, <1>3
<1>4. ASSUME NEW m \in Messages, Publish(m) PROVE KeepsWakeup(t)'
  <2>1. UNCHANGED <<pc, msg>> /\ place[m] = "unsent" /\ place'[m] = "visible"
    BY <1>0, <1>4 DEF Publish, handlerVars, QueueTypes
  <2>2. CASE MsgTask[m] = t
    <3>1. m \in MessagesOf(t) /\ Alive(m)' /\ Quiet(m)'
      BY <1>0, <2>1, <2>2 DEF MessagesOf, MessageHeld
    <3> QED BY <1>1, <3>1 DEF KeepsWakeup
  <2>3. CASE MsgTask[m] # t
    <3>1. published'[t] = published[t] /\ \A n \in MessagesOf(t) : place'[n] = place[n]
      BY <1>0, <1>4, <2>3 DEF Publish, QueueTypes, MessagesOf
    <3> QED BY <1>1, <2>1, <3>1 DEF KeepsWakeup
  <2> QED BY <2>2, <2>3
<1>5. ASSUME NEW m \in Messages, DeadLetter(m) \/ VisibilityExpire(m) PROVE KeepsWakeup(t)'
  <2>1. UNCHANGED <<published, pc, msg>>
    BY <1>5 DEF DeadLetter, VisibilityExpire, handlerVars
  <2>2. \A n \in Messages : place'[n] = place[n] \/ place'[n] \in {"visible", "dead"}
    BY <1>0, <1>5 DEF DeadLetter, VisibilityExpire, QueueTypes
  <2> QED BY <1>3, <2>1, <2>2
<1>6. ASSUME NEW h \in Handlers, Heartbeat(h) \/ HeartbeatDies(h) PROVE KeepsWakeup(t)'
  BY <1>3, <1>6 DEF Heartbeat, HeartbeatDies, queueVars, handlerVars
<1>7. ASSUME NEW x \in Tasks, LeaseExpire(x) PROVE KeepsWakeup(t)'
  BY <1>3, <1>7 DEF LeaseExpire, queueVars, handlerVars
<1>8. CASE UNCHANGED vars
  BY <1>3, <1>8 DEF vars, queueVars, handlerVars
<1>9. ASSUME NEW h \in Handlers, NEW m \in Messages, Receive(h, m) PROVE KeepsWakeup(t)'
  <2>1. UNCHANGED published /\ \A n \in Messages : place'[n] = place[n] \/ place'[n] = "inflight"
    BY <1>0, <1>9 DEF Receive, QueueTypes
  <2>2. pc'[h] = "handle" /\ OthersKept(h)
    BY <1>0, <1>9, ReceivesEffect DEF Receives
  <2> QED BY <1>1, <1>2, <2>1, <2>2 DEF OthersKept
<1>10. ASSUME NEW h \in Handlers, OthersKept(h), UNCHANGED <<published, place>>,
              pc'[h] # "ack" \/ (msg'[h] \in Messages /\ MsgTask[msg'[h]] # t)
       PROVE  KeepsWakeup(t)'
  BY <1>1, <1>2, <1>10 DEF OthersKept, MessagesOf
<1>11. ASSUME NEW h \in Handlers, HandlerStep(h) \/ Leaves(h) PROVE KeepsWakeup(t)'
  <2>1. CASE Leaves(h)
    BY <1>0, <1>10, <2>1, LeavesEffect
  <2>2. CASE ClaimRead(h)
    <3>1. pc'[h] = "ack" => msg'[h] \in Messages /\ MsgTask[msg'[h]] # t
      BY <1>0, <2>2, ClaimReadEffect, QueueAssumption, Parts DEF HandlerOK, TaskOf, Stays
    <3> QED BY <1>0, <1>10, <2>2, <3>1, ClaimReadEffect
  <2>3. CASE Claim(h) \/ Load(h)
    BY <1>0, <1>10, <2>3, ClaimEffect, LoadEffect
  <2>4. CASE Execute(h) \/ CommitResult(h)
    BY <1>0, <1>10, <2>4, ExecuteEffect, CommitEffect
  <2>5. CASE PutArtifact(h)
    BY <1>0, <1>10, <2>5, PutEffect
  <2>6. CASE RefreshLoad(h)
    BY <1>0, <1>10, <2>6, RefreshLoadEffect
  <2>7. CASE RefreshCommit(h)
    <3>1. pc[h] = "store" /\ OthersKept(h) /\ UNCHANGED <<published, place>>
      BY <1>0, <2>7, RefreshCommitEffect
    <3>2. pc'[h] = "ack" => Handled(h) /\ Stays(h)
      BY <1>0, <2>7, RefreshCommitEffect
    <3>3. pc'[h] = "ack" => msg'[h] \in Messages /\ MsgTask[msg'[h]] # t
      BY <1>0, <2>7, <3>1, <3>2, Working DEF Stays, TaskOf
    <3> QED BY <1>10, <3>1, <3>3
  <2>8. CASE Ack(h)
    <3>1. /\ pc[h] = "ack" /\ pc'[h] = "idle" /\ OthersKept(h) /\ UNCHANGED published
          /\ \A m \in Messages : m # msg[h] => place'[m] = place[m]
      BY <1>0, <2>8, AckEffect
    <3> QED BY <1>1, <1>2, <3>1 DEF OthersKept
  <2> QED BY <1>11, <2>1, <2>2, <2>3, <2>4, <2>5, <2>6, <2>7, <2>8 DEF Leaves, HandlerStep
<1> QED
  BY <1>4, <1>5, <1>6, <1>7, <1>8, <1>9, <1>11, StepKinds DEF QuietStep, Moves, Receives

\* An aggregate that is not terminal comes from an open status.
LEMMA AggregateOpen ==
    ASSUME NEW S \in SUBSET TaskStatus, S # {}, Aggregate(S) \notin Final
    PROVE  \E s \in S : s \notin Terminal
<1>1. "pending" \in S \/ "running" \in S
  BY DEF Aggregate, Final, TaskStatus
<1> QED BY <1>1 DEF Terminal

\* A handled refresh that finds the request open found a sibling that is.
LEMMA RefreshSeesSibling ==
    ASSUME SafetyInv, NEW h \in Handlers, RefreshLoad(h), Handled(h),
           Aggregate(SeenStatuses(h)) \notin Final
    PROVE  \E t \in TasksOf(Req(h)) \ {TaskOf(h)} : status[t] \notin Terminal
<1>0. TypeInv /\ TaskTypes /\ ResultHeldBy(h)
  BY Parts DEF ResultHeld
<1>1. pc[h] = "refresh" /\ local[h] \in Local /\ TaskOf(h) \in TasksOf(Req(h))
  BY <1>0, Working, RefreshLoadEffect
<1>2. local[h].own \in TaskStatus
  BY <1>1, LocalType
<1>3. SeenStatuses(h) \in SUBSET TaskStatus /\ SeenStatuses(h) # {}
  BY <1>0, <1>1, <1>2 DEF SeenStatuses, TasksOf, TaskTypes
<1>4. PICK t \in TasksOf(Req(h)) :
          (IF t = TaskOf(h) /\ ~local[h].dup THEN local[h].own ELSE status[t]) \notin Terminal
  BY <1>3, AggregateOpen DEF SeenStatuses
<1>5. t # TaskOf(h)
  BY <1>0, <1>1, <1>4 DEF Handled, ResultHeldBy, Terminal
<1> QED BY <1>4, <1>5

\* The sibling's wake-up is still there when the refresh commits: another
\* refresh of the request, which could acknowledge it, waits for the row lock.
LEMMA SiblingStep == ASSUME FullInv, [Next]_vars PROVE SiblingWakes'
<1>0. SafetyInv /\ TypeInv /\ SiblingWakes /\ RowHeld /\ ArtifactHeld
  BY FullParts
<1>1. ASSUME NEW g \in Handlers, pc'[g] = pc[g], msg'[g] = msg[g], local'[g] = local[g],
             QuietStep \/ \E h \in Handlers : Moves(h) /\ h # g
      PROVE  SiblingWakesBy(g)'
  <2> SUFFICES ASSUME pc[g] \in {"artifact", "store"}, local[g].verdict \notin Final, Handled(g)
               PROVE  \E t \in TasksOf(Req(g)) \ {TaskOf(g)} : KeepsWakeup(t)'
    <3>1. /\ TaskOf(g)' = TaskOf(g) /\ TasksOf(Req(g))' = TasksOf(Req(g))
          /\ Handled(g)' = Handled(g)
      BY <1>1 DEF TaskOf, Req, TasksOf, Handled
    <3> QED BY <1>1, <3>1 DEF SiblingWakesBy
  <2>1. PICK t \in TasksOf(Req(g)) \ {TaskOf(g)} : KeepsWakeup(t)
    BY <1>0 DEF SiblingWakes, SiblingWakesBy
  <2>2. t \in Tasks /\ RequestOf[t] = Req(g)
    BY <2>1 DEF TasksOf
  <2>3. ASSUME NEW h \in Handlers, RefreshCommit(h), TaskOf(h) = t PROVE FALSE
    <3>1. pc[h] = "store"
      BY <1>0, <2>3, RefreshCommitEffect
    <3>2. h # g /\ Req(h) = Req(g)
      BY <2>1, <2>2, <2>3 DEF Req
    <3> QED BY <1>0, <3>1, <3>2 DEF RowHeld, RowHeldBy
  <2>4. KeepsWakeup(t)'
    BY <1>0, <2>1, <2>2, <2>3, KeepsWakeupStays
  <2> QED BY <2>1, <2>4
<1>2. CASE QuietStep
  BY <1>1, <1>2, QuietEffect DEF SiblingWakes
<1>3. ASSUME NEW h \in Handlers, Moves(h) PROVE SiblingWakesBy(h)'
  <2>1. CASE RefreshLoad(h)
    <3>1. /\ Stays(h) /\ local'[h].verdict = Aggregate(SeenStatuses(h)) /\ pc[h] = "refresh"
          /\ local'[h].dup = local[h].dup /\ local'[h].own = local[h].own
      BY <1>0, <2>1, RefreshLoadEffect
    <3>2. Handled(h)' = Handled(h) /\ TasksOf(Req(h))' = TasksOf(Req(h)) /\ TaskOf(h)' = TaskOf(h)
      BY <3>1 DEF Handled, Stays, TasksOf
    <3> SUFFICES ASSUME Handled(h), Aggregate(SeenStatuses(h)) \notin Final
                 PROVE  \E t \in TasksOf(Req(h)) \ {TaskOf(h)} : KeepsWakeup(t)'
      BY <3>1, <3>2 DEF SiblingWakesBy
    <3>3. PICK t \in TasksOf(Req(h)) \ {TaskOf(h)} : status[t] \notin Terminal
      BY <1>0, <2>1, RefreshSeesSibling
    <3>4. t \in Tasks /\ KeepsWakeup(t)
      BY <1>0, <3>3, OpenKeepsWakeup DEF TasksOf
    <3>5. ASSUME NEW g \in Handlers, RefreshCommit(g), TaskOf(g) = t PROVE FALSE
      <4>1. pc[g] = "store" /\ OthersKept(g) /\ pc'[g] # pc[g]
        BY <1>0, <3>5, RefreshCommitEffect
      <4>2. g # h /\ OthersKept(h)
        BY <1>0, <2>1, <3>1, <4>1, RefreshLoadEffect
      <4> QED BY <4>1, <4>2 DEF OthersKept
    <3>6. KeepsWakeup(t)'
      BY <1>0, <3>4, <3>5, KeepsWakeupStays
    <3> QED BY <3>3, <3>6
  <2>2. CASE PutArtifact(h)
    <3>1. pc[h] = "artifact" /\ local'[h].verdict = local[h].verdict
      BY <1>0, <2>2, PutEffect
    <3>2. local'[h].verdict \in Final
      BY <1>0, <3>1 DEF ArtifactHeld, ArtifactHeldBy, Final
    <3> QED BY <3>2 DEF SiblingWakesBy
  <2>3. CASE pc'[h] \notin {"artifact", "store"}
    BY <2>3 DEF SiblingWakesBy
  <2> QED BY <1>0, <1>3, <2>1, <2>2, <2>3, IntoRefresh
<1>4. ASSUME NEW h \in Handlers, Moves(h) PROVE SiblingWakes'
  BY <1>0, <1>1, <1>3, <1>4, HandlerMoves DEF SiblingWakes, OthersKept
<1> QED BY <1>2, <1>4, StepKinds

\* The commit of a refresh leaves its request right, or a wake-up behind.
LEMMA RefreshCommitDue ==
    ASSUME FullInv, [Next]_vars, NEW h \in Handlers, RefreshCommit(h),
           AllTerminal(Req(h)), reqStatus'[Req(h)] # Aggregate(Statuses(Req(h)))
    PROVE  \E t \in TasksOf(Req(h)) : KeepsWakeup(t)'
<1>0. /\ SafetyInv /\ TypeInv /\ SessionHeld /\ RowHeld /\ VerdictHeld /\ SiblingWakes
      /\ VerdictAgrees
  BY FullParts, Parts
<1>1. /\ pc[h] = "store"
      /\ reqStatus'[Req(h)] = IF local[h].verdict # local[h].req THEN local[h].verdict
                                                                 ELSE reqStatus[Req(h)]
      /\ pc'[h] # pc[h]
  BY <1>0, RefreshCommitEffect
<1>2. TaskOf(h) \in Tasks /\ TaskOf(h) \in TasksOf(Req(h)) /\ Req(h) \in Requests
  BY <1>0, <1>1, Working
<1>3. \A g \in Handlers : RefreshCommit(g) => g = h
  <2> SUFFICES ASSUME NEW g \in Handlers, RefreshCommit(g), g # h PROVE FALSE
    OBVIOUS
  <2>1. OthersKept(g)
    BY <1>0, RefreshCommitEffect
  <2> QED BY <1>1, <2>1 DEF OthersKept
<1>4. CASE ~Handled(h)
  <2>1. KeepsWakeup(TaskOf(h))
    BY <1>0, <1>1, HeldKeepsWakeup
  <2>2. \A t : t = TaskOf(h) => KeepsWakeup(t)'
    BY <1>0, <1>2, <1>3, <1>4, <2>1, KeepsWakeupStays
  <2> QED BY <1>2, <2>2
<1>5. CASE Handled(h) /\ local[h].verdict \notin Final
  <2>1. PICK t \in TasksOf(Req(h)) \ {TaskOf(h)} : KeepsWakeup(t)
    BY <1>0, <1>1, <1>5 DEF SiblingWakes, SiblingWakesBy
  <2>2. t \in Tasks
    BY <2>1 DEF TasksOf
  <2>3. KeepsWakeup(t)'
    BY <1>0, <1>3, <2>1, <2>2, KeepsWakeupStays
  <2> QED BY <2>1, <2>3
<1>6. CASE local[h].verdict \in Final
  <2>1. local[h].verdict = Aggregate(Statuses(Req(h)))
    BY <1>0, <1>1, <1>6 DEF VerdictHeld, VerdictHeldBy
  <2>2. local[h].verdict = local[h].req
    BY <1>1, <2>1
  <2>3. local[h].dup
    BY <1>0, <1>1, <1>6, <2>2 DEF SessionHeld, SessionHeldBy, InSession
  <2>4. reqStatus[Req(h)] = local[h].verdict
    BY <1>0, <1>1, <2>2, <2>3 DEF RowHeld, RowHeldBy
  <2> QED BY <1>1, <2>1, <2>2, <2>4
<1> QED BY <1>4, <1>5, <1>6

\* The rows of a request whose last task becomes terminal.
LEMMA BecomesTerminal ==
    ASSUME SafetyInv, [Next]_vars, NEW r \in Requests, AllTerminal(r)', ~AllTerminal(r)
    PROVE  \E h \in Handlers : CommitResult(h) /\ TaskOf(h) \in TasksOf(r)
<1>0. TypeInv /\ TaskTypes
  BY Parts
<1>1. PICK t \in TasksOf(r) : status[t] \notin Terminal
  BY DEF AllTerminal, Statuses
<1>2. t \in Tasks /\ status'[t] \in Terminal
  BY <1>1 DEF AllTerminal, Statuses, TasksOf
<1>3. ~ \E h \in Handlers : t = TaskOf(h) /\ Claim(h)
  BY <1>0, <1>2, ClaimEffect DEF Terminal
<1> QED BY <1>0, <1>1, <1>2, <1>3, TaskRowStep

\* A request that is due for a refresh keeps a wake-up.
LEMMA RefreshDueStep == ASSUME FullInv, [Next]_vars PROVE RefreshDue'
<1>0. SafetyInv /\ TypeInv /\ RefreshDue
  BY FullParts
<1> SUFFICES ASSUME NEW r \in Requests, AllTerminal(r)',
                    reqStatus'[r] # Aggregate(Statuses(r)')
             PROVE  \E t \in TasksOf(r) : KeepsWakeup(t)'
  BY DEF RefreshDue, TasksOf, Aggregate
<1>1. CASE ~AllTerminal(r)
  <2>1. PICK h \in Handlers : CommitResult(h) /\ TaskOf(h) \in TasksOf(r)
    BY <1>0, <1>1, BecomesTerminal
  <2>2. pc[h] = "commit" /\ TaskOf(h) \in Tasks /\ OthersKept(h) /\ pc'[h] = "refresh"
    BY <1>0, <2>1, CommitsRunning, CommitEffect
  <2>3. ~ \E g \in Handlers : RefreshCommit(g)
    <3> SUFFICES ASSUME NEW g \in Handlers, RefreshCommit(g) PROVE FALSE
      OBVIOUS
    <3>1. pc[g] = "store" /\ pc'[g] # pc[g]
      BY <1>0, RefreshCommitEffect
    <3> QED BY <2>2, <3>1 DEF OthersKept
  <2>4. KeepsWakeup(TaskOf(h))
    BY <1>0, <2>2, HeldKeepsWakeup
  <2>5. \A t : t = TaskOf(h) => KeepsWakeup(t)'
    BY <1>0, <2>2, <2>3, <2>4, KeepsWakeupStays
  <2> QED BY <2>1, <2>5
<1>2. CASE AllTerminal(r)
  <2>1. Statuses(r)' = Statuses(r) /\ reqStatus'[r] # Aggregate(Statuses(r))
    BY <1>0, <1>2, AllTerminalStays
  <2>2. CASE \E h \in Handlers : RefreshCommit(h) /\ r = Req(h)
    BY <1>2, <2>1, <2>2, RefreshCommitDue
  <2>3. CASE ~ \E h \in Handlers : RefreshCommit(h) /\ r = Req(h)
    <3>1. \A t \in TasksOf(r) : t \in Tasks /\ RequestOf[t] = r /\ status[t] \in Terminal
      BY <1>2 DEF TasksOf, AllTerminal, Statuses
    <3>2. ~ \E h \in Handlers : r = Req(h) /\ (Claim(h) \/ CommitResult(h))
      <4> SUFFICES ASSUME NEW h \in Handlers, r = Req(h), Claim(h) \/ CommitResult(h)
                   PROVE  FALSE
        OBVIOUS
      <4>1. status[TaskOf(h)] \notin Terminal /\ pc[h] \in {"claim", "commit"}
        BY <1>0, ClaimEffect, CommitEffect, CommitsRunning DEF Terminal
      <4>2. TaskOf(h) \in TasksOf(r)
        BY <1>0, <4>1, Working
      <4> QED BY <3>1, <4>1, <4>2
    <3>3. reqStatus'[r] = reqStatus[r]
      BY <1>0, <2>3, <3>2, RequestRowStep
    <3>4. PICK t \in TasksOf(r) : KeepsWakeup(t)
      BY <1>0, <1>2, <2>1, <3>3 DEF RefreshDue
    <3>5. t \in Tasks /\ \A h \in Handlers : RefreshCommit(h) => TaskOf(h) # t
      BY <2>3, <3>1 DEF Req
    <3>6. KeepsWakeup(t)'
      BY <1>0, <3>4, <3>5, KeepsWakeupStays
    <3> QED BY <3>4, <3>6
  <2> QED BY <2>2, <2>3
<1> QED BY <1>1, <1>2

\* The attempt under way has no audit event yet.
LEMMA TrailOpenStep == ASSUME FullInv, [Next]_vars PROVE TrailOpen'
<1>0. SafetyInv /\ TypeInv /\ TaskTypes /\ HandlerOK /\ TrailOpen /\ AuditTrailAgrees
  BY FullParts, Parts
<1> SUFFICES ASSUME NEW t \in Tasks, status'[t] = "running",
                    NEW i \in 1..Len(trail'[t])
             PROVE  trail'[t][i].attempt < attempt'[t]
  BY DEF TrailOpen
<1>1. ASSUME NEW h \in Handlers, t = TaskOf(h), Claim(h)
      PROVE  trail'[t][i].attempt < attempt'[t]
  <2>1. trail'[t] = trail[t] /\ attempt'[t] = attempt[t] + 1
    BY <1>0, <1>1, ClaimEffect
  <2>2. trail[t] \in Seq(AuditEntry) /\ attempt[t] \in Nat
    BY <1>0 DEF TaskTypes
  <2>3. i \in 1..Len(trail[t]) /\ trail[t][i].attempt <= attempt[t]
    BY <1>0, <2>1 DEF AuditTrailAgrees
  <2>4. trail[t][i] \in AuditEntry
    BY <2>2, <2>3
  <2>5. trail[t][i].attempt \in Nat
    BY <2>4 DEF AuditEntry
  <2> QED BY <2>1, <2>2, <2>3, <2>5
<1>2. ASSUME NEW h \in Handlers, t = TaskOf(h), CommitResult(h) PROVE FALSE
  <2>1. pc[h] = "commit" /\ status'[t] = local[h].own
    BY <1>0, <1>2, CommitEffect
  <2> QED BY <1>0, <2>1 DEF HandlerOK
<1>3. CASE /\ status'[t] = status[t] /\ attempt'[t] = attempt[t] /\ trail'[t] = trail[t]
  BY <1>0, <1>3 DEF TrailOpen
<1> QED BY <1>0, <1>1, <1>2, <1>3, TaskRowStep

\* What AuditTrailAgrees says of one task, as a function of its row.
TrailOK(n, tr, a, s) ==
    /\ \A i \in 1..n : tr[i].attempt <= a
    /\ \A i \in 1..(n - 1) : /\ tr[i].attempt < tr[i + 1].attempt
                             /\ tr[i].action = "retry_scheduled"
    /\ n > 0 => (tr[n].action \in Terminal <=> s \in Terminal)
    /\ s \in Terminal => n > 0 /\ tr[n].action = s
    /\ HttpSource /\ s = "failed" => a >= MaxAttempts
    /\ \A i \in 1..n : tr[i].action = "retry_scheduled" =>
                           HttpSource /\ tr[i].attempt < MaxAttempts

\* The event of the attempt under way extends the trail of a running task.
LEMMA TrailExtends ==
    ASSUME NEW tr \in Seq(AuditEntry), NEW a \in Nat, NEW s \in TaskStatus \ {"running"},
           NEW e \in AuditEntry, TrailOK(Len(tr), tr, a, "running"),
           \A i \in 1..Len(tr) : tr[i].attempt < a,
           e.attempt = a, e.action = Action(s),
           HttpSource /\ s = "failed" => a >= MaxAttempts,
           s = "pending" => HttpSource /\ a < MaxAttempts
    PROVE  TrailOK(Len(Append(tr, e)), Append(tr, e), a, s)
<1> DEFINE n == Len(tr)
<1> DEFINE q == Append(tr, e)
<1>1. /\ n \in Nat /\ Len(q) = n + 1 /\ q[n + 1] = e
      /\ \A i \in 1..n : q[i] = tr[i]
  OBVIOUS
<1>2. \A i \in 1..n : tr[i] \in AuditEntry
  OBVIOUS
<1>3. "running" \notin Terminal /\ "retry_scheduled" \notin Terminal
  BY DEF Terminal
<1>4. n > 0 => tr[n].action = "retry_scheduled"
  <2>1. n > 0 => n \in 1..n /\ tr[n] \in AuditEntry /\ tr[n].action \notin Terminal
    BY <1>1, <1>2, <1>3 DEF TrailOK
  <2> QED BY <2>1 DEF AuditEntry, Terminal
<1> HIDE DEF n, q
<1>5. \A i \in 1..(n + 1) : q[i].attempt <= a
  <2> SUFFICES ASSUME NEW i \in 1..(n + 1) PROVE q[i].attempt <= a
    OBVIOUS
  <2>1. CASE i = n + 1
    BY <1>1, <2>1
  <2>2. CASE i # n + 1
    <3>1. i \in 1..n
      BY <1>1, <2>2
    <3>2. tr[i].attempt <= a
      BY <3>1 DEF TrailOK, n
    <3> QED BY <1>1, <3>1, <3>2
  <2> QED BY <2>1, <2>2
<1>6. \A i \in 1..n : q[i].attempt < q[i + 1].attempt /\ q[i].action = "retry_scheduled"
  <2> SUFFICES ASSUME NEW i \in 1..n
               PROVE  q[i].attempt < q[i + 1].attempt /\ q[i].action = "retry_scheduled"
    OBVIOUS
  <2>1. CASE i = n
    <3>1. tr[i].attempt < a
      BY DEF n
    <3> QED BY <1>1, <1>4, <2>1, <3>1
  <2>2. CASE i # n
    <3>1. i \in 1..(n - 1) /\ i + 1 \in 1..n
      BY <1>1, <2>2
    <3>2. tr[i].attempt < tr[i + 1].attempt /\ tr[i].action = "retry_scheduled"
      BY <3>1 DEF TrailOK, n
    <3> QED BY <1>1, <3>1, <3>2
  <2> QED BY <2>1, <2>2
<1>7. (e.action \in Terminal <=> s \in Terminal) /\ (s \in Terminal => e.action = s)
  BY <1>3 DEF Action, TaskStatus, Terminal
<1>8. n + 1 > 0 /\ (n + 1) - 1 = n
  BY <1>1
<1>9. \A i \in 1..(n + 1) : q[i].action = "retry_scheduled" =>
                               HttpSource /\ q[i].attempt < MaxAttempts
  <2> SUFFICES ASSUME NEW i \in 1..(n + 1), q[i].action = "retry_scheduled"
               PROVE  HttpSource /\ q[i].attempt < MaxAttempts
    OBVIOUS
  <2>1. CASE i = n + 1
    <3>1. s = "pending"
      BY <1>1, <2>1 DEF Action, TaskStatus
    <3> QED BY <1>1, <2>1, <3>1
  <2>2. CASE i # n + 1
    <3>1. i \in 1..n
      BY <1>1, <2>2
    <3> QED BY <1>1, <3>1 DEF TrailOK, n
  <2> QED BY <2>1, <2>2
<1>10. TrailOK(n + 1, q, a, s)
  BY <1>1, <1>5, <1>6, <1>7, <1>8, <1>9 DEF TrailOK
<1> QED BY <1>1, <1>10 DEF q, n

\* The audit events keep telling the history of their task.
LEMMA TrailStep == ASSUME FullInv, [Next]_vars PROVE AuditTrailAgrees'
<1>0. /\ SafetyInv /\ TypeInv /\ TaskTypes /\ HandlerOK /\ TrailOpen /\ AuditTrailAgrees
      /\ SessionHeld
  BY FullParts, Parts
<1>1. ASSUME NEW t \in Tasks PROVE TrailOK(Len(trail[t]), trail[t], attempt[t], status[t])
  BY <1>0 DEF AuditTrailAgrees, TrailOK
<1>2. ASSUME NEW t \in Tasks PROVE TrailOK(Len(trail'[t]), trail'[t], attempt'[t], status'[t])
  <2>0. trail[t] \in Seq(AuditEntry) /\ attempt[t] \in Nat
    BY <1>0 DEF TaskTypes
  <2>1. CASE /\ status'[t] = status[t] /\ attempt'[t] = attempt[t] /\ trail'[t] = trail[t]
    BY <1>1, <2>1
  <2>2. ASSUME NEW h \in Handlers, t = TaskOf(h), Claim(h)
        PROVE  TrailOK(Len(trail'[t]), trail'[t], attempt'[t], status'[t])
    <3>1. /\ trail'[t] = trail[t] /\ attempt'[t] = attempt[t] + 1
          /\ status[t] \notin Terminal /\ status'[t] = "running"
      BY <1>0, <2>2, ClaimEffect
    <3>2. \A i \in 1..Len(trail[t]) : trail[t][i] \in AuditEntry
      BY <2>0
    <3>3. \A i \in 1..Len(trail[t]) : trail[t][i].attempt <= attempt[t] + 1
      <4>1. \A i \in 1..Len(trail[t]) :
                trail[t][i].attempt \in Nat /\ trail[t][i].attempt <= attempt[t]
        BY <1>1, <3>2 DEF TrailOK, AuditEntry
      <4> QED BY <2>0, <4>1
    <3> QED BY <1>1, <3>1, <3>3 DEF TrailOK, Terminal
  <2>3. ASSUME NEW h \in Handlers, t = TaskOf(h), CommitResult(h)
        PROVE  TrailOK(Len(trail'[t]), trail'[t], attempt'[t], status'[t])
    <3>1. /\ pc[h] = "commit" /\ attempt'[t] = attempt[t] /\ status'[t] = local[h].own
          /\ trail'[t] = Append(trail[t], Entry(h)) /\ Entry(h) \in AuditEntry
      BY <1>0, <2>3, CommitEffect
    <3>2. status[t] = "running"
      BY <1>0, <2>3, CommitsRunning
    <3>3. local[h].own \in TaskStatus \ {"running"}
      BY <1>0, <3>1, Working, LocalType DEF HandlerOK
    <3>4. /\ local[h].attempt = attempt[t]
          /\ HttpSource /\ local[h].own = "failed" => attempt[t] >= MaxAttempts
          /\ local[h].own = "pending" => HttpSource /\ attempt[t] < MaxAttempts
      BY <1>0, <2>3, <3>1 DEF SessionHeld, SessionHeldBy
    <3>5. Entry(h).attempt = attempt[t] /\ Entry(h).action = Action(local[h].own)
      BY <3>4 DEF Entry
    <3>6. \A i \in 1..Len(trail[t]) : trail[t][i].attempt < attempt[t]
      BY <1>0, <3>2 DEF TrailOpen
    <3>7. TrailOK(Len(trail[t]), trail[t], attempt[t], "running")
      BY <1>1, <3>2
    <3>8. TrailOK(Len(Append(trail[t], Entry(h))), Append(trail[t], Entry(h)),
                  attempt[t], local[h].own)
      BY <2>0, <3>1, <3>3, <3>4, <3>5, <3>6, <3>7, TrailExtends
    <3> QED BY <3>1, <3>8
  <2> QED BY <1>0, <2>1, <2>2, <2>3, TaskRowStep
<1> QED BY <1>2 DEF AuditTrailAgrees, TrailOK

\* The second layer holds before the first message is relayed.
LEMMA RefreshInit == Init => RefreshInv
<1> SUFFICES ASSUME Init PROVE RefreshInv
  OBVIOUS
<1>1. ReceiptAgrees /\ TrailOpen
  BY DEF Init, ReceiptAgrees, TrailOpen
<1>2. SessionHeld
  BY DEF Init, SessionHeld, SessionHeldBy, InSession
<1>3. RowHeld /\ ArtifactHeld /\ SiblingWakes
  BY DEF Init, RowHeld, RowHeldBy, ArtifactHeld, ArtifactHeldBy, SiblingWakes, SiblingWakesBy
<1>4. ArtifactSound /\ ArtifactComplete
  BY DEF Init, ArtifactSound, ArtifactComplete
<1>5. RefreshDue
  <2> SUFFICES ASSUME NEW r \in Requests, AllTerminal(r),
                      reqStatus[r] # Aggregate(Statuses(r))
               PROVE  FALSE
    BY DEF RefreshDue
  <2>1. \A t \in TasksOf(r) : status[t] = "pending"
    BY DEF Init, TasksOf
  <2>2. Statuses(r) \subseteq {"pending"}
    BY <2>1 DEF Statuses
  <2> QED BY <2>2 DEF Init, Aggregate
<1>6. AuditTrailAgrees
  BY DEF Init, AuditTrailAgrees, Terminal
<1> QED BY <1>1, <1>2, <1>3, <1>4, <1>5, <1>6 DEF RefreshInv

\* SafetyInv and RefreshInv are inductive together as long as heartbeats do
\* not fail.
LEMMA FullStep ==
    ASSUME HeartbeatMayFail = FALSE, FullInv, [Next]_vars PROVE FullInv'
<1>1. SafetyInv'
  BY FullParts, SafetyStep
<1>2. ReceiptAgrees' /\ SessionHeld' /\ RowHeld'
  BY ReceiptStep, SessionStep, RowStep
<1>3. ArtifactHeld' /\ ArtifactSound' /\ ArtifactComplete'
  BY ArtifactHeldStep, ArtifactSoundStep, ArtifactCompleteStep
<1>4. SiblingWakes' /\ RefreshDue'
  BY SiblingStep, RefreshDueStep
<1>5. TrailOpen' /\ AuditTrailAgrees'
  BY TrailOpenStep, TrailStep
<1> QED BY <1>1, <1>2, <1>3, <1>4, <1>5 DEF FullInv, RefreshInv

\* Both layers hold in every reachable state when heartbeats do not fail.
THEOREM RefreshInvariant == HeartbeatMayFail = FALSE /\ Spec => []FullInv
<1>1. (HeartbeatMayFail = FALSE) /\ FullInv /\ [Next]_vars => FullInv'
  BY FullStep
<1>2. (HeartbeatMayFail = FALSE) => (HeartbeatMayFail = FALSE)'
  OBVIOUS
<1>3. Init => FullInv
  BY SafetyInit, RefreshInit DEF FullInv
<1> QED BY <1>1, <1>2, <1>3, PTL DEF Spec

\* The audit events of a task tell its history: one per attempt, in order,
\* the last one the status of the row, a failure only after the last attempt
\* and a retry only before it.
THEOREM AuditTrailSound == HeartbeatMayFail = FALSE /\ Spec => []AuditTrailAgrees
<1>1. FullInv => AuditTrailAgrees
  BY FullParts
<1> QED BY <1>1, RefreshInvariant, PTL

\* An access request that reads completed or partial can be downloaded, with
\* the receipts of exactly the sources that succeeded.
THEOREM ArtifactsComplete == HeartbeatMayFail = FALSE /\ Spec => []ArtifactComplete
<1>1. FullInv => ArtifactComplete
  BY FullParts
<1> QED BY <1>1, RefreshInvariant, PTL

\* A request whose tasks are all terminal and whose row does not say so yet
\* still has a message whose delivery refreshes it, in the queue or among the
\* dead letters.
THEOREM AggregatesRecoverable == HeartbeatMayFail = FALSE /\ Spec => []AggregateRecoverable
<1>1. ASSUME NEW t, KeepsWakeup(t) PROVE HasWakeup(t)
  BY <1>1 DEF KeepsWakeup, HasWakeup
<1>2. FullInv => AggregateRecoverable
  BY <1>1, FullParts DEF RefreshDue, AggregateRecoverable
<1> QED BY <1>2, RefreshInvariant, PTL

\* A recorded artifact is never replaced by another content, although later
\* refreshes may put the object again.
THEOREM ArtifactsStable == HeartbeatMayFail = FALSE /\ Spec => ArtifactStable
<1> DEFINE Kept == \A r \in Requests : artifact[r] => artifact'[r] /\ object'[r] = object[r]
<1>1. FullInv /\ [Next]_vars => [Kept]_vars
  <2> SUFFICES ASSUME FullInv, [Next]_vars, NEW r \in Requests, artifact[r]
               PROVE  artifact'[r] /\ object'[r] = object[r]
    OBVIOUS
  <2>0. TypeInv
    BY FullParts
  <2>1. artifact'[r] /\ object[r] = Succeeded(r)
    BY ArtifactRecorded
  <2>2. object'[r] = object[r]
    BY <2>0, <2>1, ObjectStep, PutComplete
  <2> QED BY <2>1, <2>2
<1> QED BY <1>1, RefreshInvariant, PTL DEF Spec, ArtifactStable

-----------------------------------------------------------------------------
(* The refinement of RequestContract, when no session takes back a verdict.  *)

\* Handlers of one task with one message each are one handler.
LEMMA OneHandlerPerTask ==
    ASSUME SafetyInv, OneMessagePerTask, NEW g \in Handlers, NEW h \in Handlers,
           pc[g] \notin {"idle", "handle", "ack"}, pc[h] \notin {"idle", "handle", "ack"},
           TaskOf(g) = TaskOf(h)
    PROVE  g = h
<1>1. msg[g] \in Messages /\ msg[h] \in Messages /\ TaskOf(g) # NoTask
  BY Parts, Working, QueueAssumption
<1>2. msg[g] = msg[h]
  BY <1>1 DEF OneMessagePerTask, TaskOf
<1> QED BY <1>2, OwnMessage

\* The result a session refreshes with is the one in the row, a retry that
\* was only scheduled included.
LEMMA RetryStep ==
    ASSUME FullInv, ContractInv, NoLateRetry, [Next]_vars
    PROVE  \A h \in Handlers : RetryPendingBy(h)'
<1>0. /\ SafetyInv /\ TypeInv /\ TaskTypes /\ ResultHeld
      /\ \A g \in Handlers : RetryPendingBy(g)
  BY FullParts, Parts DEF ContractInv
<1>1. ASSUME NEW g \in Handlers, pc'[g] = pc[g], msg'[g] = msg[g], local'[g] = local[g]
      PROVE  RetryPendingBy(g)'
  <2>0. TaskOf(g)' = TaskOf(g) /\ RetryPendingBy(g)
    BY <1>0, <1>1 DEF TaskOf
  <2>1. ASSUME pc[g] \in {"refresh", "artifact", "store"}, ~local[g].dup
        PROVE  status'[TaskOf(g)] = status[TaskOf(g)]
    <3>1. TaskOf(g) \in Tasks /\ local[g].own = status[TaskOf(g)]
      BY <1>0, <2>0, <2>1, Working DEF RetryPendingBy
    <3>2. CASE status[TaskOf(g)] \in Terminal
      BY <1>0, <3>1, <3>2, TerminalStays
    <3>3. CASE status[TaskOf(g)] \notin Terminal
      <4>1. OneMessagePerTask
        BY <2>0, <2>1, <3>1, <3>3 DEF RetryPendingBy, NoLateRetry
      <4>2. ASSUME NEW h \in Handlers, TaskOf(g) = TaskOf(h), Claim(h) \/ CommitResult(h)
            PROVE  FALSE
        <5>1. pc[h] \in {"claim", "commit"} /\ pc'[h] # pc[h]
          BY <1>0, <4>2, ClaimEffect, CommitEffect
        <5> QED BY <1>0, <1>1, <2>1, <4>1, <4>2, <5>1, OneHandlerPerTask
      <4> QED BY <1>0, <3>1, <4>2, TaskRowStep
    <3> QED BY <3>2, <3>3
  <2> QED BY <1>1, <2>0, <2>1 DEF RetryPendingBy
<1>2. CASE QuietStep
  BY <1>1, <1>2, QuietEffect
<1>3. ASSUME NEW h \in Handlers, Moves(h) PROVE RetryPendingBy(h)'
  <2>0. RetryPendingBy(h) /\ ResultHeldBy(h)
    BY <1>0 DEF ResultHeld
  <2>1. CASE Receives(h) \/ Leaves(h)
    BY <1>0, <2>1, ReceivesEffect, LeavesEffect DEF RetryPendingBy
  <2>2. CASE ClaimRead(h)
    BY <1>0, <2>2, ClaimReadEffect DEF RetryPendingBy
  <2>3. CASE Claim(h) \/ Load(h)
    BY <1>0, <2>3, ClaimEffect, LoadEffect DEF RetryPendingBy
  <2>4. CASE Ack(h) \/ RefreshCommit(h)
    BY <1>0, <2>4, AckEffect, RefreshCommitEffect DEF RetryPendingBy
  <2>5. CASE Execute(h)
    <3>1. pc'[h] = "commit" /\ \E ok \in BOOLEAN : local'[h].own = ResultStatus(h, ok)
      BY <1>0, <2>5, ExecuteEffect
    <3> QED BY <3>1 DEF RetryPendingBy, ResultStatus, Terminal
  <2>6. CASE CommitResult(h)
    <3>1. /\ pc[h] = "commit" /\ pc'[h] = "refresh" /\ Stays(h)
          /\ local'[h].dup = local[h].dup /\ local'[h].own = local[h].own
          /\ status'[TaskOf(h)] = local[h].own
      BY <1>0, <2>6, CommitEffect
    <3> QED BY <2>0, <3>1 DEF RetryPendingBy, Stays
  <2>7. CASE RefreshLoad(h) \/ PutArtifact(h)
    <3>1. /\ pc[h] \in {"refresh", "artifact"} /\ pc'[h] \in {"artifact", "store"} /\ Stays(h)
          /\ local'[h].dup = local[h].dup /\ local'[h].own = local[h].own /\ SameRows
      BY <1>0, <2>7, RefreshLoadEffect, PutEffect
    <3> QED BY <2>0, <3>1 DEF RetryPendingBy, Stays, SameRows
  <2> QED BY <1>3, <2>1, <2>2, <2>3, <2>4, <2>5, <2>6, <2>7 DEF Moves, Leaves, HandlerStep
<1>4. ASSUME NEW h \in Handlers, Moves(h) PROVE \A g \in Handlers : RetryPendingBy(g)'
  BY <1>0, <1>1, <1>3, <1>4, HandlerMoves DEF OthersKept
<1> QED BY <1>2, <1>4, StepKinds

\* The aggregate of terminal statuses is the contract's verdict on them.
LEMMA AggregateVerdict ==
    ASSUME NEW S \in SUBSET Terminal, S # {}
    PROVE  Aggregate(S) = Contract!VerdictOf(S) /\ Aggregate(S) \in Final
<1>1. S = {"succeeded"} \/ S = {"failed"} \/ S = {"succeeded", "failed"}
  BY DEF Terminal
<1>2. CASE S = {"succeeded"}
  BY <1>2 DEF Aggregate, Contract!VerdictOf, Final
<1>3. CASE S = {"failed"}
  BY <1>3 DEF Aggregate, Contract!VerdictOf, Final
<1>4. CASE S = {"succeeded", "failed"}
  BY <1>4 DEF Aggregate, Contract!VerdictOf, Final
<1> QED BY <1>1, <1>2, <1>3, <1>4

\* A refresh that computed an open verdict holds an open request.
LEMMA OpenStep ==
    ASSUME FullInv, ContractInv, [Next]_vars
    PROVE  \A h \in Handlers : OpenHeldBy(h)'
<1>0. /\ SafetyInv /\ TypeInv /\ ArtifactHeld /\ VerdictAgrees
      /\ \A g \in Handlers : OpenHeldBy(g) /\ RetryPendingBy(g)
  BY FullParts, Parts DEF ContractInv
<1>1. ASSUME NEW g \in Handlers, pc'[g] = pc[g], msg'[g] = msg[g], local'[g] = local[g],
             QuietStep \/ \E h \in Handlers : Moves(h) /\ h # g
      PROVE  OpenHeldBy(g)'
  <2>1. Req(g)' = Req(g)
    BY <1>1 DEF TaskOf, Req
  <2> QED BY <1>0, <1>1, <2>1, RowKept DEF OpenHeldBy
<1>2. CASE QuietStep
  BY <1>1, <1>2, QuietEffect
<1>3. ASSUME NEW h \in Handlers, Moves(h) PROVE OpenHeldBy(h)'
  <2>1. CASE RefreshLoad(h)
    <3>1. /\ pc[h] = "refresh" /\ Stays(h) /\ SameRows
          /\ local'[h].verdict = Aggregate(SeenStatuses(h))
      BY <1>0, <2>1, RefreshLoadEffect
    <3>2. Req(h) \in Requests /\ TaskOf(h) \in TasksOf(Req(h))
      BY <1>0, <3>1, Working
    <3>3. SeenStatuses(h) = Statuses(Req(h))
      BY <1>0, <3>1 DEF SeenStatuses, Statuses, RetryPendingBy
    <3>4. Statuses(Req(h)) # {}
      BY <3>2 DEF Statuses
    <3>5. reqStatus[Req(h)] \in Final => Aggregate(SeenStatuses(h)) \in Final
      BY <1>0, <3>2, <3>3, <3>4, AggregateVerdict DEF VerdictAgrees, AllTerminal
    <3> QED BY <3>1, <3>5 DEF OpenHeldBy, Stays, SameRows
  <2>2. CASE PutArtifact(h)
    <3>1. pc[h] = "artifact" /\ local'[h].verdict = local[h].verdict
      BY <1>0, <2>2, PutEffect
    <3> QED BY <1>0, <3>1 DEF ArtifactHeld, ArtifactHeldBy, Final, OpenHeldBy
  <2>3. CASE pc'[h] \notin {"artifact", "store"}
    BY <2>3 DEF OpenHeldBy
  <2> QED BY <1>0, <1>3, <2>1, <2>2, <2>3, IntoRefresh
<1>4. ASSUME NEW h \in Handlers, Moves(h) PROVE \A g \in Handlers : OpenHeldBy(g)'
  BY <1>0, <1>1, <1>3, <1>4, HandlerMoves DEF OthersKept
<1> QED BY <1>2, <1>4, StepKinds

\* What the contract sees of the rows.
outcomeMap == [t \in Tasks |-> IF status[t] \in Terminal THEN status[t] ELSE "open"]
verdictMap == [r \in Requests |-> IF reqStatus[r] \in Final THEN reqStatus[r] ELSE "open"]

\* Every step of the workers settles one open task, decides one open request
\* whose tasks are settled, or changes nothing the contract sees.
LEMMA ContractStep ==
    ASSUME FullInv, ContractInv, [Next]_vars
    PROVE  \/ \E t \in Tasks : Contract!Settle(t)
           \/ \E r \in Requests : Contract!Decide(r)
           \/ UNCHANGED <<outcomeMap, verdictMap>>
<1>0. /\ SafetyInv /\ TypeInv /\ TaskTypes /\ RequestTypes /\ VerdictAgrees /\ VerdictHeld
      /\ SessionHeld /\ RowHeld /\ \A g \in Handlers : OpenHeldBy(g)
  BY FullParts, Parts DEF ContractInv
<1>1. CASE \E h \in Handlers : CommitResult(h)
  <2>1. PICK h \in Handlers : CommitResult(h)
    BY <1>1
  <2>a. PICK t \in Tasks : t = TaskOf(h)
    BY <1>0, <2>1, CommitsRunning
  <2>2. /\ status[t] = "running" /\ status'[t] = local[h].own
        /\ \A x \in Tasks : x # t => status'[x] = status[x]
        /\ \A r \in Requests : reqStatus'[r] = reqStatus[r]
                                  \/ (r = Req(h) /\ reqStatus'[r] = "verifying")
    BY <1>0, <2>1, <2>a, CommitsRunning, CommitEffect
  <2>3. reqStatus[Req(h)] \notin Final
    BY <1>0, <2>a, <2>2, OpenRequest DEF Req, Terminal
  <2>4. \A r \in Requests :
          (IF reqStatus'[r] \in Final THEN reqStatus'[r] ELSE "open") =
          (IF reqStatus[r] \in Final THEN reqStatus[r] ELSE "open")
    BY <2>2, <2>3 DEF Final
  <2>5. verdictMap' = verdictMap
    BY <2>4 DEF verdictMap
  <2>6. CASE local[h].own \in Terminal
    <3>1. outcomeMap[t] = "open"
      BY <2>2 DEF outcomeMap, Terminal
    <3>2. outcomeMap' = [outcomeMap EXCEPT ![t] = local[h].own]
      BY <2>2, <2>6 DEF outcomeMap
    <3>3. Contract!Settle(t)
      BY <2>5, <2>6, <3>1, <3>2 DEF Contract!Settle, outcomeMap, verdictMap, Terminal
    <3> QED BY <2>2, <3>3
  <2>7. CASE local[h].own \notin Terminal
    <3>1. outcomeMap' = outcomeMap
      BY <2>2, <2>7 DEF outcomeMap, Terminal
    <3> QED BY <2>5, <3>1
  <2> QED BY <2>6, <2>7
<1>2. ASSUME NEW h \in Handlers, NEW r \in Requests, r = Req(h), RefreshCommit(h)
      PROVE  Contract!Decide(r) \/ UNCHANGED <<outcomeMap, verdictMap>>
  <2>1. /\ pc[h] = "store" /\ UNCHANGED status
        /\ reqStatus'[r] = IF local[h].verdict # local[h].req THEN local[h].verdict
                                                              ELSE reqStatus[r]
        /\ \A q \in Requests : q # r => reqStatus'[q] = reqStatus[q]
    BY <1>0, <1>2, RefreshCommitEffect
  <2>2. TaskOf(h) \in TasksOf(r)
    BY <1>0, <1>2, <2>1, Working
  <2>3. outcomeMap' = outcomeMap
    BY <2>1 DEF outcomeMap
  <2>4. ASSUME (IF reqStatus'[r] \in Final THEN reqStatus'[r] ELSE "open") =
               (IF reqStatus[r] \in Final THEN reqStatus[r] ELSE "open")
        PROVE  UNCHANGED <<outcomeMap, verdictMap>>
    BY <2>1, <2>3, <2>4 DEF verdictMap
  <2>5. CASE local[h].verdict \notin Final
    <3>1. reqStatus[r] \notin Final
      BY <1>0, <1>2, <2>1, <2>5 DEF OpenHeldBy
    <3> QED BY <2>1, <2>4, <2>5, <3>1
  <2>6. CASE local[h].verdict \in Final
    <3>1. AllTerminal(r) /\ local[h].verdict = Aggregate(Statuses(r))
      BY <1>0, <1>2, <2>1, <2>6 DEF VerdictHeld, VerdictHeldBy
    <3>2. CASE reqStatus[r] \in Final
      <4>1. reqStatus[r] = local[h].verdict
        BY <1>0, <2>2, <3>1, <3>2 DEF VerdictAgrees
      <4> QED BY <2>1, <2>4, <4>1
    <3>3. CASE reqStatus[r] \notin Final
      <4>1. local[h].verdict # local[h].req
        BY <1>0, <1>2, <2>1, <2>6, <3>3 DEF SessionHeld, SessionHeldBy, InSession, RowHeld, RowHeldBy
      <4>2. reqStatus'[r] = Aggregate(Statuses(r)) /\ reqStatus'[r] \in Final
        BY <2>1, <2>6, <3>1, <4>1
      <4>3. Statuses(r) \in SUBSET Terminal /\ Statuses(r) # {}
        BY <2>2, <3>1 DEF AllTerminal, Statuses
      <4>4. Aggregate(Statuses(r)) = Contract!VerdictOf(Statuses(r))
        BY <4>3, AggregateVerdict
      <4>5. Statuses(r) = {outcomeMap[x] : x \in TasksOf(r)}
        <5>1. \A x \in TasksOf(r) : x \in Tasks /\ status[x] \in Terminal
          BY <4>3 DEF Statuses, TasksOf
        <5>2. \A x \in TasksOf(r) : outcomeMap[x] = status[x]
          BY <5>1 DEF outcomeMap
        <5> QED BY <5>2 DEF Statuses
      <4>6. Statuses(r) = Contract!Outcomes(r)
        BY <4>5 DEF Contract!Outcomes, Contract!TasksOf, TasksOf, outcomeMap
      <4>7. verdictMap[r] = "open"
        BY <2>2, <3>3 DEF verdictMap
      <4>8. verdictMap' = [verdictMap EXCEPT ![r] = Contract!VerdictOf(Contract!Outcomes(r))]
        <5>1. verdictMap' = [verdictMap EXCEPT ![r] = reqStatus'[r]]
          BY <2>1, <2>2, <4>2 DEF verdictMap
        <5> QED BY <4>2, <4>4, <4>6, <5>1
      <4>9. "open" \notin Contract!Outcomes(r) /\ Contract!Outcomes(r) # {}
        BY <4>3, <4>6 DEF Terminal
      <4>10. Contract!Decide(r)
        BY <2>3, <4>7, <4>8, <4>9 DEF Contract!Decide, outcomeMap, verdictMap
      <4> QED BY <4>10
    <3> QED BY <3>2, <3>3
  <2> QED BY <2>5, <2>6
<1>3. CASE (~ \E h \in Handlers : CommitResult(h)) /\ (~ \E h \in Handlers : RefreshCommit(h))
  <2>1. \A t \in Tasks : status'[t] = status[t]
                            \/ (status[t] \notin Terminal /\ status'[t] = "running")
    BY <1>0, <1>3, TaskRowStep, ClaimEffect
  <2>2. \A r \in Requests : reqStatus'[r] = reqStatus[r]
                               \/ (reqStatus[r] = "queued" /\ reqStatus'[r] = "running")
    BY <1>0, <1>3, RequestRowStep, ClaimEffect
  <2>3. outcomeMap' = outcomeMap
    BY <2>1 DEF outcomeMap, Terminal
  <2>4. verdictMap' = verdictMap
    BY <2>2 DEF verdictMap, Final
  <2> QED BY <2>3, <2>4
<1>4. CASE \E h \in Handlers : RefreshCommit(h)
  <2>1. PICK h \in Handlers : RefreshCommit(h)
    BY <1>4
  <2>2. PICK r \in Requests : r = Req(h)
    BY <1>0, <2>1, RefreshCommitEffect, Working
  <2> QED BY <1>2, <2>1, <2>2
<1> QED BY <1>1, <1>3, <1>4

\* ContractInv holds with the two layers, for a source that does not retry or
\* a queue with one message per task.
LEMMA ContractInvariant ==
    HeartbeatMayFail = FALSE /\ NoLateRetry /\ Spec => [](FullInv /\ ContractInv)
<1>1. Init => FullInv /\ ContractInv
  <2>1. Init => ContractInv
    BY DEF Init, ContractInv, RetryPendingBy, OpenHeldBy
  <2> QED BY <2>1, SafetyInit, RefreshInit DEF FullInv
<1>2. /\ HeartbeatMayFail = FALSE /\ NoLateRetry
      /\ FullInv /\ ContractInv /\ [Next]_vars
      => (FullInv /\ ContractInv)'
  BY FullStep, RetryStep, OpenStep DEF ContractInv
<1>3. (HeartbeatMayFail = FALSE) /\ NoLateRetry => ((HeartbeatMayFail = FALSE) /\ NoLateRetry)'
  BY DEF NoLateRetry, OneMessagePerTask
<1> QED BY <1>1, <1>2, <1>3, PTL DEF Spec

\* The workers implement the request contract: every task gets one outcome and
\* every request one verdict, from the outcomes of all its tasks, although the
\* verdict is computed from cached rows by any number of racing handlers.
THEOREM WorkersImplementContract ==
    HeartbeatMayFail = FALSE /\ NoLateRetry /\ Spec => ImplementsContract
<1>1. Init => Contract!Init
  BY DEF Init, Contract!Init, Terminal, Final
<1>2. FullInv /\ ContractInv /\ [Next]_vars => [Contract!Next]_<<outcomeMap, verdictMap>>
  BY ContractStep DEF Contract!Next
<1>3. FullInv /\ ContractInv /\ [Next]_vars
        => [Contract!Next]_<<[t \in Tasks |-> IF status[t] \in Terminal THEN status[t] ELSE "open"],
                             [r \in Requests |-> IF reqStatus[r] \in Final THEN reqStatus[r]
                                                                           ELSE "open"]>>
  BY <1>2 DEF outcomeMap, verdictMap
<1> QED BY <1>1, <1>3, ContractInvariant, PTL DEF Spec, ImplementsContract, Contract!Spec
=============================================================================
