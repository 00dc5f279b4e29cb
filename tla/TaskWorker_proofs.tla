------------------------- MODULE TaskWorker_proofs --------------------------
(***************************************************************************)
(* Proofs about TaskWorker for all sets of requests, tasks, workers,       *)
(* handlers and messages and all limits.                                   *)
(***************************************************************************)
EXTENDS TaskWorker, TLAPS

\* The aggregation of any set of task statuses is a request status.
LEMMA AggregateType == \A S : Aggregate(S) \in RequestStatus
BY DEF Aggregate, RequestStatus

\* A handler's session keeps its type under any update of its fields.
LEMMA LocalType ==
    ASSUME NEW l \in Local
    PROVE  /\ \A b \in BOOLEAN : [l EXCEPT !.dup = b] \in Local
           /\ \A b \in BOOLEAN : [l EXCEPT !.art = b] \in Local
           /\ \A s \in RequestStatus : [l EXCEPT !.req = s] \in Local
           /\ l.dup \in BOOLEAN /\ l.attempt \in Nat /\ l.own \in TaskStatus
           /\ l.req \in RequestStatus /\ l.art \in BOOLEAN
           /\ l.verdict \in RequestStatus /\ l.doc \in SUBSET Tasks
BY DEF Local

\* A session that has read nothing yet is a typed one.
LEMMA BlankType == Blank \in Local
BY DEF Blank, Local, TaskStatus, RequestStatus

\* The type invariant needs HandlerOK: a handler past the claim has a task,
\* so that what it reads from the rows has the type of a row.
TypeInv == TypeOK /\ HandlerOK

\* The initial rows, queue and handlers have their types.
LEMMA TypeInit == Init => TypeInv
<1> SUFFICES ASSUME Init PROVE TypeInv
  OBVIOUS
<1>1. TaskTypes
  BY DEF Init, TaskTypes, TaskStatus
<1>2. RequestTypes
  BY DEF Init, RequestTypes, RequestStatus
<1>3. QueueTypes
  BY DEF Init, QueueTypes, Places
<1>4. HandlerTypes
  BY BlankType DEF Init, HandlerTypes, Steps
<1>5. HandlerOK
  BY DEF Init, HandlerOK
<1> QED BY <1>1, <1>2, <1>3, <1>4, <1>5 DEF TypeInv, TypeOK

\* A call that is over leaves the handler idle, without a message.
LEMMA FinishType ==
    ASSUME HandlerTypes, HandlerOK, NEW h \in Handlers, Finish(h)
    PROVE  HandlerTypes' /\ HandlerOK'
BY BlankType DEF HandlerTypes, HandlerOK, Finish, Steps, TaskOf

\* Leaving a message for redelivery keeps the queue and the handlers typed.
LEMMA LeaveMessageType ==
    ASSUME TypeInv, NEW h \in Handlers, LeaveMessage(h)
    PROVE  HandlerTypes' /\ HandlerOK' /\ QueueTypes'
<1>1. HandlerTypes' /\ HandlerOK'
  BY FinishType DEF TypeInv, TypeOK, LeaveMessage
<1>2. QueueTypes'
  BY DEF TypeInv, TypeOK, QueueTypes, LeaveMessage, DropReceipt
<1> QED BY <1>1, <1>2

\* Variables that a step leaves alone keep their types.
LEMMA Untouched ==
    ASSUME TypeOK
    PROVE  /\ UNCHANGED taskVars => TaskTypes'
           /\ UNCHANGED <<requestVars, rowLock, object>> => RequestTypes'
           /\ UNCHANGED queueVars => QueueTypes'
           /\ UNCHANGED handlerVars => HandlerTypes'
           /\ UNCHANGED handlerVars /\ HandlerOK => HandlerOK'
<1>1. UNCHANGED taskVars => TaskTypes'
  BY DEF TypeOK, TaskTypes, taskVars
<1>2. UNCHANGED <<requestVars, rowLock, object>> => RequestTypes'
  BY DEF TypeOK, RequestTypes, requestVars
<1>3. UNCHANGED queueVars => QueueTypes'
  BY DEF TypeOK, QueueTypes, queueVars
<1>4. UNCHANGED handlerVars => HandlerTypes'
  BY DEF TypeOK, HandlerTypes, handlerVars
<1>5. UNCHANGED handlerVars /\ HandlerOK => HandlerOK'
  BY DEF HandlerOK, TaskOf, handlerVars
<1> QED BY <1>1, <1>2, <1>3, <1>4, <1>5

\* Every step, crashes and expiries included, keeps the types.
LEMMA TypeStep == TypeInv /\ [Next]_vars => TypeInv'
<1> SUFFICES ASSUME TypeInv, [Next]_vars PROVE TypeInv'
  OBVIOUS
<1>0. /\ TypeOK /\ HandlerOK
      /\ TaskTypes /\ RequestTypes /\ QueueTypes /\ HandlerTypes
  BY DEF TypeInv, TypeOK
<1>a. SUFFICES /\ TaskTypes' /\ RequestTypes' /\ QueueTypes' /\ HandlerTypes'
               /\ HandlerOK'
  BY DEF TypeInv, TypeOK
<1> DEFINE Goal == /\ TaskTypes' /\ RequestTypes' /\ QueueTypes' /\ HandlerTypes'
                   /\ HandlerOK'
<1>1. ASSUME NEW m \in Messages, Publish(m) PROVE Goal
  <2>1. TaskTypes' /\ RequestTypes' /\ HandlerTypes' /\ HandlerOK'
    BY <1>0, <1>1, Untouched DEF Publish
  <2>2. QueueTypes'
    BY <1>0, <1>1, QueueAssumption DEF Publish, QueueTypes, Places
  <2> QED BY <2>1, <2>2
<1>2. ASSUME NEW m \in Messages, DeadLetter(m) PROVE Goal
  <2>1. TaskTypes' /\ RequestTypes' /\ HandlerTypes' /\ HandlerOK'
    BY <1>0, <1>2, Untouched DEF DeadLetter
  <2>2. QueueTypes'
    BY <1>0, <1>2 DEF DeadLetter, QueueTypes, Places
  <2> QED BY <2>1, <2>2
<1>3. ASSUME NEW m \in Messages, VisibilityExpire(m) PROVE Goal
  <2>1. TaskTypes' /\ RequestTypes' /\ HandlerTypes' /\ HandlerOK'
    BY <1>0, <1>3, Untouched DEF VisibilityExpire
  <2>2. QueueTypes'
    BY <1>0, <1>3 DEF VisibilityExpire, QueueTypes, Places
  <2> QED BY <2>1, <2>2
<1>4. ASSUME NEW h \in Handlers, NEW m \in Messages, Receive(h, m) PROVE Goal
  <2>1. TaskTypes' /\ RequestTypes'
    BY <1>0, <1>4, Untouched DEF Receive
  <2>2. QueueTypes'
    BY <1>0, <1>4 DEF Receive, QueueTypes, Places
  <2>3. HandlerTypes'
    BY <1>0, <1>4 DEF Receive, HandlerTypes, Steps
  <2>4. HandlerOK'
    BY <1>0, <1>4 DEF Receive, HandlerTypes, HandlerOK, TaskOf
  <2> QED BY <2>1, <2>2, <2>3, <2>4
<1>5. ASSUME NEW h \in Handlers, ClaimRead(h) PROVE Goal
  <2>1. TaskTypes' /\ RequestTypes' /\ QueueTypes'
    BY <1>0, <1>5, Untouched DEF ClaimRead
  <2>2. HandlerTypes'
    <3>1. pc' \in [Handlers -> Steps]
      BY <1>0, <1>5 DEF ClaimRead, AfterDuplicate, HandlerTypes, Steps
    <3>2. [local[h] EXCEPT !.dup = TRUE] \in Local
      BY <1>0, LocalType DEF HandlerTypes
    <3>3. local' \in [Handlers -> Local]
      BY <1>0, <1>5, <3>2 DEF ClaimRead, HandlerTypes
    <3> QED BY <1>0, <1>5, <3>1, <3>3 DEF ClaimRead, HandlerTypes
  <2>3. HandlerOK'
    BY <1>0, <1>5, QueueAssumption DEF ClaimRead, AfterDuplicate, HandlerTypes, HandlerOK, TaskOf
  <2> QED BY <2>1, <2>2, <2>3
<1>6. ASSUME NEW h \in Handlers, Claim(h) PROVE Goal
  <2>1. TaskTypes'
    <3>1. status' \in [Tasks -> TaskStatus] /\ live' \in [Tasks -> BOOLEAN]
      BY <1>0, <1>6 DEF Claim, TaskTypes, TaskStatus
    <3>2. attempt' \in [Tasks -> Nat]
      <4>1. attempt' = [attempt EXCEPT ![TaskOf(h)] = attempt[TaskOf(h)] + 1]
        BY <1>6 DEF Claim
      <4>2. attempt \in [Tasks -> Nat]
        BY <1>0 DEF TaskTypes
      <4>3. TaskOf(h) \in Tasks
        BY <1>0, <1>6 DEF Claim, HandlerOK
      <4>4. attempt[TaskOf(h)] + 1 \in Nat
        BY <4>2, <4>3
      <4> QED BY <4>1, <4>2, <4>4
    <3>3. owner' \in [Tasks -> Workers \union {NoWorker}]
      BY <1>0, <1>6, ProcessAssumption DEF Claim, TaskTypes
    <3> QED BY <1>0, <1>6, <3>1, <3>2, <3>3 DEF Claim, TaskTypes
  <2>2. RequestTypes'
    BY <1>0, <1>6 DEF Claim, RequestTypes, RequestStatus
  <2>3. QueueTypes'
    BY <1>0, <1>6, Untouched DEF Claim
  <2>4. HandlerTypes'
    BY <1>0, <1>6 DEF Claim, HandlerTypes, Steps
  <2>5. HandlerOK'
    BY <1>0, <1>6 DEF Claim, HandlerTypes, HandlerOK, TaskOf
  <2> QED BY <2>1, <2>2, <2>3, <2>4, <2>5
<1>7. ASSUME NEW h \in Handlers, Busy(h) PROVE Goal
  <2>1. TaskTypes' /\ RequestTypes'
    BY <1>0, <1>7, Untouched DEF Busy
  <2>2. QueueTypes' /\ HandlerTypes' /\ HandlerOK'
    BY <1>0, <1>7, LeaveMessageType DEF Busy
  <2> QED BY <2>1, <2>2
<1>8. ASSUME NEW h \in Handlers, Load(h) PROVE Goal
  <2>1. TaskTypes' /\ RequestTypes' /\ QueueTypes'
    BY <1>0, <1>8, Untouched DEF Load
  <2>2. HandlerTypes'
    <3>1. TaskOf(h) \in Tasks /\ Req(h) \in Requests
      BY <1>0, <1>8, RowAssumption DEF Load, HandlerOK, Req
    <3>2. /\ attempt[TaskOf(h)] \in Nat
          /\ reqStatus[Req(h)] \in RequestStatus
          /\ artifact[Req(h)] \in BOOLEAN
      BY <1>0, <3>1 DEF TaskTypes, RequestTypes
    <3>3. {t \in {TaskOf(h)} : receipt[t]} \in SUBSET Tasks /\ "running" \in TaskStatus
      BY <3>1 DEF TaskStatus
    <3>4. Loaded(h) \in Local
      BY <1>0, <3>2, <3>3 DEF Loaded, HandlerTypes, Local
    <3>5. local' \in [Handlers -> Local]
      BY <1>0, <1>8, <3>4 DEF Load, HandlerTypes
    <3>6. pc' \in [Handlers -> Steps]
      BY <1>0, <1>8 DEF Load, HandlerTypes, Steps
    <3> QED BY <1>0, <1>8, <3>5, <3>6 DEF Load, HandlerTypes
  <2>3. HandlerOK'
    BY <1>0, <1>8 DEF Load, HandlerTypes, HandlerOK, TaskOf
  <2> QED BY <2>1, <2>2, <2>3
<1>9. ASSUME NEW h \in Handlers, LoadLost(h) PROVE Goal
  <2>1. TaskTypes' /\ RequestTypes'
    BY <1>0, <1>9, Untouched DEF LoadLost
  <2>2. QueueTypes' /\ HandlerTypes' /\ HandlerOK'
    BY <1>0, <1>9, LeaveMessageType DEF LoadLost
  <2> QED BY <2>1, <2>2
<1>10. ASSUME NEW h \in Handlers, Execute(h) PROVE Goal
  <2>1. TaskTypes' /\ RequestTypes' /\ QueueTypes'
    BY <1>0, <1>10, Untouched DEF Execute
  <2>2. HandlerTypes'
    <3>1. PICK ok \in BOOLEAN : local' = [local EXCEPT ![h] = Executed(h, ok)]
      BY <1>10 DEF Execute
    <3>2. ResultStatus(h, ok) \in TaskStatus
      BY DEF ResultStatus, TaskStatus
    <3>3. (IF ok THEN {TaskOf(h)} ELSE local[h].doc) \in SUBSET Tasks
      <4>1. local[h] \in Local
        BY <1>0 DEF HandlerTypes
      <4>2. TaskOf(h) \in Tasks
        BY <1>0, <1>10 DEF Execute, HandlerOK
      <4> QED BY <4>1, <4>2, LocalType
    <3>4. Executed(h, ok) \in Local
      BY <1>0, <3>2, <3>3 DEF Executed, HandlerTypes, Local
    <3>5. local' \in [Handlers -> Local]
      BY <1>0, <3>1, <3>4 DEF HandlerTypes
    <3>6. pc' \in [Handlers -> Steps]
      BY <1>0, <1>10 DEF Execute, HandlerTypes, Steps
    <3> QED BY <1>0, <1>10, <3>5, <3>6 DEF Execute, HandlerTypes
  <2>3. HandlerOK'
    <3>1. PICK ok \in BOOLEAN : local' = [local EXCEPT ![h] = Executed(h, ok)]
      BY <1>10 DEF Execute
    <3>2. local[h] \in Local /\ local'[h] = Executed(h, ok)
      BY <1>0, <3>1 DEF HandlerTypes
    <3>3. Executed(h, ok).own = ResultStatus(h, ok)
      BY <3>2 DEF Executed, Local
    <3>4. local'[h].own # "running"
      BY <3>2, <3>3 DEF ResultStatus
    <3>5. \A g \in Handlers : g # h => local'[g] = local[g]
      BY <1>0, <3>1 DEF HandlerTypes
    <3> QED BY <1>0, <1>10, <3>4, <3>5 DEF Execute, HandlerTypes, HandlerOK, TaskOf
  <2> QED BY <2>1, <2>2, <2>3
<1>11. ASSUME NEW h \in Handlers, CommitResult(h) PROVE Goal
  <2>1. TaskTypes'
    <3>1. local[h] \in Local /\ local[h].own # "running"
      BY <1>0, <1>11 DEF CommitResult, HandlerTypes, HandlerOK
    <3>2. local[h].own \in TaskStatus /\ local[h].attempt \in Nat
      BY <3>1, LocalType
    <3>3. status' \in [Tasks -> TaskStatus] /\ live' \in [Tasks -> BOOLEAN]
      BY <1>0, <1>11, <3>2 DEF CommitResult, TaskTypes
    <3>4. owner' \in [Tasks -> Workers \union {NoWorker}]
      BY <1>0, <1>11 DEF CommitResult, TaskTypes
    <3>5. receipt' \in [Tasks -> BOOLEAN]
      BY <1>0, <1>11 DEF CommitResult, TaskTypes, Receipted
    <3>6. [attempt |-> local[h].attempt, action |-> Action(local[h].own)] \in AuditEntry
      BY <3>1, <3>2 DEF Action, AuditEntry, TaskStatus
    <3>7. trail' \in [Tasks -> Seq(AuditEntry)]
      <4> DEFINE e == [attempt |-> local[h].attempt, action |-> Action(local[h].own)]
      <4>1. trail' = [trail EXCEPT ![TaskOf(h)] = Append(trail[TaskOf(h)], e)]
        BY <1>11 DEF CommitResult
      <4>2. trail \in [Tasks -> Seq(AuditEntry)]
        BY <1>0 DEF TaskTypes
      <4>3. e \in AuditEntry
        BY <3>6
      <4> HIDE DEF e
      <4>4. \A q \in Seq(AuditEntry) : Append(q, e) \in Seq(AuditEntry)
        BY <4>3
      <4> QED BY <4>1, <4>2, <4>4
    <3> QED BY <1>0, <1>11, <3>3, <3>4, <3>5, <3>7 DEF CommitResult, TaskTypes
  <2>2. RequestTypes'
    BY <1>0, <1>11 DEF CommitResult, RequestTypes, RequestStatus
  <2>3. QueueTypes'
    BY <1>0, <1>11, Untouched DEF CommitResult
  <2>4. HandlerTypes'
    <3>1. local[h] \in Local
      BY <1>0 DEF HandlerTypes
    <3>2. [local[h] EXCEPT !.req = IF Deleting(h) THEN "verifying" ELSE local[h].req] \in Local
      BY <3>1, LocalType DEF RequestStatus
    <3>3. local' \in [Handlers -> Local]
      BY <1>0, <1>11, <3>2 DEF CommitResult, HandlerTypes
    <3>4. pc' \in [Handlers -> Steps]
      BY <1>0, <1>11 DEF CommitResult, HandlerTypes, Steps
    <3> QED BY <1>0, <1>11, <3>3, <3>4 DEF CommitResult, HandlerTypes
  <2>5. HandlerOK'
    BY <1>0, <1>11 DEF CommitResult, HandlerTypes, HandlerOK, TaskOf
  <2> QED BY <2>1, <2>2, <2>3, <2>4, <2>5
<1>12. ASSUME NEW h \in Handlers, RefreshLoad(h) PROVE Goal
  <2>1. TaskTypes' /\ QueueTypes'
    BY <1>0, <1>12, Untouched DEF RefreshLoad
  <2>2. RequestTypes'
    BY <1>0, <1>12 DEF RefreshLoad, RequestTypes, requestVars
  <2>3. HandlerTypes'
    <3>1. Req(h) \in Requests
      BY <1>0, <1>12, RowAssumption DEF RefreshLoad, HandlerOK, Req
    <3>2. reqStatus[Req(h)] \in RequestStatus /\ artifact[Req(h)] \in BOOLEAN
      BY <1>0, <3>1 DEF RequestTypes
    <3>3. SeenReceipts(h) \in SUBSET Tasks
      BY DEF SeenReceipts, TasksOf
    <3>4. local[h] \in Local
      BY <1>0 DEF HandlerTypes
    <3>5. Refreshed(h) \in Local
      BY <3>2, <3>3, <3>4, AggregateType DEF Refreshed, Local
    <3>7. local' \in [Handlers -> Local]
      BY <1>0, <1>12, <3>5 DEF RefreshLoad, HandlerTypes
    <3>8. pc' \in [Handlers -> Steps]
      BY <1>0, <1>12 DEF RefreshLoad, HandlerTypes, Steps
    <3> QED BY <1>0, <1>12, <3>7, <3>8 DEF RefreshLoad, HandlerTypes
  <2>4. HandlerOK'
    BY <1>0, <1>12 DEF RefreshLoad, HandlerTypes, HandlerOK, TaskOf
  <2> QED BY <2>1, <2>2, <2>3, <2>4
<1>13. ASSUME NEW h \in Handlers, PutArtifact(h) PROVE Goal
  <2>1. TaskTypes' /\ QueueTypes'
    BY <1>0, <1>13, Untouched DEF PutArtifact
  <2>2. RequestTypes'
    BY <1>0, <1>13 DEF PutArtifact, RequestTypes, HandlerTypes, requestVars, Local
  <2>3. HandlerTypes'
    BY <1>0, <1>13 DEF PutArtifact, HandlerTypes, Steps, Local
  <2>4. HandlerOK'
    BY <1>0, <1>13 DEF PutArtifact, HandlerTypes, HandlerOK, TaskOf
  <2> QED BY <2>1, <2>2, <2>3, <2>4
<1>14. ASSUME NEW h \in Handlers, RefreshCommit(h) PROVE Goal
  <2>1. TaskTypes'
    BY <1>0, <1>14, Untouched DEF RefreshCommit
  <2>2. RequestTypes'
    <3>1. local[h] \in Local
      BY <1>0 DEF HandlerTypes
    <3>2. local[h].verdict \in RequestStatus /\ local[h].art \in BOOLEAN
      BY <3>1, LocalType
    <3>3. reqStatus' \in [Requests -> RequestStatus]
      BY <1>0, <1>14, <3>2 DEF RefreshCommit, RequestTypes
    <3>4. artifact' \in [Requests -> BOOLEAN]
      BY <1>0, <1>14, <3>2 DEF RefreshCommit, RequestTypes
    <3>5. completions' \in [Requests -> Nat] /\ rowLock' \in [Requests -> Handlers \union {NoHandler}]
      <4>1. completions' = [completions EXCEPT ![Req(h)] =
                 IF BecameTerminal(h) THEN completions[Req(h)] + 1 ELSE completions[Req(h)]]
        BY <1>14 DEF RefreshCommit
      <4>2. completions \in [Requests -> Nat]
        BY <1>0 DEF RequestTypes
      <4>3. completions' \in [Requests -> Nat]
        <5>1. Req(h) \in Requests
          BY <1>0, <1>14, RowAssumption DEF RefreshCommit, HandlerOK, Req
        <5>2. completions[Req(h)] \in Nat /\ completions[Req(h)] + 1 \in Nat
          BY <4>2, <5>1
        <5> QED BY <4>1, <4>2, <5>2
      <4> QED BY <1>0, <1>14, <4>3 DEF RefreshCommit, RequestTypes
    <3> QED BY <1>0, <1>14, <3>3, <3>4, <3>5 DEF RefreshCommit, RequestTypes
  <2>3. QueueTypes' /\ HandlerTypes' /\ HandlerOK'
    BY <1>0, <1>14, Untouched, LeaveMessageType
        DEF RefreshCommit, queueVars, HandlerTypes, HandlerOK, Steps, TaskOf
  <2> QED BY <2>1, <2>2, <2>3
<1>15. ASSUME NEW h \in Handlers, Ack(h) PROVE Goal
  <2>1. TaskTypes' /\ RequestTypes'
    BY <1>0, <1>15, Untouched DEF Ack
  <2>2. QueueTypes'
    BY <1>0, <1>15 DEF Ack, QueueTypes, Places, DropReceipt
  <2>3. HandlerTypes' /\ HandlerOK'
    BY <1>0, <1>15, FinishType DEF Ack
  <2> QED BY <2>1, <2>2, <2>3
<1>16. ASSUME NEW h \in Handlers, Abort(h) PROVE Goal
  <2>1. TaskTypes'
    BY <1>0, <1>16, Untouched DEF Abort
  <2>2. RequestTypes'
    BY <1>0, <1>16 DEF Abort, RequestTypes, requestVars
  <2>3. QueueTypes' /\ HandlerTypes' /\ HandlerOK'
    BY <1>0, <1>16, LeaveMessageType DEF Abort
  <2> QED BY <2>1, <2>2, <2>3
<1>17. ASSUME NEW h \in Handlers, Heartbeat(h) PROVE Goal
  <2>1. RequestTypes' /\ QueueTypes' /\ HandlerTypes' /\ HandlerOK'
    BY <1>0, <1>17, Untouched DEF Heartbeat
  <2>2. TaskTypes'
    BY <1>0, <1>17 DEF Heartbeat, TaskTypes
  <2> QED BY <2>1, <2>2
<1>18. ASSUME NEW h \in Handlers, HeartbeatDies(h) PROVE Goal
  <2>1. TaskTypes' /\ RequestTypes' /\ QueueTypes'
    BY <1>0, <1>18, Untouched DEF HeartbeatDies
  <2>2. HandlerTypes'
    BY <1>0, <1>18 DEF HeartbeatDies, HandlerTypes
  <2>3. HandlerOK'
    BY <1>0, <1>18 DEF HeartbeatDies, HandlerOK, TaskOf
  <2> QED BY <2>1, <2>2, <2>3
<1>19. ASSUME NEW t \in Tasks, LeaseExpire(t) PROVE Goal
  <2>1. RequestTypes' /\ QueueTypes' /\ HandlerTypes' /\ HandlerOK'
    BY <1>0, <1>19, Untouched DEF LeaseExpire
  <2>2. TaskTypes'
    BY <1>0, <1>19 DEF LeaseExpire, TaskTypes
  <2> QED BY <2>1, <2>2
<1>20. CASE UNCHANGED vars
  BY <1>0, <1>20, Untouched DEF vars
<1> QED
  BY <1>1, <1>2, <1>3, <1>4, <1>5, <1>6, <1>7, <1>8, <1>9, <1>10, <1>11, <1>12,
     <1>13, <1>14, <1>15, <1>16, <1>17, <1>18, <1>19, <1>20
     DEF Next, HandlerStep, PollEmpty

\* Every reachable state of the worker has typed task rows, request rows,
\* queue and handlers: the status columns hold only enum members and the
\* counters naturals, whatever interleaving, crash or expiry happens.
THEOREM TypeCorrect == Spec => []TypeOK
<1>1. Spec => []TypeInv
  BY TypeInit, TypeStep, PTL DEF Spec
<1>2. TypeInv => TypeOK
  BY DEF TypeInv
<1> QED BY <1>1, <1>2, PTL
-----------------------------------------------------------------------------
(* What each step does, stated once for all the invariants below.            *)

\* The steps that move no handler, and the steps that move one.
QuietStep ==
    \/ \E m \in Messages : Publish(m) \/ DeadLetter(m) \/ VisibilityExpire(m)
    \/ \E h \in Handlers : Heartbeat(h) \/ HeartbeatDies(h)
    \/ \E t \in Tasks : LeaseExpire(t)
    \/ UNCHANGED vars
Receives(h) == \E m \in Messages : Receive(h, m)
Leaves(h) == Busy(h) \/ LoadLost(h) \/ Abort(h)
Moves(h) == Receives(h) \/ HandlerStep(h) \/ Leaves(h)

\* Every step moves one handler or none.
LEMMA StepKinds ==
    ASSUME [Next]_vars PROVE QuietStep \/ \E h \in Handlers : Moves(h)
<1>1. CASE UNCHANGED vars
  BY <1>1 DEF QuietStep
<1>2. CASE \E m \in Messages : Publish(m) \/ DeadLetter(m) \/ VisibilityExpire(m)
  BY <1>2 DEF QuietStep
<1>3. CASE \E h \in Handlers, m \in Messages : Receive(h, m)
  BY <1>3 DEF Moves, Receives
<1>4. CASE \E h \in Handlers : HandlerStep(h) \/ Abort(h) \/ Heartbeat(h) \/ HeartbeatDies(h)
  BY <1>4 DEF Moves, Leaves, QuietStep
<1>5. CASE \E t \in Tasks : LeaseExpire(t)
  BY <1>5 DEF QuietStep
<1>6. CASE PollEmpty
  BY <1>6 DEF PollEmpty, QuietStep
<1> QED BY <1>1, <1>2, <1>3, <1>4, <1>5, <1>6 DEF Next

\* The rows stay as they are.
SameRows == UNCHANGED <<status, attempt, receipt, trail, reqStatus, artifact, completions>>

\* Relays, heartbeats and clocks touch no row but a lease and no session.
LEMMA QuietEffect ==
    ASSUME QuietStep
    PROVE  SameRows /\ UNCHANGED <<rowLock, object, pc, msg, local>>
<1>1. ASSUME NEW m \in Messages, Publish(m)
      PROVE  SameRows /\ UNCHANGED <<rowLock, object, pc, msg, local>>
  BY <1>1 DEF Publish, taskVars, requestVars, handlerVars, SameRows
<1>2. ASSUME NEW m \in Messages, DeadLetter(m)
      PROVE  SameRows /\ UNCHANGED <<rowLock, object, pc, msg, local>>
  BY <1>2 DEF DeadLetter, taskVars, requestVars, handlerVars, SameRows
<1>3. ASSUME NEW m \in Messages, VisibilityExpire(m)
      PROVE  SameRows /\ UNCHANGED <<rowLock, object, pc, msg, local>>
  BY <1>3 DEF VisibilityExpire, taskVars, requestVars, handlerVars, SameRows
<1>4. ASSUME NEW h \in Handlers, Heartbeat(h)
      PROVE  SameRows /\ UNCHANGED <<rowLock, object, pc, msg, local>>
  BY <1>4 DEF Heartbeat, taskVars, requestVars, handlerVars, SameRows
<1>5. ASSUME NEW h \in Handlers, HeartbeatDies(h)
      PROVE  SameRows /\ UNCHANGED <<rowLock, object, pc, msg, local>>
  BY <1>5 DEF HeartbeatDies, taskVars, requestVars, handlerVars, SameRows
<1>6. ASSUME NEW t \in Tasks, LeaseExpire(t)
      PROVE  SameRows /\ UNCHANGED <<rowLock, object, pc, msg, local>>
  BY <1>6 DEF LeaseExpire, taskVars, requestVars, handlerVars, SameRows
<1>7. CASE UNCHANGED vars
  BY <1>7 DEF vars, taskVars, requestVars, handlerVars, SameRows
<1> QED BY <1>1, <1>2, <1>3, <1>4, <1>5, <1>6, <1>7 DEF QuietStep

\* The handlers other than h stay as they are.
OthersKept(h) ==
    \A g \in Handlers : g # h =>
        /\ pc'[g] = pc[g] /\ msg'[g] = msg[g] /\ local'[g] = local[g]
        /\ TaskOf(g)' = TaskOf(g) /\ Req(g)' = Req(g)

\* The task and request of a handler that keeps its message.
Stays(h) == msg'[h] = msg[h] /\ TaskOf(h)' = TaskOf(h) /\ Req(h)' = Req(h)

\* A handler beyond the claim has a message, a task and a request.
LEMMA Working ==
    ASSUME TypeInv, NEW h \in Handlers, pc[h] \notin {"idle", "handle", "ack"}
    PROVE  /\ msg[h] \in Messages /\ TaskOf(h) \in Tasks /\ Req(h) \in Requests
           /\ TaskOf(h) \in TasksOf(Req(h)) /\ local[h] \in Local
BY RowAssumption DEF TypeInv, TypeOK, HandlerTypes, HandlerOK, Req, TasksOf

\* The call of h ends, and only its own variables change.
LEMMA FinishEffect ==
    ASSUME TypeInv, NEW h \in Handlers, Finish(h)
    PROVE  pc'[h] = "idle" /\ msg'[h] = NoMsg /\ local'[h] = Blank /\ OthersKept(h)
<1>1. HandlerTypes
  BY DEF TypeInv, TypeOK
<1>2. pc'[h] = "idle" /\ msg'[h] = NoMsg /\ local'[h] = Blank
  BY <1>1 DEF Finish, HandlerTypes
<1>3. \A g \in Handlers : g # h =>
        pc'[g] = pc[g] /\ msg'[g] = msg[g] /\ local'[g] = local[g]
  BY <1>1 DEF Finish, HandlerTypes
<1> QED BY <1>2, <1>3 DEF OthersKept, TaskOf, Req

\* A handler takes a message: nothing is in its session yet.
LEMMA ReceivesEffect ==
    ASSUME TypeInv, NEW h \in Handlers, Receives(h)
    PROVE  /\ pc[h] = "idle" /\ pc'[h] = "handle" /\ OthersKept(h)
           /\ SameRows /\ UNCHANGED <<rowLock, object, local>>
<1>1. HandlerTypes
  BY DEF TypeInv, TypeOK
<1>2. PICK m \in Messages : Receive(h, m)
  BY DEF Receives
<1>3. /\ pc[h] = "idle" /\ pc'[h] = "handle"
      /\ SameRows /\ UNCHANGED <<rowLock, object, local>>
  BY <1>1, <1>2 DEF Receive, HandlerTypes, SameRows, taskVars, requestVars
<1>4. \A g \in Handlers : g # h => pc'[g] = pc[g] /\ msg'[g] = msg[g] /\ local'[g] = local[g]
  BY <1>1, <1>2 DEF Receive, HandlerTypes
<1> QED BY <1>3, <1>4 DEF OthersKept, TaskOf, Req

\* A call that ends without an acknowledgement only gives back its row lock.
LEMMA LeavesEffect ==
    ASSUME TypeInv, NEW h \in Handlers, Leaves(h)
    PROVE  /\ pc'[h] = "idle" /\ local'[h] = Blank /\ msg'[h] = NoMsg /\ OthersKept(h)
           /\ SameRows /\ UNCHANGED <<object, published, place>>
           /\ \A r \in Requests : rowLock'[r] = rowLock[r] \/ rowLock[r] = h
<1>1. LeaveMessage(h) /\ SameRows /\ UNCHANGED object
  BY DEF Leaves, Busy, LoadLost, Abort, SameRows, taskVars, requestVars
<1>2. \A r \in Requests : rowLock'[r] = rowLock[r] \/ rowLock[r] = h
  BY DEF Leaves, Busy, LoadLost, Abort, TypeInv, TypeOK, RequestTypes
<1> QED BY <1>1, <1>2, FinishEffect DEF LeaveMessage

\* The read before the claim only marks a duplicate.
LEMMA ClaimReadEffect ==
    ASSUME TypeInv, NEW h \in Handlers, ClaimRead(h)
    PROVE  /\ pc[h] = "handle" /\ Stays(h) /\ OthersKept(h)
           /\ \/ pc'[h] = "ack" /\ TaskOf(h) = NoTask
              \/ /\ pc'[h] = "refresh" /\ local'[h].dup
                 /\ TaskOf(h) # NoTask /\ status[TaskOf(h)] \in Terminal
              \/ pc'[h] = "claim" /\ local'[h] = local[h]
           /\ SameRows /\ UNCHANGED <<rowLock, object, published, place>>
<1>1. HandlerTypes
  BY DEF TypeInv, TypeOK
<1>2. SameRows /\ UNCHANGED <<rowLock, object, published, place, msg>> /\ pc[h] = "handle"
  BY DEF ClaimRead, SameRows, taskVars, requestVars, queueVars
<1>3. \A g \in Handlers : g # h => pc'[g] = pc[g] /\ local'[g] = local[g]
  BY <1>1 DEF ClaimRead, HandlerTypes
<1>4. \/ pc'[h] = "ack" /\ TaskOf(h) = NoTask
      \/ /\ pc'[h] = "refresh" /\ local'[h].dup
         /\ TaskOf(h) # NoTask /\ status[TaskOf(h)] \in Terminal
      \/ pc'[h] = "claim" /\ local'[h] = local[h]
  BY <1>1 DEF ClaimRead, AfterDuplicate, HandlerTypes, Local
<1> QED BY <1>2, <1>3, <1>4 DEF OthersKept, Stays, TaskOf, Req

\* The claim writes the task row and takes the request out of "queued".
LEMMA ClaimEffect ==
    ASSUME TypeInv, NEW h \in Handlers, Claim(h)
    PROVE  /\ pc[h] = "claim" /\ pc'[h] = "load" /\ Stays(h) /\ OthersKept(h)
           /\ UNCHANGED <<receipt, trail, artifact, completions, rowLock, object, local>>
           /\ UNCHANGED <<published, place>>
           /\ status[TaskOf(h)] \notin Terminal /\ Claimable(TaskOf(h))
           /\ status'[TaskOf(h)] = "running"
           /\ attempt'[TaskOf(h)] = attempt[TaskOf(h)] + 1
           /\ \A t \in Tasks : t # TaskOf(h) => status'[t] = status[t] /\ attempt'[t] = attempt[t]
           /\ \A r \in Requests : \/ reqStatus'[r] = reqStatus[r]
                                  \/ /\ r = Req(h) /\ reqStatus[r] = "queued"
                                     /\ reqStatus'[r] = "running" /\ Unlocked(r)
<1>1. HandlerTypes /\ TaskTypes /\ RequestTypes
  BY DEF TypeInv, TypeOK
<1>2. /\ UNCHANGED <<receipt, trail, artifact, completions, rowLock, object, local, msg>>
      /\ UNCHANGED <<published, place>>
      /\ pc[h] = "claim"
  BY DEF Claim, queueVars
<1>3. pc'[h] = "load" /\ \A g \in Handlers : g # h => pc'[g] = pc[g]
  BY <1>1 DEF Claim, HandlerTypes
<1>4. status[TaskOf(h)] \notin Terminal /\ Claimable(TaskOf(h))
  BY DEF Claim, Claimable, Terminal
<1>5. TaskOf(h) \in Tasks
  BY <1>2, Working
<1>6. /\ status'[TaskOf(h)] = "running"
      /\ \A t \in Tasks : t # TaskOf(h) => status'[t] = status[t] /\ attempt'[t] = attempt[t]
  BY <1>1, <1>5 DEF Claim, TaskTypes
<1>7. attempt'[TaskOf(h)] = attempt[TaskOf(h)] + 1
  BY <1>1, <1>5 DEF Claim, TaskTypes
<1>8. ASSUME NEW r \in Requests
      PROVE  \/ reqStatus'[r] = reqStatus[r]
             \/ /\ r = Req(h) /\ reqStatus[r] = "queued"
                /\ reqStatus'[r] = "running" /\ Unlocked(r)
  BY <1>1 DEF Claim, RequestTypes
<1> QED BY <1>2, <1>3, <1>4, <1>6, <1>7, <1>8 DEF OthersKept, Stays, TaskOf, Req

\* The session after execute_task's SELECT.
LEMMA LoadEffect ==
    ASSUME TypeInv, NEW h \in Handlers, Load(h)
    PROVE  /\ pc[h] = "load" /\ pc'[h] = "execute" /\ Stays(h) /\ OthersKept(h)
           /\ local'[h].dup = local[h].dup
           /\ local'[h].attempt = attempt[TaskOf(h)]
           /\ local'[h].own = "running"
           /\ local'[h].req = reqStatus[Req(h)]
           /\ local'[h].art = artifact[Req(h)]
           /\ local'[h].doc = {t \in {TaskOf(h)} : receipt[t]}
           /\ SameRows /\ UNCHANGED <<rowLock, object, published, place>>
<1>1. HandlerTypes
  BY DEF TypeInv, TypeOK
<1>2. SameRows /\ UNCHANGED <<rowLock, object, published, place, msg>> /\ pc[h] = "load"
  BY DEF Load, SameRows, taskVars, requestVars, queueVars
<1>3. /\ pc'[h] = "execute" /\ local'[h] = Loaded(h)
      /\ \A g \in Handlers : g # h => pc'[g] = pc[g] /\ local'[g] = local[g]
  BY <1>1 DEF Load, HandlerTypes
<1>4. local[h] \in Local
  BY <1>1 DEF HandlerTypes
<1>5. /\ local'[h].dup = local[h].dup
      /\ local'[h].attempt = attempt[TaskOf(h)]
      /\ local'[h].own = "running"
      /\ local'[h].req = reqStatus[Req(h)]
      /\ local'[h].art = artifact[Req(h)]
      /\ local'[h].doc = {t \in {TaskOf(h)} : receipt[t]}
  BY <1>3, <1>4 DEF Loaded, Local
<1> QED BY <1>2, <1>3, <1>5 DEF OthersKept, Stays, TaskOf, Req

\* The session after the source call.
LEMMA ExecuteEffect ==
    ASSUME TypeInv, NEW h \in Handlers, Execute(h)
    PROVE  /\ pc[h] = "execute" /\ pc'[h] = "commit" /\ Stays(h) /\ OthersKept(h)
           /\ local'[h].dup = local[h].dup /\ local'[h].attempt = local[h].attempt
           /\ local'[h].req = local[h].req /\ local'[h].art = local[h].art
           /\ \E ok \in BOOLEAN :
                 /\ local'[h].own = ResultStatus(h, ok)
                 /\ local'[h].doc = IF ok THEN {TaskOf(h)} ELSE local[h].doc
           /\ SameRows /\ UNCHANGED <<rowLock, object, published, place>>
<1>1. HandlerTypes
  BY DEF TypeInv, TypeOK
<1>2. SameRows /\ UNCHANGED <<rowLock, object, published, place, msg>> /\ pc[h] = "execute"
  BY DEF Execute, SameRows, taskVars, requestVars, queueVars
<1>3. PICK ok \in BOOLEAN : local' = [local EXCEPT ![h] = Executed(h, ok)]
  BY DEF Execute
<1>4. /\ pc'[h] = "commit" /\ local'[h] = Executed(h, ok)
      /\ \A g \in Handlers : g # h => pc'[g] = pc[g] /\ local'[g] = local[g]
  BY <1>1, <1>3 DEF Execute, HandlerTypes
<1>5. local[h] \in Local
  BY <1>1 DEF HandlerTypes
<1>6. /\ local'[h].dup = local[h].dup /\ local'[h].attempt = local[h].attempt
      /\ local'[h].req = local[h].req /\ local'[h].art = local[h].art
      /\ local'[h].own = ResultStatus(h, ok)
      /\ local'[h].doc = IF ok THEN {TaskOf(h)} ELSE local[h].doc
  BY <1>4, <1>5 DEF Executed, Local
<1> QED BY <1>2, <1>4, <1>6 DEF OthersKept, Stays, TaskOf, Req

\* The entry CommitResult appends to the audit trail.
Entry(h) == [attempt |-> local[h].attempt, action |-> Action(local[h].own)]

\* The commit of execute_task writes the session's result to the task row.
LEMMA CommitEffect ==
    ASSUME TypeInv, NEW h \in Handlers, CommitResult(h)
    PROVE  /\ pc[h] = "commit" /\ pc'[h] = "refresh" /\ Stays(h) /\ OthersKept(h)
           /\ UNCHANGED <<attempt, artifact, completions, rowLock, object, published, place>>
           /\ local'[h].dup = local[h].dup /\ local'[h].own = local[h].own
           /\ local'[h].art = local[h].art /\ local'[h].doc = local[h].doc
           /\ local'[h].req = local[h].req \/ local'[h].req = "verifying"
           /\ status'[TaskOf(h)] = local[h].own
           /\ receipt'[TaskOf(h)] = (receipt[TaskOf(h)] \/ local[h].own = "succeeded")
           /\ trail'[TaskOf(h)] = Append(trail[TaskOf(h)], Entry(h)) /\ Entry(h) \in AuditEntry
           /\ \A t \in Tasks : t # TaskOf(h) =>
                 status'[t] = status[t] /\ receipt'[t] = receipt[t] /\ trail'[t] = trail[t]
           /\ \A r \in Requests : \/ reqStatus'[r] = reqStatus[r]
                                  \/ r = Req(h) /\ reqStatus'[r] = "verifying" /\ Unlocked(r)
<1>1. HandlerTypes /\ HandlerOK /\ TaskTypes /\ RequestTypes
  BY DEF TypeInv, TypeOK
<1>2. /\ UNCHANGED <<attempt, artifact, completions, rowLock, object, published, place, msg>>
      /\ pc[h] = "commit"
  BY DEF CommitResult, queueVars
<1>3. TaskOf(h) \in Tasks /\ local[h] \in Local
  BY <1>2, Working
<1>4. pc'[h] = "refresh" /\ \A g \in Handlers : g # h => pc'[g] = pc[g] /\ local'[g] = local[g]
  BY <1>1 DEF CommitResult, HandlerTypes
<1>5. local'[h] = [local[h] EXCEPT !.req = IF Deleting(h) THEN "verifying" ELSE local[h].req]
  BY <1>1 DEF CommitResult, HandlerTypes
<1>6. /\ local'[h].dup = local[h].dup /\ local'[h].own = local[h].own
      /\ local'[h].art = local[h].art /\ local'[h].doc = local[h].doc
      /\ local'[h].req = local[h].req \/ local'[h].req = "verifying"
  BY <1>3, <1>5 DEF Local
<1>7. /\ status'[TaskOf(h)] = local[h].own
      /\ receipt'[TaskOf(h)] = (receipt[TaskOf(h)] \/ local[h].own = "succeeded")
      /\ trail'[TaskOf(h)] = Append(trail[TaskOf(h)], Entry(h))
      /\ \A t \in Tasks : t # TaskOf(h) =>
            status'[t] = status[t] /\ receipt'[t] = receipt[t] /\ trail'[t] = trail[t]
  BY <1>1, <1>3 DEF CommitResult, Receipted, Entry, TaskTypes
<1>8. Entry(h) \in AuditEntry
  <2>1. local[h].own \in TaskStatus /\ local[h].own # "running" /\ local[h].attempt \in Nat
    BY <1>1, <1>2, <1>3, LocalType DEF HandlerOK
  <2> QED BY <2>1 DEF Entry, Action, AuditEntry, TaskStatus
<1>9. ASSUME NEW r \in Requests
      PROVE  \/ reqStatus'[r] = reqStatus[r]
             \/ r = Req(h) /\ reqStatus'[r] = "verifying" /\ Unlocked(r)
  BY <1>1 DEF CommitResult, RequestTypes
<1> QED BY <1>2, <1>4, <1>6, <1>7, <1>8, <1>9 DEF OthersKept, Stays, TaskOf, Req

\* A refresh locks the request row and computes its verdict.
LEMMA RefreshLoadEffect ==
    ASSUME TypeInv, NEW h \in Handlers, RefreshLoad(h)
    PROVE  /\ pc[h] = "refresh" /\ Stays(h) /\ OthersKept(h)
           /\ pc'[h] = IF NeedsArtifact(local'[h], Req(h)) THEN "artifact" ELSE "store"
           /\ local'[h].dup = local[h].dup /\ local'[h].own = local[h].own
           /\ local'[h].req = IF local[h].dup THEN reqStatus[Req(h)] ELSE local[h].req
           /\ local'[h].art = IF local[h].dup THEN artifact[Req(h)] ELSE local[h].art
           /\ local'[h].verdict = Aggregate(SeenStatuses(h))
           /\ local'[h].doc = SeenReceipts(h)
           /\ Unlocked(Req(h)) /\ rowLock'[Req(h)] = h
           /\ \A r \in Requests : r # Req(h) => rowLock'[r] = rowLock[r]
           /\ SameRows /\ UNCHANGED <<object, published, place>>
<1>1. HandlerTypes /\ RequestTypes
  BY DEF TypeInv, TypeOK
<1>2. /\ SameRows /\ UNCHANGED <<object, published, place, msg>> /\ pc[h] = "refresh"
      /\ Unlocked(Req(h))
  BY DEF RefreshLoad, SameRows, taskVars, requestVars, queueVars
<1>3. Req(h) \in Requests /\ local[h] \in Local
  BY <1>2, Working
<1>4. /\ local'[h] = Refreshed(h)
      /\ pc'[h] = IF NeedsArtifact(Refreshed(h), Req(h)) THEN "artifact" ELSE "store"
      /\ \A g \in Handlers : g # h => pc'[g] = pc[g] /\ local'[g] = local[g]
  BY <1>1 DEF RefreshLoad, HandlerTypes
<1>5. rowLock'[Req(h)] = h /\ \A r \in Requests : r # Req(h) => rowLock'[r] = rowLock[r]
  BY <1>1, <1>3 DEF RefreshLoad, RequestTypes
<1>6. /\ local'[h].dup = local[h].dup /\ local'[h].own = local[h].own
      /\ local'[h].req = IF local[h].dup THEN reqStatus[Req(h)] ELSE local[h].req
      /\ local'[h].art = IF local[h].dup THEN artifact[Req(h)] ELSE local[h].art
      /\ local'[h].verdict = Aggregate(SeenStatuses(h))
      /\ local'[h].doc = SeenReceipts(h)
  BY <1>3, <1>4 DEF Refreshed, Local
<1> QED BY <1>2, <1>4, <1>5, <1>6 DEF OthersKept, Stays, TaskOf, Req

\* The artifact is written from the session's document.
LEMMA PutEffect ==
    ASSUME TypeInv, NEW h \in Handlers, PutArtifact(h)
    PROVE  /\ pc[h] = "artifact" /\ pc'[h] = "store" /\ Stays(h) /\ OthersKept(h)
           /\ local'[h].dup = local[h].dup /\ local'[h].own = local[h].own
           /\ local'[h].req = local[h].req /\ local'[h].verdict = local[h].verdict
           /\ local'[h].art = TRUE /\ local'[h].doc = local[h].doc
           /\ object'[Req(h)] = local[h].doc
           /\ \A r \in Requests : r # Req(h) => object'[r] = object[r]
           /\ SameRows /\ UNCHANGED <<rowLock, published, place>>
<1>1. HandlerTypes /\ RequestTypes
  BY DEF TypeInv, TypeOK
<1>2. SameRows /\ UNCHANGED <<rowLock, published, place, msg>> /\ pc[h] = "artifact"
  BY DEF PutArtifact, SameRows, taskVars, requestVars, queueVars
<1>3. Req(h) \in Requests /\ local[h] \in Local
  BY <1>2, Working
<1>4. /\ pc'[h] = "store" /\ local'[h] = [local[h] EXCEPT !.art = TRUE]
      /\ \A g \in Handlers : g # h => pc'[g] = pc[g] /\ local'[g] = local[g]
  BY <1>1 DEF PutArtifact, HandlerTypes
<1>5. object'[Req(h)] = local[h].doc /\ \A r \in Requests : r # Req(h) => object'[r] = object[r]
  BY <1>1, <1>3 DEF PutArtifact, RequestTypes
<1>6. /\ local'[h].dup = local[h].dup /\ local'[h].own = local[h].own
      /\ local'[h].req = local[h].req /\ local'[h].verdict = local[h].verdict
      /\ local'[h].art = TRUE /\ local'[h].doc = local[h].doc
  BY <1>3, <1>4 DEF Local
<1> QED BY <1>2, <1>4, <1>5, <1>6 DEF OthersKept, Stays, TaskOf, Req

\* The commit of a refresh writes the request row, unlocks it and ends the
\* session, with or without an acknowledgement to come.
LEMMA RefreshCommitEffect ==
    ASSUME TypeInv, NEW h \in Handlers, RefreshCommit(h)
    PROVE  /\ pc[h] = "store" /\ OthersKept(h)
           /\ \/ Handled(h) /\ pc'[h] = "ack" /\ Stays(h) /\ local'[h] = local[h]
              \/ ~Handled(h) /\ pc'[h] = "idle" /\ msg'[h] = NoMsg /\ local'[h] = Blank
           /\ UNCHANGED <<status, attempt, receipt, trail, object, published, place>>
           /\ reqStatus'[Req(h)] = IF local[h].verdict # local[h].req THEN local[h].verdict
                                                                      ELSE reqStatus[Req(h)]
           /\ artifact'[Req(h)] = (artifact[Req(h)] \/ local[h].art)
           /\ completions'[Req(h)] = IF BecameTerminal(h) THEN completions[Req(h)] + 1
                                                          ELSE completions[Req(h)]
           /\ rowLock'[Req(h)] = NoHandler
           /\ \A r \in Requests : r # Req(h) =>
                 /\ reqStatus'[r] = reqStatus[r] /\ artifact'[r] = artifact[r]
                 /\ completions'[r] = completions[r] /\ rowLock'[r] = rowLock[r]
<1>1. HandlerTypes /\ RequestTypes
  BY DEF TypeInv, TypeOK
<1>2. pc[h] = "store" /\ UNCHANGED <<status, attempt, receipt, trail, object>>
  BY DEF RefreshCommit, taskVars
<1>3. Req(h) \in Requests
  BY <1>2, Working
<1>4. /\ reqStatus'[Req(h)] = IF local[h].verdict # local[h].req THEN local[h].verdict
                                                                 ELSE reqStatus[Req(h)]
      /\ \A r \in Requests : r # Req(h) => reqStatus'[r] = reqStatus[r]
  BY <1>1, <1>3 DEF RefreshCommit, RequestTypes
<1>5. /\ artifact'[Req(h)] = (artifact[Req(h)] \/ local[h].art)
      /\ \A r \in Requests : r # Req(h) => artifact'[r] = artifact[r]
  BY <1>1, <1>3 DEF RefreshCommit, RequestTypes
<1>6. /\ completions'[Req(h)] = IF BecameTerminal(h) THEN completions[Req(h)] + 1
                                                     ELSE completions[Req(h)]
      /\ \A r \in Requests : r # Req(h) => completions'[r] = completions[r]
  BY <1>1, <1>3 DEF RefreshCommit, RequestTypes
<1>7. /\ rowLock'[Req(h)] = NoHandler
      /\ \A r \in Requests : r # Req(h) => rowLock'[r] = rowLock[r]
  BY <1>1, <1>3 DEF RefreshCommit, RequestTypes
<1>8. CASE Handled(h)
  <2>1. pc' = [pc EXCEPT ![h] = "ack"] /\ UNCHANGED <<published, place, msg, local>>
    BY <1>8 DEF RefreshCommit, queueVars
  <2>2. pc'[h] = "ack" /\ Stays(h) /\ local'[h] = local[h] /\ OthersKept(h)
    BY <1>1, <2>1 DEF HandlerTypes, OthersKept, Stays, TaskOf, Req
  <2> QED BY <1>2, <1>4, <1>5, <1>6, <1>7, <1>8, <2>1, <2>2
<1>9. CASE ~Handled(h)
  <2>1. Finish(h) /\ UNCHANGED <<published, place>>
    BY <1>9 DEF RefreshCommit, LeaveMessage
  <2> QED BY <1>2, <1>4, <1>5, <1>6, <1>7, <1>9, <2>1, FinishEffect
<1> QED BY <1>8, <1>9

\* An acknowledgement ends the call and deletes at most its own message.
LEMMA AckEffect ==
    ASSUME TypeInv, NEW h \in Handlers, Ack(h)
    PROVE  /\ pc[h] = "ack" /\ pc'[h] = "idle" /\ msg'[h] = NoMsg /\ local'[h] = Blank
           /\ OthersKept(h) /\ SameRows /\ UNCHANGED <<rowLock, object, published>>
           /\ \A m \in Messages : m # msg[h] => place'[m] = place[m]
<1>1. QueueTypes
  BY DEF TypeInv, TypeOK
<1>2. pc[h] = "ack" /\ Finish(h) /\ SameRows /\ UNCHANGED <<rowLock, object, published>>
  BY DEF Ack, SameRows, taskVars, requestVars
<1>3. \A m \in Messages : m # msg[h] => place'[m] = place[m]
  BY <1>1 DEF Ack, QueueTypes
<1> QED BY <1>2, <1>3, FinishEffect

\* Only a claim and the commit of a result write a task row.
LEMMA TaskRowStep ==
    ASSUME TypeInv, [Next]_vars, NEW t \in Tasks
    PROVE  \/ /\ status'[t] = status[t] /\ attempt'[t] = attempt[t]
              /\ receipt'[t] = receipt[t] /\ trail'[t] = trail[t]
           \/ \E h \in Handlers : t = TaskOf(h) /\ (Claim(h) \/ CommitResult(h))
<1> DEFINE Same == /\ status'[t] = status[t] /\ attempt'[t] = attempt[t]
                   /\ receipt'[t] = receipt[t] /\ trail'[t] = trail[t]
<1>1. CASE QuietStep
  BY <1>1, QuietEffect DEF SameRows
<1>2. ASSUME NEW h \in Handlers, Moves(h)
      PROVE  Same \/ (t = TaskOf(h) /\ (Claim(h) \/ CommitResult(h)))
  <2>1. CASE Receives(h) \/ Leaves(h)
    BY <2>1, ReceivesEffect, LeavesEffect DEF SameRows
  <2>2. CASE ClaimRead(h) \/ Load(h)
    BY <2>2, ClaimReadEffect, LoadEffect DEF SameRows
  <2>3. CASE Execute(h) \/ RefreshLoad(h)
    BY <2>3, ExecuteEffect, RefreshLoadEffect DEF SameRows
  <2>4. CASE PutArtifact(h) \/ Ack(h) \/ RefreshCommit(h)
    BY <2>4, PutEffect, AckEffect, RefreshCommitEffect DEF SameRows
  <2>5. CASE Claim(h)
    BY <2>5, ClaimEffect
  <2>6. CASE CommitResult(h)
    BY <2>6, CommitEffect
  <2> QED BY <1>2, <2>1, <2>2, <2>3, <2>4, <2>5, <2>6 DEF Moves, Leaves, HandlerStep
<1> QED BY <1>1, <1>2, StepKinds

\* Only a claim, the commit of a result and the commit of a refresh write a
\* request row.
LEMMA RequestRowStep ==
    ASSUME TypeInv, [Next]_vars, NEW r \in Requests
    PROVE  \/ /\ reqStatus'[r] = reqStatus[r] /\ artifact'[r] = artifact[r]
              /\ completions'[r] = completions[r]
           \/ \E h \in Handlers : r = Req(h) /\ (Claim(h) \/ CommitResult(h) \/ RefreshCommit(h))
<1> DEFINE Same == /\ reqStatus'[r] = reqStatus[r] /\ artifact'[r] = artifact[r]
                   /\ completions'[r] = completions[r]
<1>1. CASE QuietStep
  BY <1>1, QuietEffect DEF SameRows
<1>2. ASSUME NEW h \in Handlers, Moves(h)
      PROVE  Same \/ (r = Req(h) /\ (Claim(h) \/ CommitResult(h) \/ RefreshCommit(h)))
  <2>1. CASE Receives(h) \/ Leaves(h)
    BY <2>1, ReceivesEffect, LeavesEffect DEF SameRows
  <2>2. CASE ClaimRead(h) \/ Load(h)
    BY <2>2, ClaimReadEffect, LoadEffect DEF SameRows
  <2>3. CASE Execute(h) \/ RefreshLoad(h)
    BY <2>3, ExecuteEffect, RefreshLoadEffect DEF SameRows
  <2>4. CASE PutArtifact(h) \/ Ack(h)
    BY <2>4, PutEffect, AckEffect DEF SameRows
  <2>5. CASE Claim(h)
    BY <2>5, ClaimEffect
  <2>6. CASE CommitResult(h)
    BY <2>6, CommitEffect
  <2>7. CASE RefreshCommit(h)
    BY <2>7, RefreshCommitEffect
  <2> QED BY <1>2, <2>1, <2>2, <2>3, <2>4, <2>5, <2>6, <2>7 DEF Moves, Leaves, HandlerStep
<1> QED BY <1>1, <1>2, StepKinds

\* Only PutArtifact writes to the object store.
LEMMA ObjectStep ==
    ASSUME TypeInv, [Next]_vars, NEW r \in Requests
    PROVE  object'[r] = object[r] \/ \E h \in Handlers : r = Req(h) /\ PutArtifact(h)
<1>1. CASE QuietStep
  BY <1>1, QuietEffect
<1>2. ASSUME NEW h \in Handlers, Moves(h)
      PROVE  object'[r] = object[r] \/ (r = Req(h) /\ PutArtifact(h))
  <2>1. CASE Receives(h) \/ Leaves(h)
    BY <2>1, ReceivesEffect, LeavesEffect
  <2>2. CASE ClaimRead(h) \/ Load(h) \/ Claim(h)
    BY <2>2, ClaimReadEffect, LoadEffect, ClaimEffect
  <2>3. CASE Execute(h) \/ RefreshLoad(h) \/ CommitResult(h)
    BY <2>3, ExecuteEffect, RefreshLoadEffect, CommitEffect
  <2>4. CASE PutArtifact(h) \/ Ack(h) \/ RefreshCommit(h)
    BY <2>4, PutEffect, AckEffect, RefreshCommitEffect
  <2> QED BY <1>2, <2>1, <2>2, <2>3, <2>4 DEF Moves, Leaves, HandlerStep
<1> QED BY <1>1, <1>2, StepKinds

\* The message, the session and the control point of a handler are its own.
LEMMA HandlerMoves ==
    ASSUME TypeInv, NEW h \in Handlers, Moves(h) PROVE OthersKept(h)
<1>1. CASE Receives(h) \/ Leaves(h)
  BY <1>1, ReceivesEffect, LeavesEffect
<1>2. CASE ClaimRead(h) \/ Load(h) \/ Claim(h)
  BY <1>2, ClaimReadEffect, LoadEffect, ClaimEffect
<1>3. CASE Execute(h) \/ RefreshLoad(h) \/ CommitResult(h)
  BY <1>3, ExecuteEffect, RefreshLoadEffect, CommitEffect
<1>4. CASE PutArtifact(h) \/ Ack(h) \/ RefreshCommit(h)
  BY <1>4, PutEffect, AckEffect, RefreshCommitEffect
<1> QED BY <1>1, <1>2, <1>3, <1>4 DEF Moves, Leaves, HandlerStep
-----------------------------------------------------------------------------
(* BackedInv: announcements and receipts, with and without failing           *)
(* heartbeats.                                                               *)

\* Receipts, audit events and announcements are never taken back.
LEMMA Monotone ==
    ASSUME TypeInv, [Next]_vars
    PROVE  /\ \A r \in Requests : completions[r] > 0 => completions'[r] > 0
           /\ \A t \in Tasks :
                 /\ receipt[t] => receipt'[t]
                 /\ \A i \in DOMAIN trail[t] :
                       i \in DOMAIN trail'[t] /\ trail'[t][i] = trail[t][i]
<1>1. ASSUME NEW r \in Requests, completions[r] > 0 PROVE completions'[r] > 0
  <2>1. completions[r] \in Nat
    BY DEF TypeInv, TypeOK, RequestTypes
  <2>2. \/ completions'[r] = completions[r]
        \/ \E h \in Handlers : RefreshCommit(h) /\ r = Req(h)
    BY RequestRowStep, ClaimEffect, CommitEffect
  <2>3. completions'[r] = completions[r] \/ completions'[r] = completions[r] + 1
    BY <2>2, RefreshCommitEffect
  <2> QED BY <1>1, <2>1, <2>3
<1>2. ASSUME NEW t \in Tasks
      PROVE  /\ receipt[t] => receipt'[t]
             /\ \A i \in DOMAIN trail[t] : i \in DOMAIN trail'[t] /\ trail'[t][i] = trail[t][i]
  <2>1. trail[t] \in Seq(AuditEntry)
    BY DEF TypeInv, TypeOK, TaskTypes
  <2>2. ASSUME NEW h \in Handlers, t = TaskOf(h), CommitResult(h)
        PROVE  /\ receipt[t] => receipt'[t]
               /\ Entry(h) \in AuditEntry /\ trail'[t] = Append(trail[t], Entry(h))
    BY <2>2, CommitEffect
  <2>3. \/ receipt'[t] = receipt[t] /\ trail'[t] = trail[t]
        \/ \E h \in Handlers : t = TaskOf(h) /\ CommitResult(h)
    BY TaskRowStep, ClaimEffect
  <2>4. CASE \E h \in Handlers : t = TaskOf(h) /\ CommitResult(h)
    BY <2>1, <2>2, <2>4
  <2> QED BY <2>3, <2>4
<1> QED BY <1>1, <1>2

\* A session at rest stays backed.
LEMMA BackedFrame ==
    ASSUME BackedInv, [Next]_vars, NEW g \in Handlers,
           pc'[g] = pc[g], msg'[g] = msg[g], local'[g] = local[g]
    PROVE  SessionBackedBy(g)'
<1>1. TypeInv /\ SessionBackedBy(g)
  BY DEF BackedInv, TypeInv, SessionBacked
<1>2. TaskOf(g)' = TaskOf(g) /\ Req(g)' = Req(g) /\ InSession(g)' = InSession(g)
  BY DEF TaskOf, Req, InSession
<1>3. CASE InSession(g)
  <2>1. pc[g] \notin {"idle", "handle", "ack"}
    BY <1>3 DEF InSession
  <2>2. Req(g) \in Requests /\ local[g].doc \in SUBSET Tasks
    BY <1>1, <2>1, Working, LocalType
  <2> QED BY <1>1, <1>2, <1>3, <2>2, Monotone DEF SessionBackedBy
<1> QED BY <1>2, <1>3 DEF SessionBackedBy

\* The sessions stay backed.
LEMMA SessionBackedStep == ASSUME BackedInv, [Next]_vars PROVE SessionBacked'
<1>0. TypeInv /\ SessionBacked /\ VerdictAnnounced
  BY DEF BackedInv, TypeInv
<1>1. CASE QuietStep
  BY <1>1, QuietEffect, BackedFrame DEF SessionBacked
<1>2. ASSUME NEW h \in Handlers, OthersKept(h), SessionBackedBy(h)' PROVE SessionBacked'
  BY <1>2, BackedFrame DEF SessionBacked, OthersKept
<1>3. ASSUME NEW h \in Handlers, OthersKept(h), ~InSession(h)' PROVE SessionBacked'
  BY <1>2, <1>3 DEF SessionBackedBy
<1>4. ASSUME NEW h \in Handlers, Moves(h) PROVE SessionBacked'
  <2>0. SessionBackedBy(h)
    BY <1>0 DEF SessionBacked
  <2>1. CASE Receives(h)
    BY <1>0, <1>3, <2>1, ReceivesEffect DEF InSession
  <2>2. CASE Leaves(h)
    BY <1>0, <1>3, <2>2, LeavesEffect DEF InSession
  <2>3. CASE ClaimRead(h)
    BY <1>0, <1>3, <2>3, ClaimReadEffect DEF InSession
  <2>4. CASE Claim(h)
    BY <1>0, <1>3, <2>4, ClaimEffect DEF InSession
  <2>5. CASE Load(h)
    <3>1. /\ pc[h] = "load" /\ Stays(h) /\ OthersKept(h) /\ SameRows
          /\ local'[h].req = reqStatus[Req(h)]
          /\ local'[h].doc = {t \in {TaskOf(h)} : receipt[t]}
      BY <1>0, <2>5, LoadEffect
    <3>2. Req(h) \in Requests
      BY <1>0, <3>1, Working
    <3>3. local'[h].req \in Final => completions'[Req(h)'] > 0
      BY <1>0, <3>1, <3>2 DEF VerdictAnnounced, SameRows, Stays
    <3>4. \A t \in local'[h].doc : receipt'[t]
      BY <3>1 DEF SameRows
    <3> QED BY <1>2, <3>1, <3>3, <3>4 DEF SessionBackedBy
  <2>6. CASE Execute(h)
    <3>1. /\ pc[h] = "execute" /\ pc'[h] = "commit" /\ Stays(h) /\ OthersKept(h) /\ SameRows
          /\ local'[h].req = local[h].req
      BY <1>0, <2>6, ExecuteEffect
    <3>2. PICK ok \in BOOLEAN : /\ local'[h].own = ResultStatus(h, ok)
                                /\ local'[h].doc = IF ok THEN {TaskOf(h)} ELSE local[h].doc
      BY <1>0, <2>6, ExecuteEffect
    <3>3. InSession(h)
      BY <3>1 DEF InSession
    <3>4. local'[h].req \in Final => completions'[Req(h)'] > 0
      BY <2>0, <3>1, <3>3 DEF SessionBackedBy, SameRows, Stays
    <3>5. ASSUME NEW t \in local'[h].doc
          PROVE  receipt'[t] \/ (t = TaskOf(h)' /\ local'[h].own = "succeeded")
      <4>1. CASE ok
        BY <3>1, <3>2, <3>5, <4>1 DEF ResultStatus, Stays
      <4>2. CASE ~ok
        BY <2>0, <3>1, <3>2, <3>3, <3>5, <4>2 DEF SessionBackedBy, SameRows
      <4> QED BY <4>1, <4>2
    <3> QED BY <1>2, <3>1, <3>4, <3>5 DEF SessionBackedBy
  <2>7. CASE CommitResult(h)
    <3>1. /\ pc[h] = "commit" /\ Stays(h) /\ OthersKept(h) /\ completions' = completions
          /\ local'[h].doc = local[h].doc
          /\ local'[h].req = local[h].req \/ local'[h].req = "verifying"
          /\ receipt'[TaskOf(h)] = (receipt[TaskOf(h)] \/ local[h].own = "succeeded")
          /\ \A t \in Tasks : t # TaskOf(h) => receipt'[t] = receipt[t]
      BY <1>0, <2>7, CommitEffect
    <3>2. InSession(h)
      BY <3>1 DEF InSession
    <3>3. local'[h].req \in Final => completions'[Req(h)'] > 0
      BY <2>0, <3>1, <3>2 DEF SessionBackedBy, Stays, Final
    <3>4. local[h].doc \in SUBSET Tasks
      BY <1>0, <3>1, Working, LocalType
    <3>5. \A t \in local'[h].doc : receipt'[t]
      BY <2>0, <3>1, <3>2, <3>4 DEF SessionBackedBy
    <3> QED BY <1>2, <3>1, <3>3, <3>5 DEF SessionBackedBy
  <2>8. CASE RefreshLoad(h)
    <3>1. /\ pc[h] = "refresh" /\ Stays(h) /\ OthersKept(h) /\ SameRows
          /\ local'[h].req = IF local[h].dup THEN reqStatus[Req(h)] ELSE local[h].req
          /\ local'[h].doc = SeenReceipts(h)
      BY <1>0, <2>8, RefreshLoadEffect
    <3>2. Req(h) \in Requests
      BY <1>0, <3>1, Working
    <3>3. ~local[h].dup => InSession(h)
      BY <3>1 DEF InSession
    <3>4. local'[h].req \in Final => completions'[Req(h)'] > 0
      BY <1>0, <2>0, <3>1, <3>2, <3>3 DEF VerdictAnnounced, SessionBackedBy, SameRows, Stays
    <3>5. \A t \in local'[h].doc : receipt'[t]
      BY <2>0, <3>1, <3>3 DEF SeenReceipts, SessionBackedBy, SameRows
    <3> QED BY <1>2, <3>1, <3>4, <3>5 DEF SessionBackedBy
  <2>9. CASE PutArtifact(h)
    <3>1. /\ pc[h] = "artifact" /\ Stays(h) /\ OthersKept(h) /\ SameRows
          /\ local'[h].req = local[h].req /\ local'[h].doc = local[h].doc
      BY <1>0, <2>9, PutEffect
    <3>2. InSession(h)
      BY <3>1 DEF InSession
    <3> QED BY <1>2, <2>0, <3>1, <3>2 DEF SessionBackedBy, SameRows, Stays
  <2>10. CASE RefreshCommit(h)
    BY <1>0, <1>3, <2>10, RefreshCommitEffect DEF InSession
  <2>11. CASE Ack(h)
    BY <1>0, <1>3, <2>11, AckEffect DEF InSession
  <2> QED BY <1>4, <2>1, <2>2, <2>3, <2>4, <2>5, <2>6, <2>7, <2>8, <2>9, <2>10, <2>11
       DEF Moves, Leaves, HandlerStep
<1> QED BY <1>1, <1>4, StepKinds

\* A terminal request status that was not there is announced with it, or by
\* the commit that its session saw.
LEMMA AnnouncedStep == ASSUME BackedInv, [Next]_vars PROVE VerdictAnnounced'
<1>0. TypeInv /\ SessionBacked /\ VerdictAnnounced
  BY DEF BackedInv, TypeInv
<1> SUFFICES ASSUME NEW r \in Requests, reqStatus'[r] \in Final PROVE completions'[r] > 0
  BY DEF VerdictAnnounced
<1>1. CASE reqStatus'[r] = reqStatus[r]
  BY <1>0, <1>1, Monotone DEF VerdictAnnounced
<1>2. ASSUME NEW h \in Handlers, r = Req(h), Claim(h) \/ CommitResult(h)
      PROVE  reqStatus'[r] = reqStatus[r]
  <2>1. reqStatus'[r] = reqStatus[r] \/ reqStatus'[r] \in {"running", "verifying"}
    BY <1>0, <1>2, ClaimEffect, CommitEffect
  <2> QED BY <2>1 DEF Final
<1>3. ASSUME NEW h \in Handlers, r = Req(h), RefreshCommit(h), reqStatus'[r] # reqStatus[r]
      PROVE  completions'[r] > 0
  <2>1. /\ pc[h] = "store" /\ local[h].verdict \in Final
        /\ completions'[r] = IF BecameTerminal(h) THEN completions[r] + 1 ELSE completions[r]
    BY <1>0, <1>3, RefreshCommitEffect
  <2>2. InSession(h) /\ SessionBackedBy(h)
    BY <1>0, <2>1 DEF InSession, SessionBacked
  <2>3. completions[r] \in Nat
    BY <1>0 DEF TypeInv, TypeOK, RequestTypes
  <2>4. CASE local[h].req \in Final
    BY <1>3, <2>1, <2>2, <2>4 DEF SessionBackedBy, BecameTerminal
  <2>5. CASE local[h].req \notin Final
    BY <2>1, <2>3, <2>5 DEF BecameTerminal
  <2> QED BY <2>4, <2>5
<1> QED BY <1>0, <1>1, <1>2, <1>3, RequestRowStep

\* A success comes with its receipt and audit event, and the object store
\* gets committed receipts only.
LEMMA SuccessStep == ASSUME BackedInv, [Next]_vars PROVE SuccessIsBacked'
<1>0. TypeInv /\ SessionBacked /\ SuccessIsBacked
  BY DEF BackedInv, TypeInv
<1> DEFINE Backed(t) == /\ receipt'[t]
                        /\ \E i \in DOMAIN trail'[t] : trail'[t][i].action = "succeeded"
<1>1. ASSUME NEW t \in Tasks, status'[t] = "succeeded" PROVE Backed(t)
  <2>1. CASE status'[t] = status[t]
    BY <1>0, <1>1, <2>1, Monotone DEF SuccessIsBacked
  <2>2. ASSUME NEW h \in Handlers, t = TaskOf(h), CommitResult(h) PROVE Backed(t)
    <3>1. /\ Entry(h) \in AuditEntry /\ trail'[t] = Append(trail[t], Entry(h))
          /\ receipt'[t] = (receipt[t] \/ local[h].own = "succeeded")
          /\ status'[t] = local[h].own
      BY <1>0, <2>2, CommitEffect
    <3>2. trail[t] \in Seq(AuditEntry)
      BY <1>0 DEF TypeInv, TypeOK, TaskTypes
    <3>3. Len(trail'[t]) \in DOMAIN trail'[t] /\ trail'[t][Len(trail'[t])] = Entry(h)
      BY <3>1, <3>2
    <3>4. Entry(h).action = "succeeded"
      BY <1>1, <3>1 DEF Entry, Action
    <3> QED BY <1>1, <3>1, <3>3, <3>4
  <2>3. ASSUME NEW h \in Handlers, t = TaskOf(h), Claim(h) PROVE FALSE
    BY <1>0, <1>1, <2>3, ClaimEffect
  <2> QED BY <1>0, <2>1, <2>2, <2>3, TaskRowStep
<1>2. ASSUME NEW r \in Requests, NEW t \in object'[r] PROVE receipt'[t]
  <2>1. CASE object'[r] = object[r]
    <3>1. t \in Tasks
      BY <1>0, <1>2, <2>1 DEF TypeInv, TypeOK, RequestTypes
    <3> QED BY <1>0, <1>2, <2>1, <3>1, Monotone DEF SuccessIsBacked
  <2>2. ASSUME NEW h \in Handlers, r = Req(h), PutArtifact(h) PROVE receipt'[t]
    <3>1. pc[h] = "artifact" /\ SameRows /\ object'[r] = local[h].doc
      BY <1>0, <2>2, PutEffect
    <3> QED BY <1>0, <1>2, <3>1 DEF SessionBacked, SessionBackedBy, InSession, SameRows
  <2> QED BY <1>0, <2>1, <2>2, ObjectStep
<1> QED BY <1>1, <1>2 DEF SuccessIsBacked

\* BackedInv is inductive: it holds in every reachable state, also when
\* heartbeats fail and several handlers execute one task.
THEOREM BackedInvariant == Spec => []BackedInv
<1>1. Init => BackedInv
  <2> SUFFICES ASSUME Init PROVE BackedInv
    OBVIOUS
  <2>1. TypeOK /\ HandlerOK
    BY TypeInit DEF TypeInv
  <2>2. SessionBacked
    BY DEF Init, SessionBacked, SessionBackedBy, InSession
  <2>3. VerdictAnnounced /\ SuccessIsBacked
    BY DEF Init, VerdictAnnounced, SuccessIsBacked, Final
  <2> QED BY <2>1, <2>2, <2>3 DEF BackedInv
<1>2. BackedInv /\ [Next]_vars => BackedInv'
  <2> SUFFICES ASSUME BackedInv, [Next]_vars PROVE BackedInv'
    OBVIOUS
  <2>1. TypeOK' /\ HandlerOK'
    BY TypeStep DEF BackedInv, TypeInv
  <2> QED BY <2>1, SessionBackedStep, AnnouncedStep, SuccessStep DEF BackedInv
<1> QED BY <1>1, <1>2, PTL DEF Spec

\* A request that reads completed, partial or failed was announced by
\* refresh_request_status with the commit that made it so, on every path and
\* also when heartbeats fail.
THEOREM TerminalAnnounced == Spec => []VerdictAnnounced
<1>1. BackedInv => VerdictAnnounced
  BY DEF BackedInv
<1> QED BY <1>1, BackedInvariant, PTL

\* A succeeded task has its receipt and its audit event, and every receipt in
\* a stored artifact is a committed one, also when heartbeats fail.
THEOREM SuccessBacked == Spec => []SuccessIsBacked
<1>1. BackedInv => SuccessIsBacked
  BY DEF BackedInv
<1> QED BY <1>1, BackedInvariant, PTL
=============================================================================
