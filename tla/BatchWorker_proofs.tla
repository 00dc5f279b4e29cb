------------------------- MODULE BatchWorker_proofs -------------------------
(***************************************************************************)
(* Proofs about BatchWorker for any number of requests, tasks, seeds and   *)
(* process_once calls, and any batch size: leases separate batches,        *)
(* verdicts are backed, downloads are whole and deletes are verified.      *)
(***************************************************************************)
EXTENDS BatchWorker, WellFoundedInduction, TLAPS

-----------------------------------------------------------------------------
(* The operators of the model.                                               *)

\* A set of numbers that is not empty has a minimal element for a well-founded
\* relation.
LEMMA MinimalNat ==
    ASSUME NEW R, IsWellFoundedOn(R, Nat), NEW S, S \subseteq Nat, S # {}
    PROVE \E x \in S : \A y \in S : ~(<<y, x>> \in R)
BY WFMin

\* And a least element.
LEMMA LeastNat ==
    ASSUME NEW S, S \subseteq Nat, S # {}
    PROVE \E x \in S : \A y \in S : x <= y
<1>1. \E R : IsWellFoundedOn(R, Nat) /\ \A x, y \in Nat : x < y => <<x, y>> \in R
  <2>1. \A x, y \in Nat : x < y => <<x, y>> \in OpToRel(<, Nat)
      BY DEF OpToRel
  <2> QED
      BY <2>1, NatLessThanWellFounded, Zenon
<1>2. PICK R : IsWellFoundedOn(R, Nat) /\ \A x, y \in Nat : x < y => <<x, y>> \in R
    BY <1>1
<1>3. PICK x \in S : \A y \in S : ~(<<y, x>> \in R)
  <2>1. IsWellFoundedOn(R, Nat)
      BY <1>2
  <2> QED
      BY <2>1, MinimalNat
<1>4. ASSUME NEW y \in S PROVE x <= y
  <2>1. x \in Nat /\ y \in Nat /\ ~(<<y, x>> \in R)
      BY <1>3
  <2>2. ~(y < x)
      BY <1>2, <2>1
  <2> QED
      BY <2>1, <2>2
<1> QED
    BY <1>4

\* The first of some tasks is one of them.
LEMMA FirstIn ==
    ASSUME NEW S \in SUBSET Tasks, S # {}
    PROVE First(S) \in S
<1>1. S \subseteq Nat
    BY BatchAssumption DEF Tasks
<1>2. \E x \in S : \A y \in S : x <= y
    BY <1>1, LeastNat
<1> QED
    BY <1>2 DEF First

\* A final status is computed only from terminal tasks.
LEMMA AggregateFacts ==
    ASSUME NEW S, S \subseteq TaskStates
    PROVE /\ Aggregate(S) \in RequestStates
          /\ Aggregate(S) \in Final => S \subseteq Terminal
BY DEF Aggregate, TaskStates, RequestStates, Terminal, Final

\* A SELECT fills a session from the database and overwrites nothing.
LEMMA ReadFacts ==
    ASSUME TypeOK, NEW c \in Sessions, NEW T \in SUBSET Tasks, NEW r \in Requests
    PROVE /\ Read(c, T, r) \in Sessions
          /\ \A t \in Tasks : /\ Read(c, T, r).tasks[t] \in {c.tasks[t], status[t]}
                              /\ t \in T => Read(c, T, r).tasks[t] # "unread"
          /\ \A q \in Requests : /\ Read(c, T, r).req[q] \in {c.req[q], reqStatus[q]}
                                 /\ Read(c, T, r).art[q] \in {c.art[q], artifact[q]}
<1>1. /\ status \in [Tasks -> TaskStates] /\ reqStatus \in [Requests -> RequestStates]
      /\ artifact \in [Requests -> BOOLEAN]
    BY DEF TypeOK
<1>2. \A t \in Tasks : status[t] # "unread"
    BY <1>1 DEF TaskStates, Terminal
<1>3. /\ c.tasks \in [Tasks -> TaskStates \union {"unread"}]
      /\ c.req \in [Requests -> RequestStates \union {"unread"}]
      /\ c.art \in [Requests -> BOOLEAN]
    BY DEF Sessions
<1>4. Read(c, T, r) \in Sessions
    BY <1>1, <1>3 DEF Read, Sessions
<1>5. \A t \in Tasks : /\ Read(c, T, r).tasks[t] \in {c.tasks[t], status[t]}
                       /\ t \in T => Read(c, T, r).tasks[t] # "unread"
    BY <1>2, <1>3 DEF Read
<1>6. \A q \in Requests : /\ Read(c, T, r).req[q] \in {c.req[q], reqStatus[q]}
                          /\ Read(c, T, r).art[q] \in {c.art[q], artifact[q]}
    BY <1>3 DEF Read
<1> QED
    BY <1>4, <1>5, <1>6

\* A collection only forgets.
LEMMA CollectedFacts ==
    ASSUME NEW c \in Sessions, NEW r \in Requests
    PROVE /\ Collected(c, r) \in Sessions
          /\ \A t \in Tasks : Collected(c, r).tasks[t] \in {c.tasks[t], "unread"}
          /\ \A q \in Requests : /\ Collected(c, r).req[q] \in {c.req[q], "unread"}
                                 /\ Collected(c, r).art[q] = c.art[q]
BY DEF Collected, Sessions

\* A new session holds nothing.
LEMMA EmptyFacts ==
    /\ Empty \in Sessions
    /\ \A t \in Tasks : Empty.tasks[t] = "unread"
    /\ \A q \in Requests : Empty.req[q] = "unread" /\ Empty.art[q] = FALSE
BY DEF Empty, Sessions

\* Batches claim only claimable tasks.
LEMMA OldestFacts ==
    ASSUME NEW t \in Oldest({u \in Tasks : Claimable(u)})
    PROVE t \in Tasks /\ Claimable(t)
BY DEF Oldest

-----------------------------------------------------------------------------
(* What the steps of a batch do to its session and to other batches.         *)

\* A step of b: what it keeps of another batch.
OthersKept(b) ==
    \A c \in Batches \ {b} :
        /\ pc'[c] = pc[c] /\ todo'[c] = todo[c] /\ task'[c] = task[c]
        /\ cache'[c] = cache[c] /\ found'[c] = found[c] /\ checked'[c] = checked[c]

\* The session of b keeps what it has, forgets it, or reads it.
TasksRead(b) ==
    \A t \in Tasks : cache'[b].tasks[t] \in {cache[b].tasks[t], status[t], "unread"}
RequestsRead(b) ==
    \A q \in Requests :
        cache'[b].req[q] \in {cache[b].req[q], reqStatus[q], "unread", "verifying"}
ArtifactsRead(b) ==
    \A q \in Requests : cache'[b].art[q] => cache[b].art[q] \/ artifact[q]

\* Steps that do not touch the rows of tasks, or of requests, or the store.
TaskRowsKept == status' = status /\ live' = live
RequestRowsKept ==
    reqStatus' = reqStatus /\ artifact' = artifact /\ announced' = announced
FilesKept == temporary' = temporary /\ file' = file

\* The end of a call, or its next task.
LEMMA ContinueEffect ==
    ASSUME TypeOK, NEW b \in Batches, NEW rest \in SUBSET Tasks,
           NEW c \in Sessions, Continue(b, rest, c)
    PROVE /\ OthersKept(b)
          /\ pc' \in [Batches -> Labels] /\ todo' \in [Batches -> SUBSET Tasks]
          /\ task' \in [Batches -> Tasks \union {NoTask}]
          /\ cache' \in [Batches -> Sessions]
          /\ DOMAIN found' = Batches /\ DOMAIN checked' = Batches
          /\ pc'[b] \in {"idle", "next"} /\ todo'[b] = rest
          /\ pc'[b] = "next" => rest # {}
          /\ cache'[b] \in {c, Empty}
<1>1. /\ pc \in [Batches -> Labels] /\ todo \in [Batches -> SUBSET Tasks]
      /\ task \in [Batches -> Tasks \union {NoTask}]
      /\ cache \in [Batches -> Sessions]
      /\ DOMAIN found = Batches /\ DOMAIN checked = Batches
    BY DEF TypeOK
<1>2. CASE rest = {} /\ EndBatch(b)
    BY <1>1, <1>2, EmptyFacts DEF EndBatch, OthersKept, Labels
<1>3. CASE rest # {}
    BY <1>1, <1>3 DEF Continue, OthersKept, Labels
<1> QED
    BY <1>2, <1>3 DEF Continue

\* The end of a call.
LEMMA EndEffect ==
    ASSUME TypeOK, NEW b \in Batches, EndBatch(b)
    PROVE /\ OthersKept(b)
          /\ pc' \in [Batches -> Labels] /\ todo' \in [Batches -> SUBSET Tasks]
          /\ task' \in [Batches -> Tasks \union {NoTask}]
          /\ cache' \in [Batches -> Sessions]
          /\ DOMAIN found' = Batches /\ DOMAIN checked' = Batches
          /\ pc'[b] = "idle" /\ todo'[b] = {} /\ cache'[b] = Empty
BY EmptyFacts DEF TypeOK, EndBatch, OthersKept, Labels

\* Loading a task.
LEMMA LoadEffect ==
    ASSUME TypeOK, NEW b \in Batches, PhaseOK(b), Load(b)
    PROVE /\ pc[b] = "next" /\ First(todo[b]) \in todo[b]
          /\ task' = [task EXCEPT ![b] = First(todo[b])]
          /\ todo' = [todo EXCEPT ![b] = @ \ {First(todo[b])}]
          /\ pc' = [pc EXCEPT ![b] = "execute"]
          /\ found' = found /\ checked' = checked
          /\ cache' \in [Batches -> Sessions]
          /\ OthersKept(b) /\ TasksRead(b) /\ RequestsRead(b) /\ ArtifactsRead(b)
          /\ TaskRowsKept /\ RequestRowsKept /\ FilesKept
          /\ rowLock' = rowLock /\ seeded' = seeded /\ deleted' = deleted
          /\ overruns' = overruns
<1> DEFINE t == First(todo[b])
           r == RequestOf[t]
<1>1. /\ pc \in [Batches -> Labels] /\ todo \in [Batches -> SUBSET Tasks]
      /\ task \in [Batches -> Tasks \union {NoTask}]
      /\ cache \in [Batches -> Sessions]
    BY DEF TypeOK
<1>2. /\ pc[b] = "next"
      /\ task' = [task EXCEPT ![b] = t]
      /\ todo' = [todo EXCEPT ![b] = @ \ {t}]
      /\ pc' = [pc EXCEPT ![b] = "execute"]
      /\ found' = found /\ checked' = checked
      /\ TaskRowsKept /\ RequestRowsKept /\ FilesKept
      /\ rowLock' = rowLock /\ seeded' = seeded /\ deleted' = deleted
      /\ overruns' = overruns
    BY DEF Load, TaskRowsKept, RequestRowsKept, FilesKept, taskVars, requestVars,
           recordVars, fileVars, boundVars
<1>3. t \in todo[b] /\ t \in Tasks /\ r \in Requests
    BY <1>1, <1>2, FirstIn, BatchAssumption DEF PhaseOK
<1>4. PICK c \in {cache[b], Collected(cache[b], r)} :
            cache' = [cache EXCEPT ![b] = Read(c, {t}, r)]
    BY DEF Load
<1> HIDE DEF t, r
<1>5. cache[b] \in Sessions
    BY <1>1
<1>6. /\ c \in Sessions
      /\ \A u \in Tasks : c.tasks[u] \in {cache[b].tasks[u], "unread"}
      /\ \A q \in Requests : /\ c.req[q] \in {cache[b].req[q], "unread"}
                             /\ c.art[q] = cache[b].art[q]
    BY <1>3, <1>4, <1>5, CollectedFacts
<1> DEFINE n == Read(c, {t}, r)
<1>7. /\ n \in Sessions
      /\ \A u \in Tasks : n.tasks[u] \in {c.tasks[u], status[u]}
      /\ \A q \in Requests : /\ n.req[q] \in {c.req[q], reqStatus[q]}
                             /\ n.art[q] \in {c.art[q], artifact[q]}
    BY <1>3, <1>6, ReadFacts
<1>8. cache' = [cache EXCEPT ![b] = n]
    BY <1>4
<1> HIDE DEF n
<1>9. cache' \in [Batches -> Sessions] /\ cache'[b] = n
      /\ \A d \in Batches \ {b} : cache'[d] = cache[d]
    BY <1>1, <1>7, <1>8
<1>10. TasksRead(b) /\ RequestsRead(b) /\ ArtifactsRead(b)
    BY <1>6, <1>7, <1>9 DEF TasksRead, RequestsRead, ArtifactsRead
<1>11. OthersKept(b)
    BY <1>1, <1>2, <1>9 DEF OthersKept
<1> QED
    BY <1>2, <1>3, <1>9, <1>10, <1>11 DEF t, r

\* The SELECT ... FOR UPDATE of the refresh.
LEMMA RefreshLoadEffect ==
    ASSUME TypeOK, NEW b \in Batches, PhaseOK(b), RefreshLoad(b)
    PROVE /\ pc[b] = "refresh" /\ task[b] \in Tasks /\ Req(b) \in Requests
          /\ rowLock[Req(b)] = NoBatch
          /\ rowLock' = [rowLock EXCEPT ![Req(b)] = b]
          /\ pc' \in [Batches -> Labels] /\ pc'[b] \in {"open", "store"}
          /\ pc'[b] = "open" <=>
                /\ KindOf[Req(b)] = "access"
                /\ ~cache'[b].art[Req(b)]
                /\ Aggregate({cache'[b].tasks[t] : t \in TasksOf(Req(b))})
                     \in {"completed", "partial"}
          /\ task' = task /\ todo' = todo /\ found' = found /\ checked' = checked
          /\ cache' \in [Batches -> Sessions]
          /\ \A t \in TasksOf(Req(b)) : cache'[b].tasks[t] # "unread"
          /\ OthersKept(b) /\ TasksRead(b) /\ RequestsRead(b) /\ ArtifactsRead(b)
          /\ TaskRowsKept /\ RequestRowsKept /\ FilesKept
          /\ seeded' = seeded /\ deleted' = deleted /\ overruns' = overruns
<1> DEFINE r == Req(b)
           n == Read(cache[b], TasksOf(r), r)
<1>1. /\ pc \in [Batches -> Labels] /\ todo \in [Batches -> SUBSET Tasks]
      /\ task \in [Batches -> Tasks \union {NoTask}]
      /\ cache \in [Batches -> Sessions] /\ cache[b] \in Sessions
    BY DEF TypeOK
<1>2. /\ pc[b] = "refresh" /\ rowLock[r] = NoBatch
      /\ rowLock' = [rowLock EXCEPT ![r] = b]
      /\ cache' = [cache EXCEPT ![b] = n]
      /\ pc' = [pc EXCEPT ![b] =
                   IF NeedsArtifact(n, r, Aggregate({n.tasks[t] : t \in TasksOf(r)}))
                   THEN "open" ELSE "store"]
      /\ task' = task /\ todo' = todo /\ found' = found /\ checked' = checked
      /\ TaskRowsKept /\ RequestRowsKept /\ FilesKept
      /\ seeded' = seeded /\ deleted' = deleted /\ overruns' = overruns
    BY DEF RefreshLoad, Unlocked, TaskRowsKept, RequestRowsKept, FilesKept,
           taskVars, requestVars, recordVars, fileVars, boundVars
<1>3. task[b] \in Tasks /\ r \in Requests /\ TasksOf(r) \in SUBSET Tasks
    BY <1>2, BatchAssumption DEF PhaseOK, Req, TasksOf
<1> HIDE DEF r
<1>4. /\ n \in Sessions
      /\ \A u \in Tasks : /\ n.tasks[u] \in {cache[b].tasks[u], status[u]}
                          /\ u \in TasksOf(r) => n.tasks[u] # "unread"
      /\ \A q \in Requests : /\ n.req[q] \in {cache[b].req[q], reqStatus[q]}
                             /\ n.art[q] \in {cache[b].art[q], artifact[q]}
    BY <1>1, <1>3, ReadFacts
<1> HIDE DEF n
<1>5. cache' \in [Batches -> Sessions] /\ cache'[b] = n
      /\ \A d \in Batches \ {b} : cache'[d] = cache[d]
    BY <1>1, <1>2, <1>4
<1>6. TasksRead(b) /\ RequestsRead(b) /\ ArtifactsRead(b)
    BY <1>4, <1>5 DEF TasksRead, RequestsRead, ArtifactsRead
<1>7. OthersKept(b)
    BY <1>1, <1>2, <1>5 DEF OthersKept
<1>8. /\ pc' \in [Batches -> Labels] /\ pc'[b] \in {"open", "store"}
      /\ pc'[b] = "open" <=>
            /\ KindOf[r] = "access" /\ ~n.art[r]
            /\ Aggregate({n.tasks[t] : t \in TasksOf(r)}) \in {"completed", "partial"}
    BY <1>1, <1>2 DEF NeedsArtifact, Labels
<1>9. \A t \in TasksOf(r) : n.tasks[t] # "unread"
    BY <1>3, <1>4
<1> QED
    BY <1>2, <1>3, <1>5, <1>6, <1>7, <1>8, <1>9 DEF r

\* The types of what a batch keeps for itself.
BatchTyped ==
    /\ pc \in [Batches -> Labels] /\ todo \in [Batches -> SUBSET Tasks]
    /\ task \in [Batches -> Tasks \union {NoTask}]
    /\ cache \in [Batches -> Sessions]
    /\ DOMAIN found = Batches /\ DOMAIN checked = Batches

\* Executing an access task.
LEMMA ExecuteAccessEffect ==
    ASSUME TypeOK, NEW b \in Batches, PhaseOK(b), ExecuteAccess(b)
    PROVE /\ pc[b] = "execute" /\ task[b] \in Tasks /\ KindOf[Req(b)] = "access"
          /\ pc' = [pc EXCEPT ![b] = "commit"] /\ BatchTyped'
          /\ cache'[b].tasks = [cache[b].tasks EXCEPT ![task[b]] = "succeeded"]
          /\ task' = task /\ todo' = todo /\ found' = found /\ checked' = checked
          /\ OthersKept(b) /\ RequestsRead(b) /\ ArtifactsRead(b)
          /\ TaskRowsKept /\ RequestRowsKept /\ FilesKept /\ rowLock' = rowLock
          /\ seeded' = seeded /\ deleted' = deleted /\ overruns' = overruns
<1>1. BatchTyped
    BY DEF TypeOK, BatchTyped
<1>2. /\ pc[b] = "execute" /\ KindOf[Req(b)] = "access"
      /\ pc' = [pc EXCEPT ![b] = "commit"]
      /\ cache' = [cache EXCEPT ![b].tasks[task[b]] = "succeeded"]
      /\ task' = task /\ todo' = todo /\ found' = found /\ checked' = checked
      /\ TaskRowsKept /\ RequestRowsKept /\ FilesKept /\ rowLock' = rowLock
      /\ seeded' = seeded /\ deleted' = deleted /\ overruns' = overruns
    BY DEF ExecuteAccess, TaskRowsKept, RequestRowsKept, FilesKept, taskVars,
           requestVars, recordVars, fileVars, boundVars
<1>3. task[b] \in Tasks
    BY <1>2 DEF PhaseOK
<1>4. cache[b] \in Sessions
    BY <1>1 DEF BatchTyped
<1>5. /\ cache' \in [Batches -> Sessions]
      /\ cache'[b].tasks = [cache[b].tasks EXCEPT ![task[b]] = "succeeded"]
      /\ cache'[b].req = cache[b].req /\ cache'[b].art = cache[b].art
      /\ \A d \in Batches \ {b} : cache'[d] = cache[d]
    BY <1>1, <1>2, <1>3, <1>4 DEF BatchTyped, Sessions, TaskStates, Terminal
<1> QED
    BY <1>1, <1>2, <1>3, <1>5
       DEF BatchTyped, OthersKept, RequestsRead, ArtifactsRead, Labels

\* Selecting the records of a delete.
LEMMA SelectEffect ==
    ASSUME TypeOK, NEW b \in Batches, PhaseOK(b), SelectRecords(b)
    PROVE /\ pc[b] = "execute" /\ task[b] \in Tasks /\ KindOf[Req(b)] = "delete"
          /\ pc' = [pc EXCEPT ![b] = "delete"] /\ BatchTyped'
          /\ task' = task /\ todo' = todo /\ checked' = checked
          /\ \/ rowLock' = rowLock
             \/ rowLock[Req(b)] = NoBatch /\ rowLock' = [rowLock EXCEPT ![Req(b)] = b]
          /\ OthersKept(b) /\ TasksRead(b) /\ RequestsRead(b) /\ ArtifactsRead(b)
          /\ TaskRowsKept /\ RequestRowsKept /\ FilesKept
          /\ seeded' = seeded /\ deleted' = deleted /\ overruns' = overruns
<1>1. BatchTyped
    BY DEF TypeOK, BatchTyped
<1>2. /\ pc[b] = "execute" /\ KindOf[Req(b)] = "delete"
      /\ pc' = [pc EXCEPT ![b] = "delete"]
      /\ cache' = [cache EXCEPT ![b].req[Req(b)] = "verifying"]
      /\ found' = [found EXCEPT ![b] = Active(SourceOf[task[b]])]
      /\ task' = task /\ todo' = todo /\ checked' = checked
      /\ \/ rowLock' = rowLock
         \/ rowLock[Req(b)] = NoBatch /\ rowLock' = [rowLock EXCEPT ![Req(b)] = b]
      /\ TaskRowsKept /\ RequestRowsKept /\ FilesKept
      /\ seeded' = seeded /\ deleted' = deleted /\ overruns' = overruns
    BY DEF SelectRecords, Unlocked, TaskRowsKept, RequestRowsKept, FilesKept,
           taskVars, requestVars, recordVars, fileVars, boundVars
<1>3. task[b] \in Tasks /\ Req(b) \in Requests
    BY <1>2, BatchAssumption DEF PhaseOK, Req
<1>4. cache[b] \in Sessions
    BY <1>1 DEF BatchTyped
<1>5. /\ cache' \in [Batches -> Sessions]
      /\ cache'[b].tasks = cache[b].tasks /\ cache'[b].art = cache[b].art
      /\ cache'[b].req = [cache[b].req EXCEPT ![Req(b)] = "verifying"]
      /\ \A d \in Batches \ {b} : cache'[d] = cache[d]
    BY <1>1, <1>2, <1>3, <1>4 DEF BatchTyped, Sessions, RequestStates
<1>6. TasksRead(b) /\ RequestsRead(b) /\ ArtifactsRead(b)
    BY <1>4, <1>5 DEF TasksRead, RequestsRead, ArtifactsRead, Sessions
<1> QED
    BY <1>1, <1>2, <1>3, <1>5, <1>6 DEF BatchTyped, OthersKept, Labels

\* The readback of a delete.
LEMMA DeleteEffect ==
    ASSUME TypeOK, NEW b \in Batches, PhaseOK(b), DeleteRecords(b)
    PROVE /\ pc[b] = "delete" /\ task[b] \in Tasks
          /\ pc' = [pc EXCEPT ![b] = "commit"] /\ BatchTyped'
          /\ cache'[b].tasks = [cache[b].tasks EXCEPT ![task[b]] =
                                   IF Remaining(b) = {} THEN "succeeded" ELSE "failed"]
          /\ checked' = [checked EXCEPT ![b] = seeded]
          /\ task' = task /\ todo' = todo /\ found' = found
          /\ OthersKept(b) /\ RequestsRead(b) /\ ArtifactsRead(b)
          /\ TaskRowsKept /\ RequestRowsKept /\ FilesKept /\ rowLock' = rowLock
          /\ seeded' = seeded /\ deleted' = deleted /\ overruns' = overruns
<1> DEFINE result == IF Remaining(b) = {} THEN "succeeded" ELSE "failed"
<1>1. BatchTyped
    BY DEF TypeOK, BatchTyped
<1>2. /\ pc[b] = "delete"
      /\ pc' = [pc EXCEPT ![b] = "commit"]
      /\ cache' = [cache EXCEPT ![b].tasks[task[b]] = result]
      /\ checked' = [checked EXCEPT ![b] = seeded]
      /\ task' = task /\ todo' = todo /\ found' = found
      /\ TaskRowsKept /\ RequestRowsKept /\ FilesKept /\ rowLock' = rowLock
      /\ seeded' = seeded /\ deleted' = deleted /\ overruns' = overruns
    BY DEF DeleteRecords, TaskRowsKept, RequestRowsKept, FilesKept, taskVars,
           requestVars, recordVars, fileVars, boundVars
<1>3. task[b] \in Tasks /\ result \in Terminal
    BY <1>2 DEF PhaseOK, Terminal
<1>4. cache[b] \in Sessions
    BY <1>1 DEF BatchTyped
<1> HIDE DEF result
<1>5. /\ cache' \in [Batches -> Sessions]
      /\ cache'[b].tasks = [cache[b].tasks EXCEPT ![task[b]] = result]
      /\ cache'[b].req = cache[b].req /\ cache'[b].art = cache[b].art
      /\ \A d \in Batches \ {b} : cache'[d] = cache[d]
    BY <1>1, <1>2, <1>3, <1>4 DEF BatchTyped, Sessions, TaskStates
<1>6. RequestsRead(b) /\ ArtifactsRead(b)
    BY <1>5 DEF RequestsRead, ArtifactsRead
<1>7. OthersKept(b) /\ BatchTyped'
    BY <1>1, <1>2, <1>5 DEF BatchTyped, OthersKept, Labels
<1> QED
    BY <1>2, <1>3, <1>5, <1>6, <1>7 DEF result

\* The commit of a result.
LEMMA CommitResultEffect ==
    ASSUME TypeOK, NEW b \in Batches, PhaseOK(b), CommitResult(b)
    PROVE /\ pc[b] = "commit" /\ task[b] \in Tasks
          /\ cache[b].tasks[task[b]] \in Terminal
          /\ pc' = [pc EXCEPT ![b] = "refresh"] /\ BatchTyped'
          /\ status' = [status EXCEPT ![task[b]] = cache[b].tasks[task[b]]]
          /\ live' = [live EXCEPT ![task[b]] = FALSE]
          /\ deleted' = deleted \union found[b]
          /\ reqStatus' = [r \in Requests |-> IF rowLock[r] = b THEN "verifying"
                                                                ELSE reqStatus[r]]
          /\ rowLock' = Released(b)
          /\ artifact' = artifact /\ announced' = announced
          /\ todo' = todo /\ task' = task /\ cache' = cache /\ found' = found
          /\ checked' = checked
          /\ OthersKept(b) /\ TasksRead(b) /\ RequestsRead(b) /\ ArtifactsRead(b)
          /\ FilesKept /\ seeded' = seeded /\ overruns' = overruns
<1>1. BatchTyped
    BY DEF TypeOK, BatchTyped
<1>2. /\ pc[b] = "commit"
      /\ pc' = [pc EXCEPT ![b] = "refresh"]
      /\ status' = [status EXCEPT ![task[b]] = cache[b].tasks[task[b]]]
      /\ live' = [live EXCEPT ![task[b]] = FALSE]
      /\ deleted' = deleted \union found[b]
      /\ reqStatus' = [r \in Requests |-> IF rowLock[r] = b THEN "verifying"
                                                            ELSE reqStatus[r]]
      /\ rowLock' = Released(b)
      /\ artifact' = artifact /\ announced' = announced
      /\ todo' = todo /\ task' = task /\ cache' = cache /\ found' = found
      /\ checked' = checked
      /\ FilesKept /\ seeded' = seeded /\ overruns' = overruns
    BY DEF CommitResult, FilesKept, fileVars, boundVars
<1>3. task[b] \in Tasks /\ cache[b].tasks[task[b]] \in Terminal
    BY <1>2 DEF PhaseOK
<1>4. OthersKept(b) /\ TasksRead(b) /\ RequestsRead(b) /\ ArtifactsRead(b)
    BY <1>1, <1>2 DEF BatchTyped, OthersKept, TasksRead, RequestsRead, ArtifactsRead
<1> QED
    BY <1>1, <1>2, <1>3, <1>4 DEF BatchTyped, Labels

\* The steps of put_json.
LEMMA StoreEffect ==
    ASSUME TypeOK, NEW b \in Batches, PhaseOK(b),
           OpenTemporary(b) \/ WriteTemporary(b) \/ ReplaceFile(b)
    PROVE /\ task[b] \in Tasks /\ Req(b) \in Requests
          /\ \/ /\ pc[b] = "open" /\ pc' = [pc EXCEPT ![b] = "write"]
                /\ temporary' = [temporary EXCEPT ![Req(b)] = Torn]
                /\ cache' = cache /\ file' = file
             \/ /\ pc[b] = "write" /\ pc' = [pc EXCEPT ![b] = "replace"]
                /\ temporary' = [temporary EXCEPT ![Req(b)] = Document(b)]
                /\ cache' = cache /\ file' = file
             \/ /\ pc[b] = "replace" /\ pc' = [pc EXCEPT ![b] = "store"]
                /\ temporary' = [temporary EXCEPT ![Req(b)] = NoFile]
                /\ file' = [file EXCEPT ![Req(b)] = temporary[Req(b)]]
                /\ cache'[b].art = [cache[b].art EXCEPT ![Req(b)] = TRUE]
          /\ cache'[b].tasks = cache[b].tasks /\ cache'[b].req = cache[b].req
          /\ BatchTyped'
          /\ task' = task /\ todo' = todo /\ found' = found /\ checked' = checked
          /\ OthersKept(b) /\ TasksRead(b) /\ RequestsRead(b)
          /\ TaskRowsKept /\ RequestRowsKept /\ rowLock' = rowLock
          /\ seeded' = seeded /\ deleted' = deleted /\ overruns' = overruns
<1>1. BatchTyped
    BY DEF TypeOK, BatchTyped
<1>2. /\ task' = task /\ todo' = todo /\ found' = found /\ checked' = checked
      /\ TaskRowsKept /\ RequestRowsKept /\ rowLock' = rowLock
      /\ seeded' = seeded /\ deleted' = deleted /\ overruns' = overruns
    BY DEF OpenTemporary, WriteTemporary, ReplaceFile, TaskRowsKept, RequestRowsKept,
           taskVars, requestVars, recordVars, boundVars
<1>3. \/ /\ pc[b] = "open" /\ pc' = [pc EXCEPT ![b] = "write"]
         /\ temporary' = [temporary EXCEPT ![Req(b)] = Torn]
         /\ cache' = cache /\ file' = file
      \/ /\ pc[b] = "write" /\ pc' = [pc EXCEPT ![b] = "replace"]
         /\ temporary' = [temporary EXCEPT ![Req(b)] = Document(b)]
         /\ cache' = cache /\ file' = file
      \/ /\ pc[b] = "replace" /\ pc' = [pc EXCEPT ![b] = "store"]
         /\ temporary' = [temporary EXCEPT ![Req(b)] = NoFile]
         /\ file' = [file EXCEPT ![Req(b)] = temporary[Req(b)]]
         /\ cache' = [cache EXCEPT ![b].art[Req(b)] = TRUE]
    BY DEF OpenTemporary, WriteTemporary, ReplaceFile
<1>4. task[b] \in Tasks /\ Req(b) \in Requests
    BY <1>3, BatchAssumption DEF PhaseOK, Req
<1>5. cache[b] \in Sessions
    BY <1>1 DEF BatchTyped
<1>6. /\ cache' \in [Batches -> Sessions]
      /\ cache'[b].tasks = cache[b].tasks /\ cache'[b].req = cache[b].req
      /\ \A d \in Batches \ {b} : cache'[d] = cache[d]
  <2>1. CASE cache' = cache
      BY <1>1, <2>1 DEF BatchTyped
  <2>2. CASE cache' = [cache EXCEPT ![b].art[Req(b)] = TRUE]
      BY <1>1, <1>4, <1>5, <2>2 DEF BatchTyped, Sessions
  <2> QED
      BY <1>3, <2>1, <2>2
<1>7. cache' = [cache EXCEPT ![b].art[Req(b)] = TRUE] =>
          cache'[b].art = [cache[b].art EXCEPT ![Req(b)] = TRUE]
    BY <1>1, <1>4, <1>5 DEF BatchTyped, Sessions
<1>8. OthersKept(b) /\ TasksRead(b) /\ RequestsRead(b)
    BY <1>1, <1>2, <1>3, <1>6 DEF BatchTyped, OthersKept, TasksRead, RequestsRead
<1>9. BatchTyped'
    BY <1>1, <1>2, <1>3, <1>6 DEF BatchTyped, Labels
<1> QED
    BY <1>2, <1>3, <1>4, <1>6, <1>7, <1>8, <1>9

\* The commit of a refresh.
LEMMA RefreshCommitEffect ==
    ASSUME TypeOK, NEW b \in Batches, PhaseOK(b), RefreshCommit(b)
    PROVE /\ pc[b] = "store" /\ task[b] \in Tasks /\ Req(b) \in Requests
          /\ Verdict(b) \in RequestStates
          /\ reqStatus' = [reqStatus EXCEPT ![Req(b)] =
                              IF Verdict(b) # cache[b].req[Req(b)] THEN Verdict(b) ELSE @]
          /\ artifact' = [artifact EXCEPT ![Req(b)] = @ \/ cache[b].art[Req(b)]]
          /\ announced' = announced \union {s \in {Req(b)} : BecameTerminal(b)}
          /\ rowLock' = Released(b) /\ BatchTyped'
          /\ pc'[b] \in {"idle", "next"} /\ todo'[b] = todo[b]
          /\ pc'[b] = "next" => todo[b] # {}
          /\ OthersKept(b) /\ TasksRead(b) /\ ArtifactsRead(b)
          /\ \A q \in Requests : cache'[b].req[q] \in
                {IF q = Req(b) THEN Verdict(b) ELSE cache[b].req[q], "unread"}
          /\ TaskRowsKept /\ FilesKept
          /\ seeded' = seeded /\ deleted' = deleted /\ overruns' = overruns
<1> DEFINE r == Req(b)
           v == Verdict(b)
           n == [cache[b] EXCEPT !.req[r] = v]
<1>1. BatchTyped
    BY DEF TypeOK, BatchTyped
<1>2. /\ pc[b] = "store"
      /\ reqStatus' = [reqStatus EXCEPT ![r] = IF v # cache[b].req[r] THEN v ELSE @]
      /\ artifact' = [artifact EXCEPT ![r] = @ \/ cache[b].art[r]]
      /\ announced' = announced \union {s \in {r} : BecameTerminal(b)}
      /\ rowLock' = Released(b) /\ Continue(b, todo[b], n)
      /\ TaskRowsKept /\ FilesKept
      /\ seeded' = seeded /\ deleted' = deleted /\ overruns' = overruns
    BY DEF RefreshCommit, TaskRowsKept, FilesKept, taskVars, recordVars, fileVars,
           boundVars
<1>3. task[b] \in Tasks /\ r \in Requests
    BY <1>2, BatchAssumption DEF PhaseOK, Req
<1>4. v \in RequestStates
    BY DEF Verdict, Aggregate, RequestStates, Final
<1>5. cache[b] \in Sessions /\ todo[b] \in SUBSET Tasks
    BY <1>1 DEF BatchTyped
<1> HIDE DEF v, r
<1>6. /\ n \in Sessions /\ n.tasks = cache[b].tasks /\ n.art = cache[b].art
      /\ n.req = [cache[b].req EXCEPT ![r] = v]
    BY <1>3, <1>4, <1>5 DEF Sessions
<1> HIDE DEF n
<1>7. /\ OthersKept(b) /\ BatchTyped'
      /\ pc'[b] \in {"idle", "next"} /\ todo'[b] = todo[b]
      /\ pc'[b] = "next" => todo[b] # {}
      /\ cache'[b] \in {n, Empty}
    BY <1>2, <1>5, <1>6, ContinueEffect DEF BatchTyped
<1>8. TasksRead(b) /\ ArtifactsRead(b)
    BY <1>6, <1>7, EmptyFacts DEF TasksRead, ArtifactsRead
<1>9. \A q \in Requests : cache'[b].req[q] \in
                {IF q = r THEN v ELSE cache[b].req[q], "unread"}
    BY <1>5, <1>6, <1>7, EmptyFacts DEF Sessions
<1> QED
    BY <1>2, <1>3, <1>4, <1>7, <1>8, <1>9 DEF r, v

\* A task that was lost, and a crash.
LEMMA LeaveEffect ==
    ASSUME TypeOK, NEW b \in Batches, PhaseOK(b), LoadLost(b) \/ Crash(b)
    PROVE /\ BatchTyped' /\ pc'[b] \in {"idle", "next"}
          /\ todo'[b] \subseteq todo[b] /\ (pc'[b] = "next" => todo'[b] # {})
          /\ OthersKept(b) /\ TasksRead(b) /\ RequestsRead(b) /\ ArtifactsRead(b)
          /\ rowLock' \in {rowLock, Released(b)}
          /\ pc[b] # "next" => rowLock' = Released(b)
          /\ TaskRowsKept /\ RequestRowsKept /\ FilesKept
          /\ seeded' = seeded /\ deleted' = deleted /\ overruns' = overruns
<1>1. BatchTyped
    BY DEF TypeOK, BatchTyped
<1>2. cache[b] \in Sessions /\ todo[b] \in SUBSET Tasks
    BY <1>1 DEF BatchTyped
<1>3. /\ TaskRowsKept /\ RequestRowsKept /\ FilesKept
      /\ seeded' = seeded /\ deleted' = deleted /\ overruns' = overruns
      /\ rowLock' \in {rowLock, Released(b)}
      /\ pc[b] # "next" => rowLock' = Released(b)
    BY DEF LoadLost, Crash, TaskRowsKept, RequestRowsKept, FilesKept, taskVars,
           requestVars, recordVars, fileVars, boundVars
<1>4. /\ BatchTyped' /\ pc'[b] \in {"idle", "next"}
      /\ todo'[b] \subseteq todo[b] /\ (pc'[b] = "next" => todo'[b] # {})
      /\ OthersKept(b) /\ cache'[b] \in {cache[b], Empty}
  <2>1. CASE LoadLost(b)
    <3> DEFINE rest == todo[b] \ {First(todo[b])}
    <3>1. Continue(b, rest, cache[b]) /\ rest \in SUBSET Tasks
        BY <1>2, <2>1 DEF LoadLost
    <3>2. rest \subseteq todo[b]
        OBVIOUS
    <3> HIDE DEF rest
    <3> QED
        BY <1>2, <3>1, <3>2, ContinueEffect DEF BatchTyped
  <2>2. CASE Crash(b)
      BY <2>2, EndEffect DEF Crash, BatchTyped
  <2> QED
      BY <2>1, <2>2
<1>5. TasksRead(b) /\ RequestsRead(b) /\ ArtifactsRead(b)
    BY <1>4, EmptyFacts DEF TasksRead, RequestsRead, ArtifactsRead
<1> QED
    BY <1>3, <1>4, <1>5

\* A claim.
LEMMA ClaimEffect ==
    ASSUME TypeOK, NEW b \in Batches, PhaseOK(b), Claim(b)
    PROVE /\ pc[b] = "idle" /\ pc' = [pc EXCEPT ![b] = "next"] /\ BatchTyped'
          /\ todo'[b] # {} /\ todo'[b] \subseteq Tasks
          /\ \A t \in todo'[b] : Claimable(t)
          /\ status' = [t \in Tasks |-> IF t \in todo'[b] THEN "running" ELSE status[t]]
          /\ live' = [t \in Tasks |-> t \in todo'[b] \/ live[t]]
          /\ reqStatus' \in [Requests -> RequestStates]
          /\ \A r \in Requests : reqStatus'[r] \in {reqStatus[r], "running"}
          /\ artifact' = artifact /\ announced' = announced
          /\ task' = task /\ cache' = cache /\ found' = found /\ checked' = checked
          /\ OthersKept(b) /\ TasksRead(b) /\ RequestsRead(b) /\ ArtifactsRead(b)
          /\ FilesKept /\ rowLock' = rowLock
          /\ seeded' = seeded /\ deleted' = deleted /\ overruns' = overruns
<1> DEFINE S == Oldest({t \in Tasks : Claimable(t)})
           R == {RequestOf[t] : t \in S}
<1>1. BatchTyped
    BY DEF TypeOK, BatchTyped
<1>2. /\ pc[b] = "idle" /\ S # {}
      /\ pc' = [pc EXCEPT ![b] = "next"] /\ todo' = [todo EXCEPT ![b] = S]
      /\ status' = [t \in Tasks |-> IF t \in S THEN "running" ELSE status[t]]
      /\ live' = [t \in Tasks |-> t \in S \/ live[t]]
      /\ reqStatus' = [r \in Requests |->
                          IF r \in R /\ reqStatus[r] = "queued"
                          THEN "running" ELSE reqStatus[r]]
      /\ artifact' = artifact /\ announced' = announced
      /\ task' = task /\ cache' = cache /\ found' = found /\ checked' = checked
      /\ FilesKept /\ rowLock' = rowLock
      /\ seeded' = seeded /\ deleted' = deleted /\ overruns' = overruns
    BY DEF Claim, FilesKept, recordVars, fileVars, boundVars
<1>3. S \subseteq Tasks /\ \A t \in S : Claimable(t)
    BY OldestFacts
<1> HIDE DEF S, R
<1>4. todo'[b] = S
    BY <1>1, <1>2 DEF BatchTyped
<1>5. /\ reqStatus' \in [Requests -> RequestStates]
      /\ \A r \in Requests : reqStatus'[r] \in {reqStatus[r], "running"}
    BY <1>2 DEF TypeOK, RequestStates
<1>6. BatchTyped' /\ OthersKept(b)
    BY <1>1, <1>2, <1>3 DEF BatchTyped, OthersKept, Labels
<1>7. TasksRead(b) /\ RequestsRead(b) /\ ArtifactsRead(b)
    BY <1>2 DEF TasksRead, RequestsRead, ArtifactsRead
<1> QED
    BY <1>2, <1>3, <1>4, <1>5, <1>6, <1>7

\* Steps outside the batches.
QuietStep ==
    /\ UNCHANGED batchVars /\ RequestRowsKept /\ FilesKept
    /\ status' = status /\ rowLock' = rowLock /\ deleted' = deleted

\* Seeds, empty claims, expiring leases and stuttering are quiet.
LEMMA QuietEffect ==
    ASSUME TypeOK,
           \/ \E s \in Seeds : Seed(s)
           \/ \E b \in Batches : EmptyClaim(b)
           \/ \E t \in Tasks : LeaseExpire(t)
           \/ UNCHANGED vars
    PROVE /\ QuietStep
          /\ \/ live' = live /\ overruns' = overruns
             \/ \E t \in Tasks :
                   /\ live' = [live EXCEPT ![t] = FALSE]
                   /\ IF \E b \in Batches : Holds(b, t) THEN overruns' = overruns + 1
                                                        ELSE overruns' = overruns
<1>1. ASSUME NEW s \in Seeds, Seed(s)
      PROVE QuietStep /\ live' = live /\ overruns' = overruns
    BY <1>1 DEF Seed, QuietStep, RequestRowsKept, FilesKept, taskVars, requestVars,
                fileVars, batchVars, boundVars
<1>2. ASSUME UNCHANGED vars
      PROVE QuietStep /\ live' = live /\ overruns' = overruns
    BY <1>2 DEF vars, QuietStep, RequestRowsKept, FilesKept, taskVars, requestVars,
                recordVars, fileVars, batchVars, boundVars
<1>3. ASSUME NEW t \in Tasks, LeaseExpire(t)
      PROVE /\ QuietStep
            /\ live' = [live EXCEPT ![t] = FALSE]
            /\ IF \E b \in Batches : Holds(b, t) THEN overruns' = overruns + 1
                                                 ELSE overruns' = overruns
    BY <1>3 DEF LeaseExpire, QuietStep, RequestRowsKept, FilesKept, requestVars,
                recordVars, fileVars, batchVars
<1> QED
    BY <1>1, <1>2, <1>3 DEF EmptyClaim

-----------------------------------------------------------------------------
(* The invariant, batch by batch.                                            *)

\* What a step of b may do to what other batches rely on.
EnvironmentKept(b) ==
    /\ OthersKept(b)
    /\ \A t \in Tasks : status[t] \in Terminal => status'[t] \in Terminal
    /\ announced \subseteq announced' /\ deleted \subseteq deleted'
    /\ \A r \in Requests : Whole(r) => Whole(r)'
    /\ \A r \in Requests :
          rowLock[r] \in Batches \ {b} =>
              rowLock'[r] = rowLock[r] /\ temporary'[r] = temporary[r]

\* The other batches stay well.
LEMMA OthersOK ==
    ASSUME BatchInv, NEW b \in Batches, EnvironmentKept(b), NEW c \in Batches \ {b}
    PROVE SessionOK(c)'
<1>1. /\ pc'[c] = pc[c] /\ todo'[c] = todo[c] /\ task'[c] = task[c]
      /\ cache'[c] = cache[c] /\ found'[c] = found[c] /\ checked'[c] = checked[c]
    BY DEF EnvironmentKept, OthersKept
<1>2. SessionOK(c)
    BY DEF BatchInv
<1>3. Req(c)' = Req(c) /\ Verdict(c)' = Verdict(c)
    BY <1>1 DEF Req, Verdict
<1>4. PhaseOK(c)'
    BY <1>1, <1>2, <1>3 DEF SessionOK, PhaseOK
<1>5. NotAhead(c)'
    BY <1>1, <1>2 DEF SessionOK, NotAhead, EnvironmentKept
<1>6. RequestsKnown(c)'
  <2> SUFFICES ASSUME NEW r \in Requests
               PROVE /\ cache[c].req[r] \in Final => r \in announced'
                     /\ cache[c].art[r] => Whole(r)'
      BY <1>1 DEF RequestsKnown
  <2> QED
      BY <1>2 DEF SessionOK, RequestsKnown, EnvironmentKept
<1>7. RefreshOK(c)'
  <2>1. pc[c] \in {"open", "write", "replace", "store"} =>
            /\ rowLock'[Req(c)] = c
            /\ temporary'[Req(c)] = temporary[Req(c)]
    <3> SUFFICES ASSUME pc[c] \in {"open", "write", "replace", "store"}
                 PROVE /\ rowLock'[Req(c)] = c
                       /\ temporary'[Req(c)] = temporary[Req(c)]
        OBVIOUS
    <3>1. task[c] \in Tasks /\ rowLock[Req(c)] = c
        BY <1>2 DEF SessionOK, PhaseOK, RefreshOK
    <3>2. Req(c) \in Requests
        BY <3>1, BatchAssumption DEF Req
    <3> QED
        BY <3>1, <3>2 DEF EnvironmentKept
  <2>2. RefreshOK(c)
      BY <1>2 DEF SessionOK
  <2> QED
      BY <1>1, <1>3, <2>1, <2>2 DEF RefreshOK
<1>8. ReadbackOK(c)'
    BY <1>1, <1>2, <1>3 DEF SessionOK, ReadbackOK, EnvironmentKept
<1> QED
    BY <1>4, <1>5, <1>6, <1>7, <1>8 DEF SessionOK

\* Whole artifacts stay whole when neither tasks nor files change.
LEMMA WholeKept ==
    ASSUME status' = status, file' = file
    PROVE \A r \in Requests : Whole(r)' <=> Whole(r)
BY DEF Whole

\* Steps that keep all rows keep what is said of them.
LEMMA RowsKeptOK ==
    ASSUME BatchInv, status' = status, RequestRowsKept,
           \A r \in Requests : Whole(r) => Whole(r)'
    PROVE RowsOK'
<1>1. /\ reqStatus' = reqStatus /\ artifact' = artifact /\ announced' = announced
    BY DEF RequestRowsKept
<1>2. RowsOK
    BY DEF BatchInv
<1>3. VerdictBacked'
    BY <1>1, <1>2 DEF RowsOK, VerdictBacked
<1> QED
    BY <1>1, <1>2, <1>3 DEF RowsOK

\* A step that releases or keeps the locks of b and keeps the rows.
LEMMA EnvironmentFrame ==
    ASSUME BatchInv, NEW b \in Batches, OthersKept(b), status' = status,
           RequestRowsKept, FilesKept, deleted' = deleted,
           \/ rowLock' \in {rowLock, Released(b)}
           \/ \E r \in Requests : rowLock[r] = NoBatch
                                  /\ rowLock' = [rowLock EXCEPT ![r] = b]
    PROVE EnvironmentKept(b) /\ RowsOK'
<1>1. \A r \in Requests : Whole(r) => Whole(r)'
    BY WholeKept DEF FilesKept
<1>2. \A r \in Requests : rowLock[r] \in Batches \ {b} => rowLock'[r] = rowLock[r]
    BY BatchAssumption DEF Released, BatchInv, TypeOK
<1>3. RowsOK'
    BY <1>1, RowsKeptOK
<1> QED
    BY <1>1, <1>2, <1>3 DEF EnvironmentKept, RequestRowsKept, FilesKept

\* Leases are kept by steps that keep the task rows and take no task.
LEMMA LeasesFrame ==
    ASSUME BatchInv, NEW b \in Batches, OthersKept(b), TaskRowsKept,
           overruns' = overruns, \A t \in Tasks : Holds(b, t)' => Holds(b, t)
    PROVE ClaimsVisible' /\ LeasesSeparateBatches'
<1>1. \A c \in Batches, t \in Tasks : Holds(c, t)' => Holds(c, t)
    BY DEF OthersKept, Holds
<1>2. ClaimsVisible'
    BY <1>1 DEF BatchInv, ClaimsVisible, TaskRowsKept
<1>3. LeasesSeparateBatches'
    BY <1>1 DEF BatchInv, LeasesSeparateBatches
<1> QED
    BY <1>2, <1>3

\* A session that read keeps its beliefs backed.
LEMMA ReadNotAhead ==
    ASSUME BatchInv, NEW b \in Batches, TasksRead(b), pc[b] # "commit",
           \A t \in Tasks : status[t] \in Terminal => status'[t] \in Terminal
    PROVE NotAhead(b)'
<1>1. NotAhead(b) /\ RowsOK
    BY DEF BatchInv, SessionOK
<1> SUFFICES ASSUME NEW t \in Tasks
             PROVE /\ cache'[b].tasks[t] \in Terminal => status'[t] \in Terminal
                   /\ cache'[b].tasks[t] = "failed" => CanFail(t)
    BY DEF NotAhead
<1>2. cache'[b].tasks[t] \in {cache[b].tasks[t], status[t], "unread"}
    BY DEF TasksRead
<1> QED
    BY <1>1, <1>2 DEF NotAhead, RowsOK, Terminal

\* Its requests, too.
LEMMA ReadKnown ==
    ASSUME BatchInv, NEW b \in Batches, RequestsRead(b), ArtifactsRead(b),
           announced \subseteq announced', \A r \in Requests : Whole(r) => Whole(r)'
    PROVE RequestsKnown(b)'
<1>1. RequestsKnown(b) /\ RowsOK
    BY DEF BatchInv, SessionOK
<1> SUFFICES ASSUME NEW r \in Requests
             PROVE /\ cache'[b].req[r] \in Final => r \in announced'
                   /\ cache'[b].art[r] => Whole(r)'
    BY DEF RequestsKnown
<1>2. cache'[b].req[r] \in {cache[b].req[r], reqStatus[r], "unread", "verifying"}
    BY DEF RequestsRead
<1>3. cache'[b].req[r] \in Final => r \in announced
    BY <1>1, <1>2 DEF RequestsKnown, RowsOK, VerdictBacked, Final
<1>4. cache'[b].art[r] => Whole(r)
    BY <1>1 DEF RequestsKnown, RowsOK, ArtifactsRead
<1> QED
    BY <1>3, <1>4

\* A batch between tasks, or before its result, has little to keep.
LEMMA EarlyPhases ==
    ASSUME NEW b \in Batches, pc'[b] \in {"idle", "next", "execute", "delete", "refresh"}
    PROVE RefreshOK(b)' /\ ReadbackOK(b)'
BY DEF RefreshOK, ReadbackOK

\* The types follow from those of the batches.
LEMMA TypesFrame ==
    ASSUME TypeOK, BatchTyped', TaskRowsKept, RequestRowsKept,
           rowLock' \in [Requests -> Batches \union {NoBatch}],
           DOMAIN temporary' = Requests, DOMAIN file' = Requests, overruns' = overruns
    PROVE TypeOK'
BY DEF TypeOK, BatchTyped, TaskRowsKept, RequestRowsKept

-----------------------------------------------------------------------------
(* The steps.                                                                *)

\* What is left to show of a step of b.
LEMMA Assemble ==
    ASSUME BatchInv, NEW b \in Batches, TypeOK', EnvironmentKept(b), SessionOK(b)',
           RowsOK', ClaimsVisible', LeasesSeparateBatches'
    PROVE BatchInv'
BY OthersOK DEF BatchInv

\* The invariant at hand.
LEMMA AtHand ==
    ASSUME BatchInv, NEW b \in Batches
    PROVE TypeOK /\ SessionOK(b) /\ PhaseOK(b) /\ BatchTyped
BY DEF BatchInv, SessionOK, TypeOK, BatchTyped

\* Initially nothing is claimed, read or written.
LEMMA BatchInit == Init => BatchInv
<1> SUFFICES ASSUME Init PROVE BatchInv
    OBVIOUS
<1>1. TypeOK
    BY BatchAssumption, EmptyFacts
       DEF Init, TypeOK, TaskStates, Terminal, RequestStates, Labels
<1>2. ClaimsVisible /\ LeasesSeparateBatches
    BY DEF Init, ClaimsVisible, LeasesSeparateBatches, Holds
<1>3. ASSUME NEW b \in Batches PROVE SessionOK(b)
  <2>1. pc[b] = "idle" /\ cache[b] = Empty
      BY DEF Init
  <2>2. PhaseOK(b) /\ RefreshOK(b) /\ ReadbackOK(b)
      BY <2>1 DEF PhaseOK, RefreshOK, ReadbackOK
  <2>3. NotAhead(b) /\ RequestsKnown(b)
      BY <2>1, EmptyFacts DEF NotAhead, RequestsKnown, Terminal, Final
  <2> QED
      BY <2>2, <2>3 DEF SessionOK
<1>4. RowsOK
    BY DEF Init, RowsOK, VerdictBacked, Final
<1> QED
    BY <1>1, <1>2, <1>3, <1>4 DEF BatchInv

\* A claim takes only tasks nobody holds.
LEMMA ClaimKeeps ==
    ASSUME BatchInv, NEW b \in Batches, Claim(b)
    PROVE BatchInv'
<1>1. TypeOK /\ SessionOK(b) /\ PhaseOK(b) /\ BatchTyped
    BY AtHand
<1>2. /\ pc[b] = "idle" /\ pc' = [pc EXCEPT ![b] = "next"] /\ BatchTyped'
      /\ todo'[b] # {} /\ todo'[b] \subseteq Tasks
      /\ \A t \in todo'[b] : Claimable(t)
      /\ status' = [t \in Tasks |-> IF t \in todo'[b] THEN "running" ELSE status[t]]
      /\ live' = [t \in Tasks |-> t \in todo'[b] \/ live[t]]
      /\ reqStatus' \in [Requests -> RequestStates]
      /\ \A r \in Requests : reqStatus'[r] \in {reqStatus[r], "running"}
      /\ artifact' = artifact /\ announced' = announced
      /\ task' = task /\ cache' = cache /\ found' = found /\ checked' = checked
      /\ OthersKept(b) /\ TasksRead(b) /\ RequestsRead(b) /\ ArtifactsRead(b)
      /\ FilesKept /\ rowLock' = rowLock
      /\ seeded' = seeded /\ deleted' = deleted /\ overruns' = overruns
    BY <1>1, ClaimEffect
<1>3. pc'[b] = "next"
    BY <1>1, <1>2 DEF BatchTyped
<1>4. \A t \in Tasks : /\ status[t] \in Terminal => status'[t] = status[t]
                       /\ status'[t] \in {status[t], "running"}
    BY <1>2 DEF Claimable, Terminal
<1>5. \A r \in Requests : Whole(r) => Whole(r)'
    BY <1>2, <1>4 DEF Whole, FilesKept, TasksOf, Terminal
<1>6. TypeOK'
    BY <1>1, <1>2 DEF TypeOK, BatchTyped, FilesKept, TaskStates
<1>7. EnvironmentKept(b)
    BY <1>2, <1>4, <1>5 DEF EnvironmentKept, FilesKept
<1>8. SessionOK(b)'
  <2>1. PhaseOK(b)'
      BY <1>2, <1>3 DEF PhaseOK
  <2>2. NotAhead(b)' /\ RequestsKnown(b)'
      BY <1>2, <1>4, <1>5, ReadNotAhead, ReadKnown
  <2>3. RefreshOK(b)' /\ ReadbackOK(b)'
      BY <1>3, EarlyPhases
  <2> QED
      BY <2>1, <2>2, <2>3 DEF SessionOK
<1>9. RowsOK'
  <2>1. RowsOK
      BY DEF BatchInv
  <2>2. \A t \in Tasks : status'[t] = "failed" => CanFail(t)
      BY <1>4, <2>1 DEF RowsOK
  <2>3. \A r \in Requests : artifact'[r] => Whole(r)'
      BY <1>2, <1>5, <2>1 DEF RowsOK
  <2>4. VerdictBacked'
    <3> SUFFICES ASSUME NEW r \in Requests, reqStatus'[r] \in Final
                 PROVE /\ \A t \in TasksOf(r) : status'[t] \in Terminal
                       /\ r \in announced'
                       /\ KindOf[r] = "access" /\ reqStatus'[r] # "failed" => artifact'[r]
        BY DEF VerdictBacked
    <3>1. reqStatus'[r] = reqStatus[r]
        BY <1>2 DEF Final
    <3> QED
        BY <1>2, <1>4, <2>1, <3>1 DEF RowsOK, VerdictBacked, TasksOf
  <2> QED
      BY <2>2, <2>3, <2>4 DEF RowsOK
<1>10. ClaimsVisible' /\ LeasesSeparateBatches'
  <2>1. SUFFICES ASSUME overruns = 0
                 PROVE /\ \A c \in Batches, t \in Tasks :
                             Holds(c, t)' => status'[t] = "running" /\ live'[t]
                       /\ \A c, d \in Batches, t \in Tasks :
                             Holds(c, t)' /\ Holds(d, t)' => c = d
      BY <1>2 DEF ClaimsVisible, LeasesSeparateBatches
  <2>2. \A c \in Batches \ {b}, t \in Tasks : Holds(c, t)' <=> Holds(c, t)
      BY <1>2 DEF OthersKept, Holds
  <2>3. \A t \in Tasks : Holds(b, t)' <=> t \in todo'[b]
      BY <1>3 DEF Holds
  <2>4. \A c \in Batches, t \in Tasks : Holds(c, t) => status[t] = "running" /\ live[t]
      BY <2>1 DEF BatchInv, ClaimsVisible
  <2>5. \A c \in Batches, t \in Tasks : Holds(c, t) => t \notin todo'[b]
      BY <1>2, <2>4 DEF Claimable
  <2>6. \A c, d \in Batches, t \in Tasks : Holds(c, t) /\ Holds(d, t) => c = d
      BY <2>1 DEF BatchInv, LeasesSeparateBatches
  <2>7. \A c \in Batches, t \in Tasks :
            Holds(c, t)' => status'[t] = "running" /\ live'[t]
      BY <1>2, <2>2, <2>3, <2>4
  <2>8. \A c, d \in Batches, t \in Tasks : Holds(c, t)' /\ Holds(d, t)' => c = d
      BY <2>2, <2>3, <2>5, <2>6
  <2> QED
      BY <2>7, <2>8
<1> QED
    BY <1>6, <1>7, <1>8, <1>9, <1>10, Assemble

\* Loading the next task reads the session forward.
LEMMA LoadKeeps ==
    ASSUME BatchInv, NEW b \in Batches, Load(b)
    PROVE BatchInv'
<1>1. TypeOK /\ SessionOK(b) /\ PhaseOK(b) /\ BatchTyped
    BY AtHand
<1>2. /\ pc[b] = "next" /\ First(todo[b]) \in todo[b]
      /\ task' = [task EXCEPT ![b] = First(todo[b])]
      /\ todo' = [todo EXCEPT ![b] = @ \ {First(todo[b])}]
      /\ pc' = [pc EXCEPT ![b] = "execute"]
      /\ found' = found /\ checked' = checked
      /\ cache' \in [Batches -> Sessions]
      /\ OthersKept(b) /\ TasksRead(b) /\ RequestsRead(b) /\ ArtifactsRead(b)
      /\ TaskRowsKept /\ RequestRowsKept /\ FilesKept
      /\ rowLock' = rowLock /\ seeded' = seeded /\ deleted' = deleted
      /\ overruns' = overruns
    BY <1>1, LoadEffect
<1>3. /\ pc'[b] = "execute" /\ task'[b] \in todo[b] /\ todo'[b] = todo[b] \ {task'[b]}
      /\ todo[b] \subseteq Tasks
    BY <1>1, <1>2 DEF BatchTyped
<1>4. TypeOK'
  <2>1. BatchTyped'
      BY <1>1, <1>2, <1>3 DEF BatchTyped, Labels
  <2> QED
      BY <1>1, <1>2, <2>1, TypesFrame DEF TypeOK, FilesKept
<1>5. EnvironmentKept(b) /\ RowsOK'
    BY <1>2, EnvironmentFrame DEF TaskRowsKept
<1>6. SessionOK(b)'
  <2>1. PhaseOK(b)'
      BY <1>3 DEF PhaseOK
  <2>2. NotAhead(b)' /\ RequestsKnown(b)'
      BY <1>2, <1>5, ReadNotAhead, ReadKnown DEF EnvironmentKept
  <2>3. RefreshOK(b)' /\ ReadbackOK(b)'
      BY <1>3, EarlyPhases
  <2> QED
      BY <2>1, <2>2, <2>3 DEF SessionOK
<1>7. ClaimsVisible' /\ LeasesSeparateBatches'
  <2>1. \A t \in Tasks : Holds(b, t)' => Holds(b, t)
      BY <1>3 DEF Holds
  <2> QED
      BY <1>2, <2>1, LeasesFrame
<1> QED
    BY <1>4, <1>5, <1>6, <1>7, Assemble

\* A lost task and a crash only let go.
LEMMA LeaveKeeps ==
    ASSUME BatchInv, NEW b \in Batches, LoadLost(b) \/ Crash(b)
    PROVE BatchInv'
<1>1. TypeOK /\ SessionOK(b) /\ PhaseOK(b) /\ BatchTyped
    BY AtHand
<1>2. /\ BatchTyped' /\ pc'[b] \in {"idle", "next"}
      /\ todo'[b] \subseteq todo[b] /\ (pc'[b] = "next" => todo'[b] # {})
      /\ OthersKept(b) /\ TasksRead(b) /\ RequestsRead(b) /\ ArtifactsRead(b)
      /\ rowLock' \in {rowLock, Released(b)}
      /\ TaskRowsKept /\ RequestRowsKept /\ FilesKept
      /\ seeded' = seeded /\ deleted' = deleted /\ overruns' = overruns
    BY <1>1, LeaveEffect
<1>3. TypeOK'
  <2>1. rowLock' \in [Requests -> Batches \union {NoBatch}]
      BY <1>1, <1>2 DEF TypeOK, Released
  <2> QED
      BY <1>1, <1>2, <2>1, TypesFrame DEF TypeOK, FilesKept
<1>4. EnvironmentKept(b) /\ RowsOK'
    BY <1>2, EnvironmentFrame DEF TaskRowsKept
<1>5. SessionOK(b)'
  <2>1. PhaseOK(b)'
      BY <1>2 DEF PhaseOK
  <2>2. RequestsKnown(b)'
      BY <1>2, <1>4, ReadKnown DEF EnvironmentKept
  <2>3. NotAhead(b)'
    <3>1. CASE pc[b] # "commit"
        BY <1>2, <1>4, <3>1, ReadNotAhead DEF EnvironmentKept
    <3>2. CASE pc[b] = "commit"
      <4>1. cache'[b] = Empty
          BY <1>1, <3>2, EndEffect DEF LoadLost, Crash
      <4> QED
          BY <4>1, EmptyFacts DEF NotAhead, Terminal
    <3> QED
        BY <3>1, <3>2
  <2>4. RefreshOK(b)' /\ ReadbackOK(b)'
      BY <1>2, EarlyPhases
  <2> QED
      BY <2>1, <2>2, <2>3, <2>4 DEF SessionOK
<1>6. ClaimsVisible' /\ LeasesSeparateBatches'
  <2>1. \A t \in Tasks : Holds(b, t)' => Holds(b, t)
      BY <1>2 DEF Holds
  <2> QED
      BY <1>2, <2>1, LeasesFrame
<1> QED
    BY <1>3, <1>4, <1>5, <1>6, Assemble

\* Executing an access task: the result is not committed yet.
LEMMA ExecuteAccessKeeps ==
    ASSUME BatchInv, NEW b \in Batches, ExecuteAccess(b)
    PROVE BatchInv'
<1>1. TypeOK /\ SessionOK(b) /\ PhaseOK(b) /\ BatchTyped
    BY AtHand
<1>2. /\ pc[b] = "execute" /\ task[b] \in Tasks /\ KindOf[Req(b)] = "access"
      /\ pc' = [pc EXCEPT ![b] = "commit"] /\ BatchTyped'
      /\ cache'[b].tasks = [cache[b].tasks EXCEPT ![task[b]] = "succeeded"]
      /\ task' = task /\ todo' = todo /\ found' = found /\ checked' = checked
      /\ OthersKept(b) /\ RequestsRead(b) /\ ArtifactsRead(b)
      /\ TaskRowsKept /\ RequestRowsKept /\ FilesKept /\ rowLock' = rowLock
      /\ seeded' = seeded /\ deleted' = deleted /\ overruns' = overruns
    BY <1>1, ExecuteAccessEffect
<1>3. pc'[b] = "commit" /\ cache[b] \in Sessions /\ cache'[b].tasks[task[b]] = "succeeded"
      /\ \A t \in Tasks \ {task[b]} : cache'[b].tasks[t] = cache[b].tasks[t]
    BY <1>1, <1>2 DEF BatchTyped, Sessions
<1>4. TypeOK'
    BY <1>1, <1>2, TypesFrame DEF TypeOK, FilesKept
<1>5. EnvironmentKept(b) /\ RowsOK'
    BY <1>2, EnvironmentFrame DEF TaskRowsKept
<1>6. SessionOK(b)'
  <2>1. PhaseOK(b)'
      BY <1>1, <1>2, <1>3 DEF PhaseOK, Terminal
  <2>2. NotAhead(b)'
      BY <1>1, <1>2, <1>3 DEF SessionOK, NotAhead, TaskRowsKept
  <2>3. RequestsKnown(b)'
      BY <1>2, <1>5, ReadKnown DEF EnvironmentKept
  <2>4. RefreshOK(b)'
      BY <1>3 DEF RefreshOK
  <2>5. ReadbackOK(b)'
      BY <1>2 DEF ReadbackOK, Req
  <2> QED
      BY <2>1, <2>2, <2>3, <2>4, <2>5 DEF SessionOK
<1>7. ClaimsVisible' /\ LeasesSeparateBatches'
  <2>1. \A t \in Tasks : Holds(b, t)' => Holds(b, t)
      BY <1>2, <1>3 DEF Holds
  <2> QED
      BY <1>2, <2>1, LeasesFrame
<1> QED
    BY <1>4, <1>5, <1>6, <1>7, Assemble

\* Selecting the records of a delete.
LEMMA SelectKeeps ==
    ASSUME BatchInv, NEW b \in Batches, SelectRecords(b)
    PROVE BatchInv'
<1>1. TypeOK /\ SessionOK(b) /\ PhaseOK(b) /\ BatchTyped
    BY AtHand
<1>2. /\ pc[b] = "execute" /\ task[b] \in Tasks /\ KindOf[Req(b)] = "delete"
      /\ pc' = [pc EXCEPT ![b] = "delete"] /\ BatchTyped'
      /\ task' = task /\ todo' = todo /\ checked' = checked
      /\ \/ rowLock' = rowLock
         \/ rowLock[Req(b)] = NoBatch /\ rowLock' = [rowLock EXCEPT ![Req(b)] = b]
      /\ OthersKept(b) /\ TasksRead(b) /\ RequestsRead(b) /\ ArtifactsRead(b)
      /\ TaskRowsKept /\ RequestRowsKept /\ FilesKept
      /\ seeded' = seeded /\ deleted' = deleted /\ overruns' = overruns
    BY <1>1, SelectEffect
<1>3. pc'[b] = "delete" /\ Req(b) \in Requests
    BY <1>1, <1>2, BatchAssumption DEF BatchTyped, Req
<1>4. TypeOK'
  <2>1. rowLock' \in [Requests -> Batches \union {NoBatch}]
      BY <1>1, <1>2, <1>3 DEF TypeOK
  <2> QED
      BY <1>1, <1>2, <2>1, TypesFrame DEF TypeOK, FilesKept
<1>5. EnvironmentKept(b) /\ RowsOK'
    BY <1>2, <1>3, EnvironmentFrame DEF TaskRowsKept
<1>6. SessionOK(b)'
  <2>1. PhaseOK(b)'
      BY <1>1, <1>2, <1>3 DEF PhaseOK, Req
  <2>2. NotAhead(b)' /\ RequestsKnown(b)'
      BY <1>2, <1>5, ReadNotAhead, ReadKnown DEF EnvironmentKept
  <2>3. RefreshOK(b)' /\ ReadbackOK(b)'
      BY <1>3, EarlyPhases
  <2> QED
      BY <2>1, <2>2, <2>3 DEF SessionOK
<1>7. ClaimsVisible' /\ LeasesSeparateBatches'
  <2>1. \A t \in Tasks : Holds(b, t)' => Holds(b, t)
      BY <1>2, <1>3 DEF Holds
  <2> QED
      BY <1>2, <2>1, LeasesFrame
<1> QED
    BY <1>4, <1>5, <1>6, <1>7, Assemble

\* The readback: success means that every record it saw is accounted for.
LEMMA DeleteKeeps ==
    ASSUME BatchInv, NEW b \in Batches, DeleteRecords(b)
    PROVE BatchInv'
<1>1. TypeOK /\ SessionOK(b) /\ PhaseOK(b) /\ BatchTyped
    BY AtHand
<1>2. /\ pc[b] = "delete" /\ task[b] \in Tasks
      /\ pc' = [pc EXCEPT ![b] = "commit"] /\ BatchTyped'
      /\ cache'[b].tasks = [cache[b].tasks EXCEPT ![task[b]] =
                               IF Remaining(b) = {} THEN "succeeded" ELSE "failed"]
      /\ checked' = [checked EXCEPT ![b] = seeded]
      /\ task' = task /\ todo' = todo /\ found' = found
      /\ OthersKept(b) /\ RequestsRead(b) /\ ArtifactsRead(b)
      /\ TaskRowsKept /\ RequestRowsKept /\ FilesKept /\ rowLock' = rowLock
      /\ seeded' = seeded /\ deleted' = deleted /\ overruns' = overruns
    BY <1>1, DeleteEffect
<1>3. /\ pc'[b] = "commit" /\ cache[b] \in Sessions /\ checked'[b] = seeded
      /\ cache'[b].tasks[task[b]] = IF Remaining(b) = {} THEN "succeeded" ELSE "failed"
      /\ \A t \in Tasks \ {task[b]} : cache'[b].tasks[t] = cache[b].tasks[t]
    BY <1>1, <1>2 DEF BatchTyped, Sessions
<1>4. KindOf[Req(b)] = "delete"
    BY <1>1, <1>2 DEF PhaseOK
<1>5. TypeOK'
    BY <1>1, <1>2, TypesFrame DEF TypeOK, FilesKept
<1>6. EnvironmentKept(b) /\ RowsOK'
    BY <1>2, EnvironmentFrame DEF TaskRowsKept
<1>7. SessionOK(b)'
  <2>1. PhaseOK(b)'
      BY <1>1, <1>2, <1>3 DEF PhaseOK, Terminal
  <2>2. NotAhead(b)'
      BY <1>1, <1>2, <1>3, <1>4 DEF SessionOK, NotAhead, TaskRowsKept, CanFail, Req
  <2>3. RequestsKnown(b)'
      BY <1>2, <1>6, ReadKnown DEF EnvironmentKept
  <2>4. RefreshOK(b)'
      BY <1>3 DEF RefreshOK
  <2>5. ReadbackOK(b)'
    <3> SUFFICES ASSUME cache'[b].tasks[task'[b]] = "succeeded"
                 PROVE checked'[b] \X {SourceOf[task'[b]]} \subseteq deleted' \union found'[b]
        BY DEF ReadbackOK
    <3>1. Remaining(b) = {}
        BY <1>2, <1>3
    <3>2. (seeded \X {SourceOf[task[b]]}) \ deleted \subseteq found[b]
        BY <3>1 DEF Remaining, Active
    <3> QED
        BY <1>2, <1>3, <3>2
  <2> QED
      BY <2>1, <2>2, <2>3, <2>4, <2>5 DEF SessionOK
<1>8. ClaimsVisible' /\ LeasesSeparateBatches'
  <2>1. \A t \in Tasks : Holds(b, t)' => Holds(b, t)
      BY <1>2, <1>3 DEF Holds
  <2> QED
      BY <1>2, <2>1, LeasesFrame
<1> QED
    BY <1>5, <1>6, <1>7, <1>8, Assemble

\* A result is committed: the task is terminal and the batch lets it go.
LEMMA CommitResultKeeps ==
    ASSUME BatchInv, NEW b \in Batches, CommitResult(b)
    PROVE BatchInv'
<1> DEFINE t == task[b]
           result == cache[b].tasks[t]
<1>1. TypeOK /\ SessionOK(b) /\ PhaseOK(b) /\ BatchTyped
    BY AtHand
<1>2. /\ pc[b] = "commit" /\ t \in Tasks /\ result \in Terminal
      /\ pc' = [pc EXCEPT ![b] = "refresh"] /\ BatchTyped'
      /\ status' = [status EXCEPT ![t] = result]
      /\ live' = [live EXCEPT ![t] = FALSE]
      /\ deleted' = deleted \union found[b]
      /\ reqStatus' = [r \in Requests |-> IF rowLock[r] = b THEN "verifying"
                                                            ELSE reqStatus[r]]
      /\ rowLock' = Released(b)
      /\ artifact' = artifact /\ announced' = announced
      /\ todo' = todo /\ task' = task /\ cache' = cache /\ found' = found
      /\ checked' = checked
      /\ OthersKept(b) /\ TasksRead(b) /\ RequestsRead(b) /\ ArtifactsRead(b)
      /\ FilesKept /\ seeded' = seeded /\ overruns' = overruns
    BY <1>1, CommitResultEffect
<1>3. pc'[b] = "refresh" /\ t \notin todo[b]
    BY <1>1, <1>2 DEF BatchTyped, PhaseOK
<1>4. result = "failed" => CanFail(t)
    BY <1>1, <1>2 DEF SessionOK, NotAhead
<1> HIDE DEF t, result
<1>5. /\ status'[t] = result
      /\ \A u \in Tasks \ {t} : status'[u] = status[u]
      /\ \A u \in Tasks : status[u] \in Terminal => status'[u] \in Terminal
    BY <1>1, <1>2 DEF TypeOK
<1>6. \A r \in Requests : Whole(r) => Whole(r)'
  <2> SUFFICES ASSUME NEW r \in Requests, Whole(r) PROVE Whole(r)'
      OBVIOUS
  <2>1. KindOf[r] = "access" /\ file'[r] = TasksOf(r)
      BY <1>2 DEF Whole, FilesKept
  <2>2. ASSUME NEW u \in TasksOf(r) PROVE status'[u] = "succeeded"
    <3>1. CASE u = t
        BY <1>2, <1>4, <1>5, <2>1, <3>1 DEF CanFail, TasksOf, Terminal
    <3>2. CASE u # t
        BY <1>5, <3>2 DEF Whole, TasksOf
    <3> QED
        BY <3>1, <3>2
  <2> QED
      BY <2>1, <2>2 DEF Whole
<1>7. TypeOK'
  <2>1. /\ status' \in [Tasks -> TaskStates] /\ live' \in [Tasks -> BOOLEAN]
        /\ reqStatus' \in [Requests -> RequestStates]
        /\ rowLock' \in [Requests -> Batches \union {NoBatch}]
      BY <1>1, <1>2 DEF TypeOK, TaskStates, RequestStates, Released
  <2> QED
      BY <1>1, <1>2, <2>1 DEF TypeOK, BatchTyped, FilesKept
<1>8. EnvironmentKept(b)
  <2>1. \A r \in Requests : rowLock[r] \in Batches \ {b} => rowLock'[r] = rowLock[r]
      BY <1>2 DEF Released
  <2> QED
      BY <1>2, <1>5, <1>6, <2>1 DEF EnvironmentKept, FilesKept
<1>9. SessionOK(b)'
  <2>1. PhaseOK(b)'
      BY <1>2, <1>3 DEF PhaseOK, t
  <2>2. NotAhead(b)'
    <3>1. NotAhead(b)
        BY <1>1 DEF SessionOK
    <3>2. \A u \in Tasks : cache[b].tasks[u] \in Terminal => status'[u] \in Terminal
        BY <1>2, <1>5, <3>1 DEF NotAhead, t
    <3> QED
        BY <1>2, <3>1, <3>2 DEF NotAhead
  <2>3. RequestsKnown(b)'
      BY <1>2, <1>6, ReadKnown
  <2>4. RefreshOK(b)' /\ ReadbackOK(b)'
      BY <1>3, EarlyPhases
  <2> QED
      BY <2>1, <2>2, <2>3, <2>4 DEF SessionOK
<1>10. RowsOK'
  <2>1. RowsOK
      BY DEF BatchInv
  <2>2. \A u \in Tasks : status'[u] = "failed" => CanFail(u)
      BY <1>2, <1>4, <1>5, <2>1 DEF RowsOK
  <2>3. \A r \in Requests : artifact'[r] => Whole(r)'
      BY <1>2, <1>6, <2>1 DEF RowsOK
  <2>4. VerdictBacked'
    <3> SUFFICES ASSUME NEW r \in Requests, reqStatus'[r] \in Final
                 PROVE /\ \A u \in TasksOf(r) : status'[u] \in Terminal
                       /\ r \in announced'
                       /\ KindOf[r] = "access" /\ reqStatus'[r] # "failed" => artifact'[r]
        BY DEF VerdictBacked
    <3>1. reqStatus'[r] = reqStatus[r]
        BY <1>2 DEF Final
    <3> QED
        BY <1>2, <1>5, <2>1, <3>1 DEF RowsOK, VerdictBacked, TasksOf
  <2> QED
      BY <2>2, <2>3, <2>4 DEF RowsOK
<1>11. ClaimsVisible' /\ LeasesSeparateBatches'
  <2>1. SUFFICES ASSUME overruns = 0
                 PROVE /\ \A c \in Batches, u \in Tasks :
                             Holds(c, u)' => status'[u] = "running" /\ live'[u]
                       /\ \A c, d \in Batches, u \in Tasks :
                             Holds(c, u)' /\ Holds(d, u)' => c = d
      BY <1>2 DEF ClaimsVisible, LeasesSeparateBatches
  <2>2. \A c, d \in Batches, u \in Tasks : Holds(c, u) /\ Holds(d, u) => c = d
      BY <2>1 DEF BatchInv, LeasesSeparateBatches
  <2>3. \A c \in Batches, u \in Tasks : Holds(c, u)' => Holds(c, u)
      BY <1>2, <1>3 DEF OthersKept, Holds
  <2>4. \A u \in Tasks : u = t => Holds(b, u) /\ ~Holds(b, u)'
      BY <1>2, <1>3 DEF Holds, t
  <2>5. \A c \in Batches, u \in Tasks : Holds(c, u)' => u # t
      BY <1>2, <2>2, <2>3, <2>4
  <2>6. \A c \in Batches, u \in Tasks :
            Holds(c, u)' => status'[u] = "running" /\ live'[u]
    <3>1. \A u \in Tasks \ {t} : live'[u] = live[u]
        BY <1>1, <1>2 DEF TypeOK
    <3> QED
        BY <1>5, <2>1, <2>3, <2>5, <3>1 DEF BatchInv, ClaimsVisible
  <2> QED
      BY <2>2, <2>3, <2>6
<1> QED
    BY <1>7, <1>8, <1>9, <1>10, <1>11, Assemble

\* The refresh locks the request and reads what its session does not have.
LEMMA RefreshLoadKeeps ==
    ASSUME BatchInv, NEW b \in Batches, RefreshLoad(b)
    PROVE BatchInv'
<1>1. TypeOK /\ SessionOK(b) /\ PhaseOK(b) /\ BatchTyped
    BY AtHand
<1>2. /\ pc[b] = "refresh" /\ task[b] \in Tasks /\ Req(b) \in Requests
      /\ rowLock[Req(b)] = NoBatch
      /\ rowLock' = [rowLock EXCEPT ![Req(b)] = b]
      /\ pc' \in [Batches -> Labels] /\ pc'[b] \in {"open", "store"}
      /\ pc'[b] = "open" <=>
            /\ KindOf[Req(b)] = "access"
            /\ ~cache'[b].art[Req(b)]
            /\ Aggregate({cache'[b].tasks[t] : t \in TasksOf(Req(b))})
                 \in {"completed", "partial"}
      /\ task' = task /\ todo' = todo /\ found' = found /\ checked' = checked
      /\ cache' \in [Batches -> Sessions]
      /\ \A t \in TasksOf(Req(b)) : cache'[b].tasks[t] # "unread"
      /\ OthersKept(b) /\ TasksRead(b) /\ RequestsRead(b) /\ ArtifactsRead(b)
      /\ TaskRowsKept /\ RequestRowsKept /\ FilesKept
      /\ seeded' = seeded /\ deleted' = deleted /\ overruns' = overruns
    BY <1>1, RefreshLoadEffect
<1>3. TypeOK'
  <2>1. rowLock' \in [Requests -> Batches \union {NoBatch}] /\ BatchTyped'
      BY <1>1, <1>2 DEF TypeOK, BatchTyped
  <2> QED
      BY <1>1, <1>2, <2>1, TypesFrame DEF TypeOK, FilesKept
<1>4. EnvironmentKept(b) /\ RowsOK'
    BY <1>2, EnvironmentFrame DEF TaskRowsKept
<1>5. PhaseOK(b)'
    BY <1>1, <1>2 DEF PhaseOK
<1>6. NotAhead(b)' /\ RequestsKnown(b)'
    BY <1>2, <1>4, ReadNotAhead, ReadKnown DEF EnvironmentKept
<1>7. RefreshOK(b)'
  <2> DEFINE r == Req(b)
  <2>1. Req(b)' = r /\ rowLock'[r] = b
      BY <1>1, <1>2 DEF Req, TypeOK
  <2>2. pc'[b] = "open" =>
            /\ KindOf[r] = "access"
            /\ \A t \in TasksOf(r) : cache'[b].tasks[t] = "succeeded"
    <3> SUFFICES ASSUME pc'[b] = "open"
                 PROVE \A t \in TasksOf(r) : cache'[b].tasks[t] = "succeeded"
        BY <1>2
    <3> DEFINE S == {cache'[b].tasks[t] : t \in TasksOf(r)}
    <3>1. Aggregate(S) \in Final /\ KindOf[r] = "access"
        BY <1>2 DEF Final
    <3>2. cache'[b].tasks \in [Tasks -> TaskStates \union {"unread"}]
        BY <1>2 DEF Sessions
    <3>3. S \subseteq TaskStates
        BY <1>2, <3>2 DEF TasksOf
    <3>4. S \subseteq Terminal
        BY <3>1, <3>3, AggregateFacts
    <3>5. \A t \in TasksOf(r) : cache'[b].tasks[t] # "failed"
        BY <1>6, <3>1 DEF NotAhead, CanFail, TasksOf
    <3> QED
        BY <3>4, <3>5 DEF Terminal
  <2>3. /\ pc'[b] = "store" /\ KindOf[r] = "access"
        /\ Verdict(b)' \in {"completed", "partial"}
        => cache'[b].art[r]
      BY <1>2, <2>1 DEF Verdict
  <2> QED
      BY <1>2, <2>1, <2>2, <2>3 DEF RefreshOK
<1>8. ReadbackOK(b)'
    BY <1>2 DEF ReadbackOK
<1>9. ClaimsVisible' /\ LeasesSeparateBatches'
  <2>1. \A t \in Tasks : Holds(b, t)' => Holds(b, t)
      BY <1>2 DEF Holds
  <2> QED
      BY <1>2, <2>1, LeasesFrame
<1> QED
    BY <1>3, <1>4, <1>5, <1>6, <1>7, <1>8, <1>9, Assemble DEF SessionOK

\* put_json writes under the lock of the request, and only whole documents
\* become the artifact.
LEMMA StoreKeeps ==
    ASSUME BatchInv, NEW b \in Batches,
           OpenTemporary(b) \/ WriteTemporary(b) \/ ReplaceFile(b)
    PROVE BatchInv'
<1> DEFINE r == Req(b)
<1>1. TypeOK /\ SessionOK(b) /\ PhaseOK(b) /\ BatchTyped
    BY AtHand
<1>2. /\ task[b] \in Tasks /\ r \in Requests
      /\ \/ /\ pc[b] = "open" /\ pc' = [pc EXCEPT ![b] = "write"]
            /\ temporary' = [temporary EXCEPT ![r] = Torn]
            /\ cache' = cache /\ file' = file
         \/ /\ pc[b] = "write" /\ pc' = [pc EXCEPT ![b] = "replace"]
            /\ temporary' = [temporary EXCEPT ![r] = Document(b)]
            /\ cache' = cache /\ file' = file
         \/ /\ pc[b] = "replace" /\ pc' = [pc EXCEPT ![b] = "store"]
            /\ temporary' = [temporary EXCEPT ![r] = NoFile]
            /\ file' = [file EXCEPT ![r] = temporary[r]]
            /\ cache'[b].art = [cache[b].art EXCEPT ![r] = TRUE]
      /\ cache'[b].tasks = cache[b].tasks /\ cache'[b].req = cache[b].req
      /\ BatchTyped'
      /\ task' = task /\ todo' = todo /\ found' = found /\ checked' = checked
      /\ OthersKept(b) /\ TasksRead(b) /\ RequestsRead(b)
      /\ TaskRowsKept /\ RequestRowsKept /\ rowLock' = rowLock
      /\ seeded' = seeded /\ deleted' = deleted /\ overruns' = overruns
    BY <1>1, StoreEffect
<1>3. /\ rowLock[r] = b /\ KindOf[r] = "access"
      /\ \A t \in TasksOf(r) : cache[b].tasks[t] = "succeeded"
      /\ pc[b] = "replace" => temporary[r] = TasksOf(r)
    BY <1>1, <1>2 DEF SessionOK, RefreshOK
<1>4. /\ pc[b] = "open" => pc'[b] = "write"
      /\ pc[b] = "write" => pc'[b] = "replace"
      /\ pc[b] = "replace" => pc'[b] = "store"
      /\ pc[b] \in {"open", "write", "replace"} /\ Req(b)' = r
    BY <1>1, <1>2 DEF BatchTyped, Req
<1>5. \A t \in TasksOf(r) : status[t] = "succeeded"
    BY <1>1, <1>3, <1>4 DEF SessionOK, NotAhead, BatchInv, RowsOK, CanFail, TasksOf,
                            Terminal
<1>6. Document(b) = TasksOf(r)
    BY <1>3 DEF Document
<1> HIDE DEF r
<1>7. file' = file \/ (pc[b] = "replace" /\ file' = [file EXCEPT ![r] = TasksOf(r)])
    BY <1>2, <1>3
<1>8. \A q \in Requests : Whole(q) => Whole(q)'
    BY <1>1, <1>2, <1>7 DEF Whole, TaskRowsKept, TypeOK
<1>9. \A q \in Requests : q = r /\ pc[b] = "replace" => Whole(q)'
    BY <1>1, <1>2, <1>3, <1>5 DEF Whole, TaskRowsKept, TypeOK
<1>10. TypeOK'
  <2>1. DOMAIN temporary' = Requests /\ DOMAIN file' = Requests
      BY <1>1, <1>2 DEF TypeOK
  <2> QED
      BY <1>1, <1>2, <2>1, TypesFrame DEF TypeOK
<1>11. EnvironmentKept(b)
  <2>1. \A q \in Requests : q # r => temporary'[q] = temporary[q]
      BY <1>1, <1>2 DEF TypeOK
  <2> QED
      BY <1>2, <1>3, <1>8, <2>1 DEF EnvironmentKept, TaskRowsKept, RequestRowsKept
<1>12. RowsOK'
    BY <1>2, <1>8, RowsKeptOK DEF TaskRowsKept
<1>13. SessionOK(b)'
  <2>1. PhaseOK(b)'
      BY <1>1, <1>2, <1>4 DEF PhaseOK
  <2>2. NotAhead(b)'
      BY <1>2, <1>4, <1>11, ReadNotAhead DEF EnvironmentKept
  <2>3. RequestsKnown(b)'
    <3> SUFFICES ASSUME NEW q \in Requests
                 PROVE /\ cache'[b].req[q] \in Final => q \in announced'
                       /\ cache'[b].art[q] => Whole(q)'
        BY DEF RequestsKnown
    <3>1. /\ cache[b].req[q] \in Final => q \in announced
          /\ cache[b].art[q] => Whole(q)
        BY <1>1 DEF SessionOK, RequestsKnown
    <3>2. cache'[b].art[q] => cache[b].art[q] \/ (q = r /\ pc[b] = "replace")
      <4>1. cache[b].art \in [Requests -> BOOLEAN]
          BY <1>1 DEF BatchTyped, Sessions
      <4> QED
          BY <1>2, <4>1
    <3> QED
        BY <1>2, <1>8, <1>9, <3>1, <3>2 DEF RequestRowsKept
  <2>4. RefreshOK(b)'
    <3>1. rowLock'[r] = b
        BY <1>2, <1>3
    <3>2. \A t \in TasksOf(r) : cache'[b].tasks[t] = "succeeded"
        BY <1>2, <1>3
    <3>3. pc'[b] = "replace" => temporary'[r] = TasksOf(r)
        BY <1>1, <1>2, <1>4, <1>6 DEF TypeOK
    <3>4. pc'[b] = "store" => cache'[b].art[r]
      <4>1. cache[b].art \in [Requests -> BOOLEAN]
          BY <1>1 DEF BatchTyped, Sessions
      <4> QED
          BY <1>2, <1>4, <4>1
    <3> QED
        BY <1>3, <1>4, <3>1, <3>2, <3>3, <3>4 DEF RefreshOK
  <2>5. ReadbackOK(b)'
      BY <1>4 DEF ReadbackOK
  <2> QED
      BY <2>1, <2>2, <2>3, <2>4, <2>5 DEF SessionOK
<1>14. ClaimsVisible' /\ LeasesSeparateBatches'
  <2>1. \A t \in Tasks : Holds(b, t)' => Holds(b, t)
      BY <1>2, <1>4 DEF Holds
  <2> QED
      BY <1>2, <2>1, LeasesFrame
<1> QED
    BY <1>10, <1>11, <1>12, <1>13, <1>14, Assemble

\* The commit of a refresh: a final verdict is backed although the session
\* it was computed from may be old.
LEMMA RefreshCommitKeeps ==
    ASSUME BatchInv, NEW b \in Batches, RefreshCommit(b)
    PROVE BatchInv'
<1> DEFINE r == Req(b)
           v == Verdict(b)
<1>1. TypeOK /\ SessionOK(b) /\ PhaseOK(b) /\ BatchTyped
    BY AtHand
<1>2. /\ pc[b] = "store" /\ task[b] \in Tasks /\ r \in Requests
      /\ v \in RequestStates
      /\ reqStatus' = [reqStatus EXCEPT ![r] = IF v # cache[b].req[r] THEN v ELSE @]
      /\ artifact' = [artifact EXCEPT ![r] = @ \/ cache[b].art[r]]
      /\ announced' = announced \union {s \in {r} : BecameTerminal(b)}
      /\ rowLock' = Released(b) /\ BatchTyped'
      /\ pc'[b] \in {"idle", "next"} /\ todo'[b] = todo[b]
      /\ pc'[b] = "next" => todo[b] # {}
      /\ OthersKept(b) /\ TasksRead(b) /\ ArtifactsRead(b)
      /\ \A q \in Requests : cache'[b].req[q] \in
            {IF q = r THEN v ELSE cache[b].req[q], "unread"}
      /\ TaskRowsKept /\ FilesKept
      /\ seeded' = seeded /\ deleted' = deleted /\ overruns' = overruns
    BY <1>1, RefreshCommitEffect
<1>3. RefreshOK(b) /\ NotAhead(b) /\ RequestsKnown(b) /\ RowsOK
    BY <1>1 DEF SessionOK, BatchInv
<1>4. v \in Final => \A t \in TasksOf(r) : status[t] \in Terminal
  <2> SUFFICES ASSUME v \in Final PROVE \A t \in TasksOf(r) : status[t] \in Terminal
      OBVIOUS
  <2> DEFINE S == {cache[b].tasks[t] : t \in TasksOf(r)}
  <2>1. cache[b].tasks \in [Tasks -> TaskStates \union {"unread"}]
      BY <1>1 DEF BatchTyped, Sessions
  <2>2. S \subseteq TaskStates
      BY <1>2, <1>3, <2>1 DEF RefreshOK, TasksOf
  <2>3. S \subseteq Terminal
      BY <2>2, AggregateFacts DEF Verdict
  <2> QED
      BY <1>2, <1>3, <2>3 DEF NotAhead, TasksOf
<1>5. v \in Final => r \in announced'
    BY <1>2, <1>3 DEF BecameTerminal, RequestsKnown
<1>6. KindOf[r] = "access" /\ v \in {"completed", "partial"} => cache[b].art[r]
    BY <1>2, <1>3 DEF RefreshOK
<1> HIDE DEF r, v
<1>7. \A q \in Requests : Whole(q) => Whole(q)'
    BY <1>2, WholeKept DEF TaskRowsKept, FilesKept
<1>8. /\ reqStatus'[r] \in {v, reqStatus[r]}
      /\ artifact'[r] = (artifact[r] \/ cache[b].art[r])
      /\ \A q \in Requests \ {r} : reqStatus'[q] = reqStatus[q] /\ artifact'[q] = artifact[q]
    BY <1>1, <1>2 DEF TypeOK
<1>9. TypeOK'
  <2>1. /\ reqStatus' \in [Requests -> RequestStates]
        /\ rowLock' \in [Requests -> Batches \union {NoBatch}]
      BY <1>1, <1>2 DEF TypeOK, Released
  <2>2. artifact' \in [Requests -> BOOLEAN]
    <3>1. cache[b].art \in [Requests -> BOOLEAN]
        BY <1>1 DEF BatchTyped, Sessions
    <3> QED
        BY <1>1, <1>2, <3>1 DEF TypeOK
  <2> QED
      BY <1>1, <1>2, <2>1, <2>2 DEF TypeOK, BatchTyped, TaskRowsKept, FilesKept
<1>10. EnvironmentKept(b)
  <2>1. \A q \in Requests : rowLock[q] \in Batches \ {b} => rowLock'[q] = rowLock[q]
      BY <1>2 DEF Released
  <2> QED
      BY <1>2, <1>7, <2>1 DEF EnvironmentKept, TaskRowsKept, FilesKept
<1>11. SessionOK(b)'
  <2>1. PhaseOK(b)'
      BY <1>2 DEF PhaseOK
  <2>2. NotAhead(b)'
      BY <1>2, <1>10, ReadNotAhead DEF EnvironmentKept
  <2>3. RequestsKnown(b)'
    <3> SUFFICES ASSUME NEW q \in Requests
                 PROVE /\ cache'[b].req[q] \in Final => q \in announced'
                       /\ cache'[b].art[q] => Whole(q)'
        BY DEF RequestsKnown
    <3>1. cache'[b].art[q] => Whole(q)
        BY <1>2, <1>3 DEF ArtifactsRead, RequestsKnown, RowsOK
    <3>2. cache'[b].req[q] \in Final => q \in announced'
      <4>1. CASE q = r
          BY <1>2, <1>5, <4>1 DEF Final
      <4>2. CASE q # r
          BY <1>2, <1>3, <4>2 DEF Final, RequestsKnown
      <4> QED
          BY <4>1, <4>2
    <3> QED
        BY <1>7, <3>1, <3>2
  <2>4. RefreshOK(b)' /\ ReadbackOK(b)'
      BY <1>2, EarlyPhases
  <2> QED
      BY <2>1, <2>2, <2>3, <2>4 DEF SessionOK
<1>12. RowsOK'
  <2>1. \A t \in Tasks : status'[t] = "failed" => CanFail(t)
      BY <1>2, <1>3 DEF RowsOK, TaskRowsKept
  <2>2. \A q \in Requests : artifact'[q] => Whole(q)'
      BY <1>2, <1>3, <1>7, <1>8 DEF RowsOK, RequestsKnown
  <2>3. VerdictBacked'
    <3> SUFFICES ASSUME NEW q \in Requests, reqStatus'[q] \in Final
                 PROVE /\ \A t \in TasksOf(q) : status'[t] \in Terminal
                       /\ q \in announced'
                       /\ KindOf[q] = "access" /\ reqStatus'[q] # "failed" => artifact'[q]
        BY DEF VerdictBacked
    <3>1. CASE q = r /\ reqStatus'[r] = v
      <4>1. v \in {"completed", "partial", "failed"}
          BY <3>1 DEF Final
      <4> QED
          BY <1>2, <1>4, <1>5, <1>6, <1>8, <3>1, <4>1 DEF TaskRowsKept
    <3>2. CASE reqStatus'[q] = reqStatus[q]
        BY <1>2, <1>3, <1>8, <3>2 DEF RowsOK, VerdictBacked, TaskRowsKept
    <3> QED
        BY <1>8, <3>1, <3>2
  <2> QED
      BY <2>1, <2>2, <2>3 DEF RowsOK
<1>13. ClaimsVisible' /\ LeasesSeparateBatches'
  <2>1. \A t \in Tasks : Holds(b, t)' => Holds(b, t)
      BY <1>2 DEF Holds
  <2> QED
      BY <1>2, <2>1, LeasesFrame
<1> QED
    BY <1>9, <1>10, <1>11, <1>12, <1>13, Assemble

\* Seeds, empty claims, stuttering, and leases that expire: a lease that
\* expires under its batch is an overrun.
LEMMA QuietKeeps ==
    ASSUME BatchInv,
           \/ \E s \in Seeds : Seed(s)
           \/ \E b \in Batches : EmptyClaim(b)
           \/ \E t \in Tasks : LeaseExpire(t)
           \/ UNCHANGED vars
    PROVE BatchInv'
<1>1. TypeOK
    BY DEF BatchInv
<1>2. /\ QuietStep
      /\ \/ live' = live /\ overruns' = overruns
         \/ \E t \in Tasks :
               /\ live' = [live EXCEPT ![t] = FALSE]
               /\ IF \E b \in Batches : Holds(b, t) THEN overruns' = overruns + 1
                                                    ELSE overruns' = overruns
    BY <1>1, QuietEffect
<1>3. /\ pc' = pc /\ todo' = todo /\ task' = task /\ cache' = cache
      /\ found' = found /\ checked' = checked /\ status' = status
      /\ rowLock' = rowLock /\ deleted' = deleted
      /\ RequestRowsKept /\ FilesKept
    BY <1>2 DEF QuietStep, batchVars
<1>4. TypeOK'
  <2>1. live' \in [Tasks -> BOOLEAN]
      BY <1>1, <1>2 DEF TypeOK
  <2>2. overruns' \in Nat
    <3>1. overruns' = overruns \/ overruns' = overruns + 1
        BY <1>2
    <3> QED
        BY <1>1, <3>1 DEF TypeOK
  <2> QED
      BY <1>1, <1>3, <2>1, <2>2 DEF TypeOK, RequestRowsKept, FilesKept
<1>5. \A r \in Requests : Whole(r) <=> Whole(r)'
    BY <1>3, WholeKept DEF FilesKept
<1>6. RowsOK'
    BY <1>3, <1>5, RowsKeptOK
<1>7. ASSUME NEW b \in Batches PROVE SessionOK(b)'
  <2>1. SessionOK(b)
      BY DEF BatchInv
  <2>2. Req(b)' = Req(b) /\ Verdict(b)' = Verdict(b)
      BY <1>3 DEF Req, Verdict
  <2>3. PhaseOK(b)'
      BY <1>3, <2>1, <2>2 DEF SessionOK, PhaseOK
  <2>4. NotAhead(b)'
      BY <1>3, <2>1 DEF SessionOK, NotAhead
  <2>5. RequestsKnown(b)'
      BY <1>3, <1>5, <2>1 DEF SessionOK, RequestsKnown, RequestRowsKept
  <2>6. RefreshOK(b)'
      BY <1>3, <2>1, <2>2 DEF SessionOK, RefreshOK, FilesKept
  <2>7. ReadbackOK(b)'
      BY <1>3, <2>1, <2>2 DEF SessionOK, ReadbackOK
  <2> QED
      BY <2>3, <2>4, <2>5, <2>6, <2>7 DEF SessionOK
<1>8. \A b \in Batches, t \in Tasks : Holds(b, t)' <=> Holds(b, t)
    BY <1>3 DEF Holds
<1>9. overruns' = 0 => overruns = 0
    BY <1>1, <1>2 DEF TypeOK
<1>10. LeasesSeparateBatches'
    BY <1>8, <1>9 DEF BatchInv, LeasesSeparateBatches
<1>11. ClaimsVisible'
  <2> SUFFICES ASSUME overruns' = 0, NEW b \in Batches, NEW t \in Tasks, Holds(b, t)
               PROVE status'[t] = "running" /\ live'[t]
      BY <1>8 DEF ClaimsVisible
  <2>1. status[t] = "running" /\ live[t]
      BY <1>9 DEF BatchInv, ClaimsVisible
  <2>2. CASE live' = live
      BY <1>3, <2>1, <2>2
  <2>3. ASSUME NEW u \in Tasks, live' = [live EXCEPT ![u] = FALSE],
               IF \E c \in Batches : Holds(c, u) THEN overruns' = overruns + 1
                                                 ELSE overruns' = overruns
        PROVE live'[t]
    <3>1. u # t
        BY <1>1, <1>9, <2>3 DEF TypeOK
    <3> QED
        BY <1>1, <2>1, <2>3, <3>1 DEF TypeOK
  <2> QED
      BY <1>2, <1>3, <2>1, <2>2, <2>3
<1> QED
    BY <1>4, <1>6, <1>7, <1>10, <1>11 DEF BatchInv

\* Every step is of one of these kinds, and keeps the invariant.
LEMMA BatchInvStep == BatchInv /\ [Next]_vars => BatchInv'
<1> SUFFICES ASSUME BatchInv, [Next]_vars PROVE BatchInv'
    OBVIOUS
<1>1. ASSUME NEW b \in Batches, BatchStep(b) PROVE BatchInv'
    BY <1>1, LoadKeeps, LeaveKeeps, ExecuteAccessKeeps, SelectKeeps, DeleteKeeps,
       CommitResultKeeps, RefreshLoadKeeps, StoreKeeps, RefreshCommitKeeps
       DEF BatchStep
<1>2. ASSUME NEW b \in Batches, Claim(b) \/ Crash(b) PROVE BatchInv'
    BY <1>2, ClaimKeeps, LeaveKeeps
<1>3. CASE \/ \E s \in Seeds : Seed(s)
           \/ \E b \in Batches : EmptyClaim(b)
           \/ \E t \in Tasks : LeaseExpire(t)
           \/ UNCHANGED vars
    BY <1>3, QuietKeeps
<1> QED
    BY <1>1, <1>2, <1>3 DEF Next

-----------------------------------------------------------------------------
\* The invariant holds in every reachable state, whatever batches overlap,
\* crash, overrun their leases and work from old sessions.
THEOREM BatchInvariant == Spec => []BatchInv
BY BatchInit, BatchInvStep, PTL DEF Spec

\* While no lease expires under its batch, process_once calls never share a
\* task, also with one worker_id for all of them.
THEOREM LeasesSeparate == Spec => []LeasesSeparateBatches
<1>1. BatchInv => LeasesSeparateBatches
    BY DEF BatchInv
<1> QED
    BY <1>1, BatchInvariant, PTL

\* refresh_request_status never commits a final status that its tasks, its
\* event and its artifact do not back, although its session may hold old rows.
THEOREM VerdictsBacked == Spec => []VerdictBacked
<1>1. BatchInv => VerdictBacked
    BY DEF BatchInv, RowsOK
<1> QED
    BY <1>1, BatchInvariant, PTL

\* The artifact route serves whole documents only, also while the local store
\* writes the same file again and after crashes in the middle of that.
THEOREM DownloadsWhole == Spec => []DownloadIsWhole
<1>1. BatchInv => DownloadIsWhole
  <2> SUFFICES ASSUME BatchInv, NEW r \in Requests, artifact[r]
               PROVE Download(r) = {t \in TasksOf(r) : status[t] = "succeeded"}
      BY DEF DownloadIsWhole
  <2>1. file[r] = TasksOf(r) /\ \A t \in TasksOf(r) : status[t] = "succeeded"
      BY DEF BatchInv, RowsOK, Whole
  <2>2. {t \in TasksOf(r) : status[t] = "succeeded"} = TasksOf(r)
      BY <2>1
  <2>3. file[r] # NoFile
      BY <2>1, BatchAssumption DEF TasksOf
  <2> QED
      BY <2>1, <2>2, <2>3 DEF Download
<1> QED
    BY <1>1, BatchInvariant, PTL

\* A delete recorded as succeeded has deleted every record its readback could
\* see, whoever seeded or deleted records while it ran.
THEOREM DeletesVerified == Spec => DeleteVerified
<1> DEFINE Verified ==
        \A b \in Batches :
            Succeeds(b) => checked[b] \X {SourceOf[task[b]]} \subseteq deleted'
<1>1. BatchInv /\ [Next]_vars => [Verified]_vars
  <2> SUFFICES ASSUME BatchInv, [Next]_vars, NEW b \in Batches, Succeeds(b)
               PROVE checked[b] \X {SourceOf[task[b]]} \subseteq deleted'
      OBVIOUS
  <2>1. /\ pc[b] = "commit" /\ pc'[b] = "refresh" /\ KindOf[Req(b)] = "delete"
        /\ cache[b].tasks[task[b]] = "succeeded"
      BY DEF Succeeds
  <2>2. checked[b] \X {SourceOf[task[b]]} \subseteq deleted \union found[b]
      BY <2>1 DEF BatchInv, SessionOK, ReadbackOK
  <2>3. CommitResult(b)
    <3>1. ASSUME NEW c \in Batches,
                 Claim(c) \/ EmptyClaim(c) \/ BatchStep(c) \/ Crash(c)
          PROVE CommitResult(b)
      <4>1. TypeOK /\ PhaseOK(c) /\ BatchTyped
          BY AtHand
      <4>2. CASE c # b
        <5>1. pc'[b] = pc[b]
          <6>1. CASE EmptyClaim(c)
              BY <6>1 DEF EmptyClaim, vars, batchVars
          <6>2. CASE Claim(c) \/ BatchStep(c) \/ Crash(c)
            <7>1. OthersKept(c)
                BY <4>1, <6>2, ClaimEffect, LoadEffect, LeaveEffect,
                   ExecuteAccessEffect, SelectEffect, DeleteEffect,
                   CommitResultEffect, RefreshLoadEffect, StoreEffect,
                   RefreshCommitEffect
                   DEF BatchStep
            <7> QED
                BY <4>2, <7>1 DEF OthersKept
          <6> QED
              BY <3>1, <6>1, <6>2
        <5> QED
            BY <2>1, <5>1
      <4>3. CASE c = b
        <5>1. ~Claim(b) /\ ~Load(b) /\ ~LoadLost(b) /\ ~ExecuteAccess(b)
              /\ ~SelectRecords(b) /\ ~DeleteRecords(b) /\ ~RefreshLoad(b)
              /\ ~OpenTemporary(b) /\ ~WriteTemporary(b) /\ ~ReplaceFile(b)
              /\ ~RefreshCommit(b) /\ ~EmptyClaim(b)
            BY <2>1 DEF Claim, Load, LoadLost, ExecuteAccess, SelectRecords,
                        DeleteRecords, RefreshLoad, OpenTemporary, WriteTemporary,
                        ReplaceFile, RefreshCommit, EmptyClaim
        <5>2. ~Crash(b)
            BY <2>1, <4>1, <4>3, LeaveEffect
        <5> QED
            BY <3>1, <4>3, <5>1, <5>2 DEF BatchStep
      <4> QED
          BY <4>2, <4>3
    <3>2. CASE \/ \E s \in Seeds : Seed(s)
               \/ \E t \in Tasks : LeaseExpire(t)
               \/ UNCHANGED vars
      <4>1. QuietStep
          BY <3>2, QuietEffect DEF BatchInv
      <4> QED
          BY <2>1, <4>1 DEF QuietStep, batchVars
    <3> QED
        BY <3>1, <3>2 DEF Next
  <2>4. deleted' = deleted \union found[b]
      BY <2>3 DEF CommitResult
  <2> QED
      BY <2>2, <2>4
<1> QED
    BY <1>1, BatchInvariant, PTL DEF Spec, DeleteVerified
=============================================================================
