------------------------------- MODULE Intake -------------------------------
(***************************************************************************)
(* Request admission: create_privacy_request and its POST route            *)
(* (src/src/privacy_cloud/services/requests.py, api/routes.py) under       *)
(* concurrent and repeated submissions, together with the workers that     *)
(* append to the same tenants' audit chains (AuditChain).                  *)
(*                                                                         *)
(* A call reads, inserts, waits for the unique index and for the advisory  *)
(* lock, commits and answers in separate steps.  Its process may exit at   *)
(* any of them; the client then submits again.                             *)
(***************************************************************************)
EXTENDS Naturals, FiniteSets, Sequences

CONSTANTS
    Callers,        \* submissions, each repeated by its client when it fails
    KeyOf,          \* (tenant_id, Idempotency-Key) of a submission
    CommandOf,      \* the validated body: subject, kind, sources
    Normal,         \* hash_subject of a subject spelling
    MaxRetries,     \* bound: resubmissions of all calls
    Tenants, Writers, TenantOf, MaxAppends, NoWriter,
    None

Keys == {KeyOf[c] : c \in Callers}

ASSUME CallAssumption ==
    /\ Callers \subseteq Writers
    /\ TenantOf \in [Writers -> Tenants]
    /\ NoWriter \notin Writers
    /\ \A c, d \in Callers : KeyOf[c] = KeyOf[d] => TenantOf[c] = TenantOf[d]
    /\ MaxRetries \in Nat
    /\ MaxAppends \in Nat \ {0}
    /\ None \notin Keys

VARIABLES
    rows,       \* committed privacy_requests with their tasks
    ready,      \* committed outbox rows: (request, source) of a ready event
    pc, answer, retries,
    audit, advisory, step, draft    \* of AuditChain

Audit == INSTANCE AuditChain WITH
    tampered <- {}, TamperAllowed <- FALSE, Forged <- NoWriter

callVars == <<rows, ready, pc, answer, retries>>
chainVars == <<audit, advisory, step, draft>>
vars == <<callVars, chainVars>>

-----------------------------------------------------------------------------
SourcesIn(s) == {s[i] : i \in DOMAIN s}

\* The row a call inserts; its id is fresh.
Row(c) == [id |-> c, key |-> KeyOf[c],
           subject |-> Normal[CommandOf[c].subject],
           kind |-> CommandOf[c].kind, sources |-> CommandOf[c].sources]

\* _same_command: the hashed subject, the kind, and the sources in any order.
SameCommand_InOrder(row, cmd) ==
    /\ row.subject = Normal[cmd.subject]
    /\ row.kind = cmd.kind
    /\ row.sources = cmd.sources
SameCommand(row, cmd) ==
    /\ row.subject = Normal[cmd.subject]
    /\ row.kind = cmd.kind
    /\ SourcesIn(row.sources) = SourcesIn(cmd.sources)

\* _find_by_idempotency: the committed rows of the key of c.
Existing(c) == {row \in rows : row.key = KeyOf[c]}

\* What the route returns: 201 or 200 with the request, 409, or the re-raised
\* IntegrityError.
Created_Accepted(c) == [code |-> 202, id |-> c]
Created(c) == [code |-> 201, id |-> c]
Replay(row, c) == IF SameCommand(row, CommandOf[c])
                  THEN [code |-> 200, id |-> row.id]
                  ELSE [code |-> 409, id |-> None]
Unexplained == [code |-> 500, id |-> None]

Init ==
    /\ rows = {}
    /\ ready = {}
    /\ pc = [c \in Callers |-> "find"]
    /\ answer = [c \in Callers |-> None]
    /\ retries = 0
    /\ Audit!Init

ReplyWith(c, a) ==
    /\ answer' = [answer EXCEPT ![c] = a]
    /\ pc' = [pc EXCEPT ![c] = "answered"]
    /\ UNCHANGED <<rows, ready, retries>>

Goto(c, label) ==
    /\ pc' = [pc EXCEPT ![c] = label]
    /\ UNCHANGED <<rows, ready, answer, retries>>

\* The first lookup.
Find(c) ==
    /\ pc[c] = "find"
    /\ \/ \E row \in Existing(c) : ReplyWith(c, Replay(row, c))
       \/ Existing(c) = {} /\ Goto(c, "insert")
    /\ UNCHANGED chainVars

\* Another transaction has inserted the key and not ended yet.
HasFlushed(d) == pc[d] = "append"
KeyPending(c) == \E d \in Callers \ {c} : HasFlushed(d) /\ KeyOf[d] = KeyOf[c]

\* The flush reports a duplicate key.
KeyTaken_Never(c) == FALSE
KeyTaken(c) == Existing(c) # {}

\* The flush: uq_request_idempotency makes it wait for a pending insert of
\* the same key; after that transaction's commit it raises IntegrityError,
\* and the session rolls back.
Flush(c) ==
    /\ pc[c] = "insert"
    /\ ~KeyPending(c)
    /\ Goto(c, IF KeyTaken(c) THEN "refind" ELSE "append")
    /\ UNCHANGED chainVars

\* append_audit in the transaction of the call.
AppendAudit(c) ==
    /\ pc[c] = "append"
    /\ Audit!Lock(c) \/ Audit!ReadHead(c) \/ Audit!Insert(c)
    /\ UNCHANGED callVars

\* The commit: request, tasks, outbox rows and audit event together.
CommitRequest(c) ==
    /\ pc[c] = "append"
    /\ Audit!Commit(c)
    /\ rows' = rows \union {Row(c)}
    /\ ready' = ready \union {<<c, s>> : s \in SourcesIn(CommandOf[c].sources)}
    /\ pc' = [pc EXCEPT ![c] = "respond"]
    /\ UNCHANGED <<answer, retries>>

Respond(c) ==
    /\ pc[c] = "respond"
    /\ ReplyWith(c, Created(c))
    /\ UNCHANGED chainVars

\* The lookup after an IntegrityError.
Refind_Reraise(c) ==
    /\ pc[c] = "refind"
    /\ ReplyWith(c, Unexplained)
    /\ UNCHANGED chainVars
Refind_InsertAgain(c) ==
    /\ pc[c] = "refind"
    /\ Goto(c, "insert")
    /\ UNCHANGED chainVars
Refind(c) ==
    /\ pc[c] = "refind"
    /\ ReplyWith(c, IF Existing(c) = {} THEN Unexplained
                    ELSE Replay(CHOOSE row \in Existing(c) : TRUE, c))
    /\ UNCHANGED chainVars

\* The API process exits or the connection drops: the open transaction rolls
\* back, and the client submits the same call again.
Crash(c) ==
    /\ pc[c] # "answered"
    /\ retries < MaxRetries
    /\ retries' = retries + 1
    /\ pc' = [pc EXCEPT ![c] = "find"]
    /\ UNCHANGED <<rows, ready, answer>>
    /\ \/ Audit!Rollback(c)
       \/ step[c] = "none" /\ UNCHANGED chainVars

\* A worker's transaction appends to the chain.
WorkerAppend(w) ==
    /\ Audit!Append(w)
    /\ UNCHANGED callVars

Done == (\A c \in Callers : pc[c] = "answered") /\ UNCHANGED vars

CallStep(c) == \/ Find(c) \/ Flush(c) \/ AppendAudit(c) \/ CommitRequest(c)
               \/ Respond(c) \/ Refind(c)

Next ==
    \/ \E c \in Callers : CallStep(c) \/ Crash(c)
    \/ \E w \in Writers \ Callers : WorkerAppend(w)
    \/ Done

Spec == Init /\ [][Next]_vars

\* The event loop runs every call, PostgreSQL ends every transaction and
\* grants its locks to some waiter; a worker's transaction ends.
Fairness ==
    /\ \A c \in Callers : SF_vars(CallStep(c))
    /\ \A w \in Writers \ Callers : WF_vars(WorkerAppend(w))

FairSpec == Spec /\ Fairness

-----------------------------------------------------------------------------
\* A command up to its spelling.
Meaning(row) == <<row.subject, row.kind, SourcesIn(row.sources)>>

Labels == {"find", "insert", "append", "refind", "respond", "answered"}
Answers == [code : {200, 201, 409, 500}, id : Callers \union {None}]

\* None is told apart from an answer and from a binding.
ASSUME NoneAssumption ==
    /\ None \notin Answers
    /\ None \notin {[meaning |-> Meaning(Row(c)), id |-> c] : c \in Callers}

\* Calls and rows have their types.
TypeOK ==
    /\ \A row \in rows : row.id \in Callers /\ row.key \in Keys
    /\ ready \subseteq Callers \X UNION {SourcesIn(CommandOf[c].sources) : c \in Callers}
    /\ pc \in [Callers -> Labels]
    /\ answer \in [Callers -> Answers \union {None}]
    /\ retries \in 0..MaxRetries

\* However submissions race, repeat and crash, a key has one request, with
\* one ready event per selected source and the creation in the audit chain;
\* no other ready or creation event exists.
OneRequestPerKey ==
    /\ \A r, q \in rows : r.key = q.key => r = q
    /\ ready = UNION {{<<r.id, s>> : s \in SourcesIn(r.sources)} : r \in rows}
    /\ {r.id : r \in rows} = {e.body : e \in audit} \intersect Callers

\* What calls were told is consistent: a request id is the one of the key,
\* for an equivalent command; a conflict is a real one; 201 is said once per
\* key; and no call ends in an unexplained error.
AnswersAgree ==
    \A c \in Callers :
        answer[c] # None =>
            /\ answer[c].code \in {200, 201} =>
                  \E row \in rows : /\ row.key = KeyOf[c] /\ row.id = answer[c].id
                                    /\ SameCommand(row, CommandOf[c])
            /\ answer[c].code = 409 =>
                  \E row \in rows : /\ row.key = KeyOf[c]
                                    /\ ~SameCommand(row, CommandOf[c])
            /\ answer[c].code # 500
            /\ \A d \in Callers \ {c} :
                  /\ answer[d] # None
                  /\ answer[c].code = 201 /\ KeyOf[c] = KeyOf[d]
                  => answer[d].code # 201

\* The chains of all tenants verify although admissions and workers append
\* to them concurrently, and no admission is aborted by the chain's index.
ChainSound == Audit!ChainValid /\ Audit!AppendNeverCollides

\* Every submission is answered in the end: waits for the index and for the
\* advisory lock are finite and never circular.
EveryCallAnswered == \A c \in Callers : <>(pc[c] = "answered")

-----------------------------------------------------------------------------
\* What a key stands for, and what a call was told.
Binding(k) ==
    IF \E row \in rows : row.key = k
    THEN LET row == CHOOSE r \in rows : r.key = k
         IN [meaning |-> Meaning(row), id |-> row.id]
    ELSE None
Told(c) == IF answer[c] = None THEN None
           ELSE IF answer[c].code = 409 THEN "conflict" ELSE answer[c].id

Contract == INSTANCE IdempotencyContract WITH
    MeaningOf <- [c \in Callers |-> Meaning(Row(c))],
    registry <- [k \in Keys |-> Binding(k)],
    answer <- [c \in Callers |-> Told(c)]

\* Admission implements the idempotency contract: a key is bound once, to the
\* first committed command, and all calls are answered from that binding.
ImplementsContract == Contract!Spec
-----------------------------------------------------------------------------
(* The inductive invariant behind the safety properties.                     *)

\* A request is the one its call described.
RowsDescribed == \A row \in rows : row = Row(row.id)

\* Only the flushed transaction of a call is inside append_audit.
AppendsInside == \A c \in Callers : step[c] # "none" => pc[c] = "append"

\* A flushed key belongs to nobody else: no committed row has it and no other
\* open transaction inserted it.
FlushedAlone ==
    \A c \in Callers : pc[c] = "append" => Existing(c) = {} /\ ~KeyPending(c)

\* A call that is past its commit or its IntegrityError finds the request.
RequestThere ==
    \A c \in Callers : /\ pc[c] = "respond" => Row(c) \in rows
                       /\ pc[c] = "refind" => Existing(c) # {}

\* Calls are answered once, and 201 goes to the call that created the request.
AnsweredOnce ==
    \A c \in Callers :
        /\ pc[c] # "answered" => answer[c] = None
        /\ answer[c] # None /\ answer[c].code = 201 => answer[c].id = c

\* All of it.
IntakeInv ==
    /\ TypeOK
    /\ Audit!ChainInv
    /\ RowsDescribed
    /\ AppendsInside
    /\ FlushedAlone
    /\ RequestThere
    /\ AnsweredOnce
    /\ OneRequestPerKey
    /\ AnswersAgree
=============================================================================
