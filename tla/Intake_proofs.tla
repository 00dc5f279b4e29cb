---------------------------- MODULE Intake_proofs ----------------------------
(***************************************************************************)
(* Proofs about Intake for any number of submissions, keys, tenants,       *)
(* workers and resubmissions: a key gets one request, every call is        *)
(* answered from it, and the chains all of them append to verify.          *)
(***************************************************************************)
EXTENDS Intake, TLAPS

\* The proofs of AuditChain, for the chains of this composition.
Chain == INSTANCE AuditChain_proofs WITH
    tampered <- {}, TamperAllowed <- FALSE, Forged <- NoWriter

-----------------------------------------------------------------------------
(* The audit chain inside the composition.                                   *)

\* The two instances of AuditChain have the same invariant.
LEMMA SameChain ==
    /\ Audit!ChainInv <=> Chain!ChainInv
    /\ Audit!ChainInv' <=> Chain!ChainInv'
<1>1. Audit!TypeOK <=> Chain!TypeOK
    BY DEF Audit!TypeOK, Chain!TypeOK, Audit!Steps, Chain!Steps
<1>2. Audit!TypeOK' <=> Chain!TypeOK'
    BY DEF Audit!TypeOK, Chain!TypeOK, Audit!Steps, Chain!Steps
<1>3. /\ Audit!LockHeld <=> Chain!LockHeld
      /\ Audit!LockHeld' <=> Chain!LockHeld'
    BY DEF Audit!LockHeld, Chain!LockHeld
<1>4. \A t, b, R : Audit!NextEvent(t, b, R) = Chain!NextEvent(t, b, R)
    BY DEF Audit!NextEvent, Chain!NextEvent, Audit!Event, Chain!Event,
           Audit!EventHash, Chain!EventHash, Audit!Genesis, Chain!Genesis,
           Audit!Last, Chain!Last
<1>5. /\ Audit!DraftsBuilt <=> Chain!DraftsBuilt
      /\ Audit!DraftsBuilt' <=> Chain!DraftsBuilt'
    BY DEF Audit!DraftsBuilt, Chain!DraftsBuilt, Audit!HasDraft, Chain!HasDraft,
           Audit!Event, Chain!Event, Audit!EventHash, Chain!EventHash
<1>6. \A R : /\ Audit!HasLast(R) <=> Chain!HasLast(R)
             /\ Audit!Genuine(R) <=> Chain!Genuine(R)
             /\ Audit!Verified(R) <=> Chain!Verified(R)
    BY DEF Audit!HasLast, Chain!HasLast, Audit!Genuine, Chain!Genuine,
           Audit!Verified, Chain!Verified, Audit!Follows, Chain!Follows,
           Audit!Event, Chain!Event, Audit!EventHash, Chain!EventHash,
           Audit!Genesis, Chain!Genesis
<1>7. ASSUME NEW t
      PROVE /\ Audit!RowsOf(t) = Chain!RowsOf(t)
            /\ Audit!RowsOf(t)' = Chain!RowsOf(t)'
            /\ Audit!Sound(t) <=> Chain!Sound(t)
            /\ Audit!Sound(t)' <=> Chain!Sound(t)'
  <2>1. /\ Audit!RowsOf(t) = Chain!RowsOf(t)
        /\ Audit!RowsOf(t)' = Chain!RowsOf(t)'
      BY DEF Audit!RowsOf, Chain!RowsOf
  <2> QED
      BY <1>4, <1>6, <2>1 DEF Audit!Sound, Chain!Sound, Audit!HasDraft, Chain!HasDraft
<1> QED
    BY <1>1, <1>2, <1>3, <1>5, <1>6, <1>7 DEF Audit!ChainInv, Chain!ChainInv

\* And the same appends.
LEMMA SameAppend ==
    ASSUME NEW w \in Writers
    PROVE Audit!Append(w) => Chain!Append(w)
<1>1. Audit!Lock(w) => Chain!Lock(w)
    BY DEF Audit!Lock, Chain!Lock, Audit!LockFree, Chain!LockFree,
           Audit!Cardinality, Chain!Cardinality
<1>2. Audit!ReadHead(w) => Chain!ReadHead(w)
    BY DEF Audit!ReadHead, Chain!ReadHead, Audit!NextEvent, Chain!NextEvent,
           Audit!Event, Chain!Event, Audit!EventHash, Chain!EventHash,
           Audit!Genesis, Chain!Genesis, Audit!Last, Chain!Last,
           Audit!RowsOf, Chain!RowsOf
<1>3. Audit!Insert(w) => Chain!Insert(w)
    BY DEF Audit!Insert, Chain!Insert, Audit!Taken, Chain!Taken
<1>4. Audit!Commit(w) => Chain!Commit(w)
    BY DEF Audit!Commit, Chain!Commit, Audit!EndTransaction, Chain!EndTransaction
<1>5. Audit!Rollback(w) => Chain!Rollback(w)
    BY DEF Audit!Rollback, Chain!Rollback, Audit!EndTransaction, Chain!EndTransaction
<1> QED
    BY <1>1, <1>2, <1>3, <1>4, <1>5 DEF Audit!Append, Chain!Append

\* The constants of the composition are fit for the chain.
LEMMA ChainAssumed == Chain!ChainAssumption
BY CallAssumption DEF Chain!ChainAssumption

\* Appends of any writer, and steps that leave the chains alone, keep the
\* chain's invariant.
LEMMA ChainKept ==
    ASSUME Audit!ChainInv,
           (\E w \in Writers : Audit!Append(w)) \/ UNCHANGED chainVars
    PROVE Audit!ChainInv'
<1>1. Chain!ChainInv
    BY SameChain
<1>2. [Chain!Next]_Chain!vars
  <2>1. CASE \E w \in Writers : Audit!Append(w)
      BY <2>1, SameAppend DEF Chain!Next
  <2>2. CASE UNCHANGED chainVars
      BY <2>2 DEF chainVars, Chain!vars, Chain!chainVars
  <2> QED
      BY <2>1, <2>2
<1>3. Chain!ChainInv'
    BY <1>1, <1>2, ChainAssumed, Chain!ChainStep
<1> QED
    BY <1>3, SameChain

-----------------------------------------------------------------------------
(* The steps of the calls.                                                   *)

\* What a call would be told from the row of its key.
LEMMA ReplayFacts ==
    ASSUME IntakeInv, NEW c \in Callers, NEW row \in Existing(c)
    PROVE /\ row \in rows /\ row.key = KeyOf[c]
          /\ row.id \in Callers /\ row = Row(row.id)
          /\ Replay(row, c) \in Answers
          /\ SameCommand(row, CommandOf[c]) <=> Replay(row, c).code = 200
          /\ ~SameCommand(row, CommandOf[c]) <=> Replay(row, c).code = 409
          /\ Replay(row, c).code = 200 => Replay(row, c).id = row.id
<1>1. /\ row \in rows /\ row.key = KeyOf[c]
      /\ row.id \in Callers /\ row = Row(row.id)
    BY DEF Existing, IntakeInv, TypeOK, RowsDescribed
<1> QED
    BY <1>1 DEF Replay, Answers

\* A call accepts its own row as an equivalent command.
LEMMA OwnRow ==
    ASSUME NEW c \in Callers
    PROVE /\ Row(c).id = c /\ Row(c).key = KeyOf[c] /\ Row(c).key \in Keys
          /\ Row(c).sources = CommandOf[c].sources
          /\ SameCommand(Row(c), CommandOf[c])
BY DEF Row, SameCommand, Keys

\* The empty tables satisfy the invariant.
LEMMA IntakeInit == Init => IntakeInv
<1> SUFFICES ASSUME Init PROVE IntakeInv
    OBVIOUS
<1>1. Audit!ChainInv
  <2>1. Chain!Init
      BY DEF Init, Audit!Init, Chain!Init
  <2> QED
      BY <2>1, ChainAssumed, Chain!ChainInit, SameChain
<1>2. TypeOK
    BY CallAssumption DEF Init, TypeOK, Labels
<1>3. RowsDescribed /\ AppendsInside /\ FlushedAlone /\ RequestThere /\ AnsweredOnce
    BY CallAssumption
       DEF Init, Audit!Init, RowsDescribed, AppendsInside, FlushedAlone,
           RequestThere, AnsweredOnce
<1>4. OneRequestPerKey /\ AnswersAgree
    BY DEF Init, Audit!Init, OneRequestPerKey, AnswersAgree
<1> QED
    BY <1>1, <1>2, <1>3, <1>4 DEF IntakeInv

\* A step of the chain alone keeps it, when it commits no event of a call.
LEMMA ChainMoves ==
    ASSUME IntakeInv, UNCHANGED callVars, Audit!ChainInv',
           {e.body : e \in audit'} \intersect Callers
             = {e.body : e \in audit} \intersect Callers,
           \A c \in Callers : step'[c] # "none" => pc[c] = "append"
    PROVE IntakeInv'
<1>1. /\ rows' = rows /\ ready' = ready /\ pc' = pc /\ answer' = answer
      /\ retries' = retries
    BY DEF callVars
<1>2. TypeOK' /\ RowsDescribed' /\ RequestThere' /\ AnsweredOnce'
    BY <1>1 DEF IntakeInv, TypeOK, RowsDescribed, RequestThere, AnsweredOnce, Existing
<1>3. AppendsInside' /\ FlushedAlone'
    BY <1>1 DEF IntakeInv, AppendsInside, FlushedAlone, Existing, KeyPending, HasFlushed
<1>4. OneRequestPerKey'
    BY <1>1 DEF IntakeInv, OneRequestPerKey
<1>5. AnswersAgree'
    BY <1>1 DEF IntakeInv, AnswersAgree
<1> QED
    BY <1>2, <1>3, <1>4, <1>5 DEF IntakeInv

\* A call that goes on keeps it, when its new label is earned.
LEMMA GotoKeeps ==
    ASSUME IntakeInv, NEW c \in Callers, NEW label \in Labels \ {"answered"},
           pc[c] \notin {"append", "answered"}, Goto(c, label), UNCHANGED chainVars,
           label = "append" => Existing(c) = {} /\ ~KeyPending(c),
           label = "respond" => Row(c) \in rows,
           label = "refind" => Existing(c) # {}
    PROVE IntakeInv'
<1>1. /\ pc' = [pc EXCEPT ![c] = label]
      /\ rows' = rows /\ ready' = ready /\ answer' = answer /\ retries' = retries
      /\ audit' = audit /\ step' = step
    BY DEF Goto, chainVars
<1>2. Audit!ChainInv'
    BY ChainKept DEF IntakeInv
<1>3. pc \in [Callers -> Labels]
    BY DEF IntakeInv, TypeOK
<1>4. TypeOK' /\ RowsDescribed' /\ AnsweredOnce'
    BY <1>1, <1>3 DEF IntakeInv, TypeOK, RowsDescribed, AnsweredOnce
<1>5. RequestThere'
    BY <1>1, <1>3 DEF IntakeInv, RequestThere, Existing
<1>6. AppendsInside'
    BY <1>1, <1>3 DEF IntakeInv, AppendsInside
<1>7. FlushedAlone'
    BY <1>1, <1>3 DEF IntakeInv, FlushedAlone, Existing, KeyPending, HasFlushed
<1>8. OneRequestPerKey'
    BY <1>1 DEF IntakeInv, OneRequestPerKey
<1>9. AnswersAgree'
    BY <1>1 DEF IntakeInv, AnswersAgree
<1> QED
    BY <1>2, <1>4, <1>5, <1>6, <1>7, <1>8, <1>9 DEF IntakeInv

\* An answer from the row of the key keeps it.
LEMMA ReplyKeeps ==
    ASSUME IntakeInv, NEW c \in Callers, pc[c] \notin {"append", "answered"},
           NEW row \in Existing(c), NEW a,
           \/ a = Replay(row, c)
           \/ a = Created(c) /\ row = Row(c),
           ReplyWith(c, a), UNCHANGED chainVars
    PROVE IntakeInv'
<1>1. /\ pc' = [pc EXCEPT ![c] = "answered"]
      /\ answer' = [answer EXCEPT ![c] = a]
      /\ rows' = rows /\ ready' = ready /\ retries' = retries
      /\ audit' = audit /\ step' = step
    BY DEF ReplyWith, chainVars
<1>2. Audit!ChainInv'
    BY ChainKept DEF IntakeInv
<1>3. /\ a \in Answers /\ a # None /\ a.code # 500
      /\ row \in rows /\ row.key = KeyOf[c]
      /\ a.code \in {200, 201} => a.id = row.id /\ SameCommand(row, CommandOf[c])
      /\ a.code = 409 => ~SameCommand(row, CommandOf[c])
      /\ a.code = 201 => a.id = c
  <2>1. row \in rows /\ row.key = KeyOf[c]
      BY ReplayFacts
  <2>2. CASE a = Replay(row, c)
    <3>1. a \in Answers /\ a.code \in {200, 409}
        BY <2>2, ReplayFacts
    <3> QED
        BY <2>1, <2>2, <3>1, ReplayFacts, NoneAssumption
  <2>3. CASE a = Created(c) /\ row = Row(c)
    <3>1. a \in Answers /\ a.code = 201 /\ a.id = c
        BY <2>3 DEF Created, Answers
    <3> QED
        BY <2>1, <2>3, <3>1, OwnRow, NoneAssumption
  <2> QED
      BY <2>2, <2>3
<1>4. pc \in [Callers -> Labels] /\ answer \in [Callers -> Answers \union {None}]
    BY DEF IntakeInv, TypeOK
<1>5. TypeOK' /\ RowsDescribed'
    BY <1>1, <1>3, <1>4 DEF IntakeInv, TypeOK, RowsDescribed, Labels
<1>6. AnsweredOnce'
    BY <1>1, <1>3, <1>4 DEF IntakeInv, AnsweredOnce
<1>7. RequestThere' /\ AppendsInside'
    BY <1>1, <1>4 DEF IntakeInv, RequestThere, AppendsInside, Existing
<1>8. FlushedAlone'
    BY <1>1, <1>4 DEF IntakeInv, FlushedAlone, Existing, KeyPending, HasFlushed
<1>9. OneRequestPerKey'
    BY <1>1 DEF IntakeInv, OneRequestPerKey
<1>10. AnswersAgree'
  <2> SUFFICES ASSUME NEW d \in Callers, answer'[d] # None
        PROVE
            /\ answer'[d].code \in {200, 201} =>
                  \E r \in rows : /\ r.key = KeyOf[d] /\ r.id = answer'[d].id
                                  /\ SameCommand(r, CommandOf[d])
            /\ answer'[d].code = 409 =>
                  \E r \in rows : r.key = KeyOf[d] /\ ~SameCommand(r, CommandOf[d])
            /\ answer'[d].code # 500
            /\ \A b \in Callers \ {d} :
                  /\ answer'[b] # None
                  /\ answer'[d].code = 201 /\ KeyOf[d] = KeyOf[b]
                  => answer'[b].code # 201
      BY <1>1 DEF AnswersAgree
  <2>1. \A b \in Callers : b # c => answer'[b] = answer[b]
      BY <1>1, <1>4
  <2>2. answer'[c] = a
      BY <1>1, <1>4
  <2>3. \A b \in Callers : answer'[b] # None /\ answer'[b].code = 201 =>
            answer'[b].id = b /\ \E r \in rows : r.key = KeyOf[b] /\ r.id = b
    <3> SUFFICES ASSUME NEW b \in Callers, answer'[b] # None, answer'[b].code = 201
                 PROVE answer'[b].id = b /\ \E r \in rows : r.key = KeyOf[b] /\ r.id = b
        OBVIOUS
    <3>1. CASE b = c
        BY <3>1, <2>2, <1>3
    <3>2. CASE b # c
        BY <3>2, <2>1 DEF IntakeInv, AnswersAgree, AnsweredOnce
    <3> QED
        BY <3>1, <3>2
  <2>4. /\ answer'[d].code \in {200, 201} =>
                  \E r \in rows : /\ r.key = KeyOf[d] /\ r.id = answer'[d].id
                                  /\ SameCommand(r, CommandOf[d])
        /\ answer'[d].code = 409 =>
                  \E r \in rows : r.key = KeyOf[d] /\ ~SameCommand(r, CommandOf[d])
        /\ answer'[d].code # 500
    <3>1. CASE d = c
        BY <3>1, <2>2, <1>3
    <3>2. CASE d # c
        BY <3>2, <2>1 DEF IntakeInv, AnswersAgree
    <3> QED
        BY <3>1, <3>2
  <2>5. ASSUME NEW b \in Callers \ {d}, answer'[b] # None, answer'[d].code = 201,
               KeyOf[d] = KeyOf[b], answer'[b].code = 201
        PROVE FALSE
    <3>1. PICK r \in rows : r.key = KeyOf[b] /\ r.id = b
        BY <2>3, <2>5
    <3>2. PICK q \in rows : q.key = KeyOf[d] /\ q.id = d
        BY <2>3, <2>5
    <3> QED
        BY <2>5, <3>1, <3>2 DEF IntakeInv, OneRequestPerKey
  <2> QED
      BY <2>4, <2>5
<1> QED
    BY <1>2, <1>5, <1>6, <1>7, <1>8, <1>9, <1>10 DEF IntakeInv

\* The steps of append_audit before its commit, and a rollback, touch neither
\* the table nor other writers.
LEMMA AppendFrame ==
    ASSUME IntakeInv, NEW w \in Writers,
           \/ Audit!Lock(w) \/ Audit!ReadHead(w) \/ Audit!Insert(w)
           \/ Audit!Rollback(w)
    PROVE /\ audit' = audit /\ Audit!ChainInv'
          /\ \A v \in Writers \ {w} : step'[v] = step[v]
          /\ Audit!Rollback(w) => step'[w] = "none"
<1>1. step \in [Writers -> Audit!Steps]
    BY DEF IntakeInv, Audit!ChainInv, Audit!TypeOK
<1>2. Audit!Append(w)
    BY DEF Audit!Append
<1>3. Audit!ChainInv'
    BY <1>2, ChainKept DEF IntakeInv
<1>4. /\ audit' = audit
      /\ \A v \in Writers \ {w} : step'[v] = step[v]
      /\ Audit!Rollback(w) => step'[w] = "none"
    BY <1>1 DEF Audit!Lock, Audit!ReadHead, Audit!Insert, Audit!Rollback,
                Audit!EndTransaction
<1> QED
    BY <1>3, <1>4

\* A commit adds the event of its writer and ends its transaction.
LEMMA CommitFrame ==
    ASSUME IntakeInv, NEW w \in Writers, Audit!Commit(w)
    PROVE /\ Audit!ChainInv'
          /\ {e.body : e \in audit'} = {e.body : e \in audit} \union {w}
          /\ \A v \in Writers \ {w} : step'[v] = step[v]
          /\ step'[w] = "none"
<1>1. step \in [Writers -> Audit!Steps] /\ Audit!DraftsBuilt
    BY DEF IntakeInv, Audit!ChainInv, Audit!TypeOK
<1>2. Audit!ChainInv'
    BY ChainKept DEF IntakeInv, Audit!Append
<1>3. draft[w].body = w
  <2>1. PICK s, p : draft[w] = Audit!Event(TenantOf[w], s, w, p)
      BY <1>1 DEF Audit!Commit, Audit!DraftsBuilt, Audit!HasDraft
  <2> QED
      BY <2>1 DEF Audit!Event
<1>4. /\ audit' = audit \union {draft[w]}
      /\ step' = [step EXCEPT ![w] = "none"]
    BY DEF Audit!Commit, Audit!EndTransaction
<1> QED
    BY <1>1, <1>2, <1>3, <1>4

\* Answering and moving on keep the invariant.
LEMMA LookupsKeep ==
    ASSUME IntakeInv, NEW c \in Callers, Find(c) \/ Flush(c) \/ Respond(c) \/ Refind(c)
    PROVE IntakeInv'
<1>1. CASE Find(c)
  <2>1. ASSUME NEW row \in Existing(c), ReplyWith(c, Replay(row, c)) PROVE IntakeInv'
      BY <1>1, <2>1, ReplyKeeps DEF Find
  <2>2. CASE Existing(c) = {} /\ Goto(c, "insert")
      BY <1>1, <2>2, GotoKeeps DEF Find, Labels
  <2> QED
      BY <1>1, <2>1, <2>2 DEF Find
<1>2. CASE Flush(c)
  <2>1. CASE Existing(c) = {}
      BY <1>2, <2>1, GotoKeeps DEF Flush, KeyTaken, Labels
  <2>2. CASE Existing(c) # {}
      BY <1>2, <2>2, GotoKeeps DEF Flush, KeyTaken, Labels
  <2> QED
      BY <2>1, <2>2
<1>3. CASE Respond(c)
  <2>1. Row(c) \in Existing(c)
      BY <1>3, OwnRow DEF Respond, IntakeInv, RequestThere, Existing
  <2> QED
      BY <1>3, <2>1, ReplyKeeps DEF Respond
<1>4. CASE Refind(c)
  <2> DEFINE row == CHOOSE r \in Existing(c) : TRUE
  <2>1. row \in Existing(c)
      BY <1>4 DEF Refind, IntakeInv, RequestThere
  <2>2. ReplyWith(c, Replay(row, c)) /\ UNCHANGED chainVars /\ pc[c] = "refind"
      BY <1>4, <2>1 DEF Refind
  <2> HIDE DEF row
  <2> QED
      BY <2>1, <2>2, ReplyKeeps
<1> QED
    BY <1>1, <1>2, <1>3, <1>4

\* The commit of a request keeps it: the key was free and stays the call's.
LEMMA CommitRequestKeeps ==
    ASSUME IntakeInv, NEW c \in Callers, CommitRequest(c)
    PROVE IntakeInv'
<1>1. /\ pc[c] = "append" /\ Audit!Commit(c)
      /\ rows' = rows \union {Row(c)}
      /\ ready' = ready \union {<<c, s>> : s \in SourcesIn(CommandOf[c].sources)}
      /\ pc' = [pc EXCEPT ![c] = "respond"]
      /\ answer' = answer /\ retries' = retries
    BY DEF CommitRequest
<1>2. c \in Writers
    BY CallAssumption
<1>3. /\ Audit!ChainInv'
      /\ {e.body : e \in audit'} = {e.body : e \in audit} \union {c}
      /\ \A v \in Writers \ {c} : step'[v] = step[v]
      /\ step'[c] = "none"
    BY <1>1, <1>2, CommitFrame
<1>4. pc \in [Callers -> Labels] /\ Existing(c) = {} /\ ~KeyPending(c)
    BY <1>1 DEF IntakeInv, TypeOK, FlushedAlone
<1>5. /\ Row(c).id = c /\ Row(c).key = KeyOf[c] /\ Row(c).key \in Keys
      /\ Row(c).sources = CommandOf[c].sources
    BY OwnRow
<1>6. TypeOK'
  <2>1. ready' \subseteq Callers \X UNION {SourcesIn(CommandOf[d].sources) : d \in Callers}
      BY <1>1 DEF IntakeInv, TypeOK
  <2> QED
      BY <1>1, <1>4, <1>5, <2>1 DEF IntakeInv, TypeOK, Labels
<1>7. RowsDescribed' /\ AnsweredOnce'
    BY <1>1, <1>4, <1>5 DEF IntakeInv, RowsDescribed, AnsweredOnce
<1>8. RequestThere'
    BY <1>1, <1>4 DEF IntakeInv, RequestThere, Existing
<1>9. AppendsInside'
    BY <1>1, <1>3, <1>4, CallAssumption DEF IntakeInv, AppendsInside
<1>10. FlushedAlone'
    BY <1>1, <1>4, <1>5 DEF IntakeInv, FlushedAlone, Existing, KeyPending, HasFlushed
<1>11. OneRequestPerKey'
  <2>1. \A r, q \in rows' : r.key = q.key => r = q
      BY <1>1, <1>4, <1>5 DEF IntakeInv, OneRequestPerKey, Existing
  <2>2. ready' = UNION {{<<r.id, s>> : s \in SourcesIn(r.sources)} : r \in rows'}
    <3> DEFINE Events(r) == {<<r.id, s>> : s \in SourcesIn(r.sources)}
    <3>1. ready = UNION {Events(r) : r \in rows}
        BY DEF IntakeInv, OneRequestPerKey
    <3>2. ready' = ready \union Events(Row(c))
        BY <1>1, <1>5
    <3> HIDE DEF Events
    <3>3. ready' = UNION {Events(r) : r \in rows'}
        BY <1>1, <3>1, <3>2
    <3> QED
        BY <3>3 DEF Events
  <2>3. {r.id : r \in rows'} = {e.body : e \in audit'} \intersect Callers
      BY <1>1, <1>3, <1>5 DEF IntakeInv, OneRequestPerKey
  <2> QED
      BY <2>1, <2>2, <2>3 DEF OneRequestPerKey
<1>12. AnswersAgree'
    BY <1>1 DEF IntakeInv, AnswersAgree
<1> QED
    BY <1>3, <1>6, <1>7, <1>8, <1>9, <1>10, <1>11, <1>12 DEF IntakeInv

\* A crash keeps it: the open transaction leaves nothing behind.
LEMMA CrashKeeps ==
    ASSUME IntakeInv, NEW c \in Callers, Crash(c)
    PROVE IntakeInv'
<1>1. /\ pc[c] # "answered" /\ retries < MaxRetries /\ retries' = retries + 1
      /\ pc' = [pc EXCEPT ![c] = "find"]
      /\ rows' = rows /\ ready' = ready /\ answer' = answer
    BY DEF Crash
<1>2. /\ audit' = audit /\ Audit!ChainInv' /\ step'[c] = "none"
      /\ \A v \in Writers \ {c} : step'[v] = step[v]
  <2>1. CASE Audit!Rollback(c)
      BY <2>1, AppendFrame, CallAssumption
  <2>2. CASE step[c] = "none" /\ UNCHANGED chainVars
    <3>1. Audit!ChainInv'
        BY <2>2, ChainKept DEF IntakeInv
    <3> QED
        BY <2>2, <3>1 DEF chainVars
  <2> QED
      BY <2>1, <2>2 DEF Crash
<1>3. pc \in [Callers -> Labels]
    BY DEF IntakeInv, TypeOK
<1>4. TypeOK' /\ RowsDescribed' /\ AnsweredOnce'
  <2>1. retries' \in 0..MaxRetries
      BY <1>1, CallAssumption DEF IntakeInv, TypeOK
  <2> QED
      BY <1>1, <1>3, <2>1 DEF IntakeInv, TypeOK, Labels, RowsDescribed, AnsweredOnce
<1>5. RequestThere'
    BY <1>1, <1>3 DEF IntakeInv, RequestThere, Existing
<1>6. AppendsInside'
    BY <1>1, <1>2, <1>3, CallAssumption DEF IntakeInv, AppendsInside
<1>7. FlushedAlone'
    BY <1>1, <1>3 DEF IntakeInv, FlushedAlone, Existing, KeyPending, HasFlushed
<1>8. OneRequestPerKey'
    BY <1>1, <1>2 DEF IntakeInv, OneRequestPerKey
<1>9. AnswersAgree'
    BY <1>1 DEF IntakeInv, AnswersAgree
<1> QED
    BY <1>2, <1>4, <1>5, <1>6, <1>7, <1>8, <1>9 DEF IntakeInv

\* Appends inside a call and appends of workers keep it.
LEMMA AppendsKeep ==
    ASSUME IntakeInv,
           \/ \E c \in Callers : AppendAudit(c)
           \/ \E w \in Writers \ Callers : WorkerAppend(w)
    PROVE IntakeInv'
<1>1. ASSUME NEW c \in Callers, AppendAudit(c) PROVE IntakeInv'
  <2>1. /\ pc[c] = "append" /\ UNCHANGED callVars
        /\ audit' = audit /\ Audit!ChainInv'
        /\ \A v \in Writers \ {c} : step'[v] = step[v]
      BY <1>1, AppendFrame, CallAssumption DEF AppendAudit
  <2>2. \A d \in Callers : step'[d] # "none" => pc[d] = "append"
      BY <2>1, CallAssumption DEF IntakeInv, AppendsInside
  <2> QED
      BY <2>1, <2>2, ChainMoves
<1>2. ASSUME NEW w \in Writers \ Callers, WorkerAppend(w) PROVE IntakeInv'
  <2>1. UNCHANGED callVars
      BY <1>2 DEF WorkerAppend
  <2>2. /\ Audit!ChainInv'
        /\ {e.body : e \in audit'} \intersect Callers
             = {e.body : e \in audit} \intersect Callers
        /\ \A v \in Writers \ {w} : step'[v] = step[v]
    <3>1. CASE Audit!Commit(w)
        BY <3>1, CommitFrame
    <3>2. CASE ~Audit!Commit(w)
        BY <1>2, <3>2, AppendFrame DEF WorkerAppend, Audit!Append
    <3> QED
        BY <3>1, <3>2
  <2>3. \A d \in Callers : step'[d] # "none" => pc[d] = "append"
      BY <2>2, CallAssumption DEF IntakeInv, AppendsInside
  <2> QED
      BY <2>1, <2>2, <2>3, ChainMoves
<1> QED
    BY <1>1, <1>2

\* Every step keeps the invariant.
LEMMA IntakeStep == IntakeInv /\ [Next]_vars => IntakeInv'
<1> SUFFICES ASSUME IntakeInv, [Next]_vars PROVE IntakeInv'
    OBVIOUS
<1>1. ASSUME NEW c \in Callers, CallStep(c) PROVE IntakeInv'
    BY <1>1, LookupsKeep, AppendsKeep, CommitRequestKeeps DEF CallStep
<1>2. ASSUME NEW c \in Callers, Crash(c) PROVE IntakeInv'
    BY <1>2, CrashKeeps
<1>3. ASSUME NEW w \in Writers \ Callers, WorkerAppend(w) PROVE IntakeInv'
    BY <1>3, AppendsKeep
<1>4. CASE UNCHANGED vars
  <2>1. UNCHANGED callVars /\ UNCHANGED chainVars
      BY <1>4 DEF vars
  <2>2. Audit!ChainInv' /\ audit' = audit /\ step' = step
      BY <2>1, ChainKept DEF IntakeInv, chainVars
  <2> QED
      BY <2>1, <2>2, ChainMoves DEF IntakeInv, AppendsInside
<1> QED
    BY <1>1, <1>2, <1>3, <1>4 DEF Next, Done

\* The invariant holds in every reachable state, whatever calls race, crash
\* and are submitted again.
THEOREM IntakeInvariant == Spec => []IntakeInv
BY IntakeInit, IntakeStep, PTL DEF Spec

\* Calls and rows have their types.
THEOREM CallsTyped == Spec => []TypeOK
<1>1. IntakeInv => TypeOK
    BY DEF IntakeInv
<1> QED
    BY <1>1, IntakeInvariant, PTL

\* create_privacy_request makes one request per (tenant, Idempotency-Key),
\* with its ready events and its audit event, and nothing else.
THEOREM RequestsUnique == Spec => []OneRequestPerKey
<1>1. IntakeInv => OneRequestPerKey
    BY DEF IntakeInv
<1> QED
    BY <1>1, IntakeInvariant, PTL

\* The route's answers agree with the table and with each other: 200 and 201
\* name the request of the key, 409 is a real conflict, 201 is said once, and
\* the IntegrityError is never raised again.
THEOREM AnswersConsistent == Spec => []AnswersAgree
<1>1. IntakeInv => AnswersAgree
    BY DEF IntakeInv
<1> QED
    BY <1>1, IntakeInvariant, PTL

\* The chains admissions and workers append to together verify, and no
\* admission is aborted by uq_audit_tenant_sequence.
THEOREM ChainsSound == Spec => []ChainSound
<1>1. IntakeInv => ChainSound
  <2> SUFFICES ASSUME IntakeInv PROVE ChainSound
      OBVIOUS
  <2>1. Audit!ChainInv /\ Chain!ChainInv
      BY SameChain DEF IntakeInv
  <2>2. Chain!AppendNeverCollides
      BY <2>1, ChainAssumed, Chain!NoCollision
  <2>3. Audit!AppendNeverCollides
      BY <2>2 DEF Audit!AppendNeverCollides, Chain!AppendNeverCollides,
                  Audit!Taken, Chain!Taken
  <2> QED
      BY <2>1, <2>3 DEF ChainSound, Audit!ChainInv, Audit!ChainValid, Audit!Sound
<1> QED
    BY <1>1, IntakeInvariant, PTL

-----------------------------------------------------------------------------
(* Admission implements the idempotency contract.                            *)

\* A committed row is the binding of its key.
LEMMA RowIsBinding ==
    ASSUME IntakeInv, NEW row \in rows
    PROVE /\ row.key \in Keys
          /\ Binding(row.key) = [meaning |-> Meaning(row), id |-> row.id]
          /\ Binding(row.key) # None
<1>1. row.id \in Callers /\ row.key \in Keys /\ row = Row(row.id)
    BY DEF IntakeInv, TypeOK, RowsDescribed
<1>2. (CHOOSE r \in rows : r.key = row.key) = row
    BY DEF IntakeInv, OneRequestPerKey
<1>3. Binding(row.key) = [meaning |-> Meaning(row), id |-> row.id]
    BY <1>2 DEF Binding
<1>4. [meaning |-> Meaning(Row(row.id)), id |-> row.id] # None
    BY <1>1, NoneAssumption
<1> QED
    BY <1>1, <1>3, <1>4

\* SameCommand compares meanings.
LEMMA SameMeaning ==
    ASSUME NEW row, NEW c \in Callers
    PROVE SameCommand(row, CommandOf[c]) <=> Meaning(row) = Meaning(Row(c))
BY DEF SameCommand, Meaning, Row

\* Steps that change neither the rows nor the answers are not seen.
LEMMA NotSeen ==
    ASSUME rows' = rows, answer' = answer
    PROVE /\ [k \in Keys |-> Binding(k)]' = [k \in Keys |-> Binding(k)]
          /\ [c \in Callers |-> Told(c)]' = [c \in Callers |-> Told(c)]
BY DEF Binding, Told

\* An answer from the row of the key is a reply of the contract.
LEMMA ReplySeen ==
    ASSUME IntakeInv, NEW c \in Callers, pc[c] # "answered",
           NEW row \in Existing(c), NEW a,
           \/ a = Replay(row, c)
           \/ a = Created(c) /\ row = Row(c),
           ReplyWith(c, a)
    PROVE Contract!Reply(c)
<1>1. /\ rows' = rows /\ answer' = [answer EXCEPT ![c] = a]
      /\ answer \in [Callers -> Answers \union {None}] /\ answer[c] = None
    BY DEF ReplyWith, IntakeInv, TypeOK, AnsweredOnce
<1>2. row \in rows /\ row.key = KeyOf[c] /\ KeyOf[c] \in Keys
    BY DEF Existing, Keys
<1>3. /\ Binding(KeyOf[c]) = [meaning |-> Meaning(row), id |-> row.id]
      /\ Binding(KeyOf[c]) # None
    BY <1>2, RowIsBinding
<1>4. a \in Answers /\ a # None
      /\ IF Meaning(row) = Meaning(Row(c)) THEN a.code # 409 /\ a.id = row.id
                                           ELSE a.code = 409
  <2>1. CASE a = Replay(row, c)
      BY <2>1, ReplayFacts, SameMeaning, NoneAssumption
  <2>2. CASE a = Created(c) /\ row = Row(c)
    <3>1. a \in Answers /\ a.code = 201 /\ a.id = c
        BY <2>2 DEF Created, Answers
    <3> QED
        BY <2>2, <3>1, OwnRow, NoneAssumption
  <2> QED
      BY <2>1, <2>2
<1>5. Told(c)' = IF Meaning(row) = Meaning(Row(c)) THEN row.id ELSE "conflict"
    BY <1>1, <1>4 DEF Told
<1>6. \A d \in Callers : d # c => Told(d)' = Told(d)
    BY <1>1 DEF Told
<1>7. [k \in Keys |-> Binding(k)]' = [k \in Keys |-> Binding(k)]
    BY <1>1 DEF Binding
<1>8. Told(c) = None
    BY <1>1 DEF Told
<1>9. [d \in Callers |-> Told(d)]' =
        [[d \in Callers |-> Told(d)] EXCEPT ![c] =
            IF Meaning(row) = Meaning(Row(c)) THEN row.id ELSE "conflict"]
    BY <1>5, <1>6
<1>10. LET entry == [k \in Keys |-> Binding(k)][KeyOf[c]]
           meaning == [d \in Callers |-> Meaning(Row(d))]
       IN /\ entry # None
          /\ entry.meaning = Meaning(row) /\ entry.id = row.id
          /\ meaning[c] = Meaning(Row(c))
          /\ [d \in Callers |-> Told(d)][c] = None
    BY <1>2, <1>3, <1>8
<1> QED
    BY <1>7, <1>9, <1>10, Zenon DEF Contract!Reply

\* The commit of a request is the acceptance of the contract.
LEMMA AcceptSeen ==
    ASSUME IntakeInv, NEW c \in Callers, CommitRequest(c)
    PROVE Contract!Accept(c)
<1>1. /\ pc[c] = "append" /\ rows' = rows \union {Row(c)} /\ answer' = answer
    BY DEF CommitRequest
<1>2. Existing(c) = {} /\ answer[c] = None /\ KeyOf[c] \in Keys
    BY <1>1 DEF IntakeInv, FlushedAlone, AnsweredOnce, Keys
<1>3. Told(c) = None /\ Binding(KeyOf[c]) = None
    BY <1>2 DEF Told, Binding, Existing
<1>4. [d \in Callers |-> Told(d)]' = [d \in Callers |-> Told(d)]
    BY <1>1 DEF Told
<1>5. IntakeInv'
    BY CommitRequestKeeps
<1>6. \A row \in rows' : /\ row.key \in Keys
                         /\ Binding(row.key)' = [meaning |-> Meaning(row), id |-> row.id]
  <2> SUFFICES ASSUME NEW row \in rows'
               PROVE /\ row.key \in Keys
                     /\ Binding(row.key)' = [meaning |-> Meaning(row), id |-> row.id]
      OBVIOUS
  <2>1. row.key \in Keys
      BY <1>5 DEF IntakeInv, TypeOK
  <2>2. (CHOOSE r \in rows' : r.key = row.key) = row
      BY <1>5 DEF IntakeInv, OneRequestPerKey
  <2> QED
      BY <2>1, <2>2 DEF Binding
<1>7. Binding(KeyOf[c])' = [meaning |-> Meaning(Row(c)), id |-> c]
    BY <1>1, <1>6, OwnRow
<1>8. \A k \in Keys : k # KeyOf[c] => Binding(k)' = Binding(k)
  <2> SUFFICES ASSUME NEW k \in Keys, k # KeyOf[c] PROVE Binding(k)' = Binding(k)
      OBVIOUS
  <2>1. CASE \E row \in rows : row.key = k
    <3>1. PICK row \in rows : row.key = k
        BY <2>1
    <3>2. Binding(k) = [meaning |-> Meaning(row), id |-> row.id]
        BY <3>1, RowIsBinding
    <3>3. Binding(k)' = [meaning |-> Meaning(row), id |-> row.id]
        BY <1>1, <1>6, <3>1
    <3> QED
        BY <3>2, <3>3
  <2>2. CASE ~\E row \in rows : row.key = k
      BY <1>1, <2>2, OwnRow DEF Binding
  <2> QED
      BY <2>1, <2>2
<1>9. [k \in Keys |-> Binding(k)]' =
        [[k \in Keys |-> Binding(k)] EXCEPT ![KeyOf[c]] =
            [meaning |-> Meaning(Row(c)), id |-> c]]
    BY <1>7, <1>8
<1> QED
    BY <1>2, <1>3, <1>4, <1>9 DEF Contract!Accept

\* Every step is a step of the contract or not seen.
LEMMA ContractStep ==
    IntakeInv /\ [Next]_vars =>
        [Contract!Next]_<<[k \in Keys |-> Binding(k)], [c \in Callers |-> Told(c)]>>
<1> DEFINE seen == <<[k \in Keys |-> Binding(k)], [c \in Callers |-> Told(c)]>>
<1> SUFFICES ASSUME IntakeInv, [Next]_vars PROVE Contract!Next \/ UNCHANGED seen
    OBVIOUS
<1>1. ASSUME rows' = rows, answer' = answer PROVE UNCHANGED seen
    BY <1>1, NotSeen
<1>2. ASSUME NEW c \in Callers, CallStep(c) PROVE Contract!Next \/ UNCHANGED seen
  <2>1. CASE Find(c)
    <3>1. ASSUME NEW row \in Existing(c), ReplyWith(c, Replay(row, c))
          PROVE Contract!Next
        BY <2>1, <3>1, ReplySeen DEF Find, Contract!Next
    <3>2. CASE Goto(c, "insert")
        BY <3>2, <1>1 DEF Goto
    <3> QED
        BY <2>1, <3>1, <3>2 DEF Find
  <2>2. CASE Flush(c) \/ AppendAudit(c)
      BY <2>2, <1>1 DEF Flush, Goto, AppendAudit, callVars
  <2>3. CASE CommitRequest(c)
      BY <2>3, AcceptSeen DEF Contract!Next
  <2>4. CASE Respond(c)
    <3>1. Row(c) \in Existing(c)
        BY <2>4, OwnRow DEF Respond, IntakeInv, RequestThere, Existing
    <3> QED
        BY <2>4, <3>1, ReplySeen DEF Respond, Contract!Next
  <2>5. CASE Refind(c)
    <3> DEFINE row == CHOOSE r \in Existing(c) : TRUE
    <3>1. row \in Existing(c)
        BY <2>5 DEF Refind, IntakeInv, RequestThere
    <3>2. ReplyWith(c, Replay(row, c)) /\ pc[c] = "refind"
        BY <2>5, <3>1 DEF Refind
    <3> HIDE DEF row
    <3> QED
        BY <3>1, <3>2, ReplySeen DEF Contract!Next
  <2> QED
      BY <1>2, <2>1, <2>2, <2>3, <2>4, <2>5 DEF CallStep
<1>3. ASSUME NEW c \in Callers, Crash(c) PROVE UNCHANGED seen
    BY <1>3, <1>1 DEF Crash
<1>4. ASSUME NEW w \in Writers \ Callers, WorkerAppend(w) PROVE UNCHANGED seen
    BY <1>4, <1>1 DEF WorkerAppend, callVars
<1>5. CASE UNCHANGED vars
    BY <1>5, <1>1 DEF vars, callVars
<1> HIDE DEF seen
<1> QED
    BY <1>2, <1>3, <1>4, <1>5 DEF Next, Done

\* Request admission implements the idempotency contract of docs/api.md: a
\* key is bound once, by the commit of the first request, and every call is
\* told what that binding says.
THEOREM IntakeImplementsContract == Spec => ImplementsContract
<1>1. Init => Contract!Init
    BY DEF Init, Contract!Init, Binding, Told
<1> QED
    BY <1>1, ContractStep, IntakeInvariant, PTL
       DEF Spec, ImplementsContract, Contract!Spec
=============================================================================
