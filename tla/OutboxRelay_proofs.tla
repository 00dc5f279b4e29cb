-------------------------- MODULE OutboxRelay_proofs --------------------------
(***************************************************************************)
(* Proofs about OutboxRelay for any number of events, relays and faults    *)
(* and any batch size: an event marked published was sent, and duplicates  *)
(* are bounded by the faults.                                              *)
(***************************************************************************)
EXTENDS OutboxRelay, TLAPS

\* The invariant holds before anything is enqueued.
LEMMA RelayInit == Init => RelayInv
<1> SUFFICES ASSUME Init PROVE RelayInv
    OBVIOUS
<1>1. TypeOK
    BY RelayAssumption DEF Init, TypeOK, Events
<1>2. PassOK /\ LocksOK
    BY RelayAssumption DEF Init, PassOK, LocksOK, Events
<1>3. CopiesOK /\ PublishedWasSent
    BY RelayAssumption DEF Init, CopiesOK, PublishedWasSent, Events
<1> QED
    BY <1>1, <1>2, <1>3 DEF RelayInv

\* The SELECT returns rows that nobody has locked or published.
LEMMA OldestSelectable ==
    /\ Oldest(Selectable) \subseteq created \ published
    /\ \A e \in Oldest(Selectable) : lockedBy[e] = NoRelay
BY DEF Oldest, Selectable

\* A commit and a new enqueued row keep the invariant.
LEMMA EnqueueKeeps ==
    ASSUME RelayInv, NEW e \in Events, Enqueue(e)
    PROVE RelayInv'
<1>1. TypeOK'
    BY DEF RelayInv, TypeOK, Enqueue
<1>2. PassOK'
    BY DEF RelayInv, PassOK, Enqueue
<1>3. LocksOK'
    BY DEF RelayInv, LocksOK, Enqueue
<1>4. CopiesOK' /\ PublishedWasSent'
    BY DEF RelayInv, CopiesOK, PublishedWasSent, Enqueue
<1> QED
    BY <1>1, <1>2, <1>3, <1>4 DEF RelayInv

\* Selecting a batch keeps it: the rows were free.
LEMMA SelectKeeps ==
    ASSUME RelayInv, NEW r \in Relays, Select(r)
    PROVE RelayInv'
<1> DEFINE S == Oldest(Selectable)
<1>0. /\ S \subseteq created \ published
      /\ \A e \in S : lockedBy[e] = NoRelay
      /\ S \subseteq Events
    BY OldestSelectable DEF RelayInv, TypeOK
<1>1. /\ pc[r] = "idle"
      /\ batch' = [batch EXCEPT ![r] = S]
      /\ lockedBy' = [e \in Events |-> IF e \in S THEN r ELSE lockedBy[e]]
      /\ pc' = [pc EXCEPT ![r] = "send"]
      /\ UNCHANGED <<created, published, queue, confirmed, faults>>
    BY DEF Select
<1> HIDE DEF S
<1>2. TypeOK'
    BY <1>0, <1>1 DEF RelayInv, TypeOK
<1>3. PassOK'
  <2> SUFFICES ASSUME NEW q \in Relays
               PROVE /\ batch'[q] \union confirmed'[q]
                           \subseteq {e \in Events : lockedBy'[e] = q}
                     /\ \A e \in batch'[q] : e \notin confirmed'[q]
                     /\ \A e \in confirmed'[q] : queue'[e] > 0
                     /\ pc'[q] = "idle" => \A e \in Events : lockedBy'[e] # q
      BY DEF PassOK
  <2>1. CASE q = r
    <3>1. confirmed[r] = {} 
        BY <1>1 DEF RelayInv, PassOK, TypeOK
    <3> QED
        BY <1>0, <1>1, <2>1, <3>1 DEF RelayInv, TypeOK
  <2>2. CASE q # r
      BY <1>0, <1>1, <2>2, RelayAssumption DEF RelayInv, TypeOK, PassOK
  <2> QED
      BY <2>1, <2>2
<1>4. LocksOK'
    BY <1>0, <1>1 DEF RelayInv, TypeOK, LocksOK
<1>5. CopiesOK' /\ PublishedWasSent'
    BY <1>1 DEF RelayInv, CopiesOK, PublishedWasSent
<1> QED
    BY <1>2, <1>3, <1>4, <1>5 DEF RelayInv

\* An event a relay is about to send is locked by it, so nobody else has
\* confirmed it and it is not published: its copies are all faults.
LEMMA NextIsOpen ==
    ASSUME RelayInv, NEW r \in Relays, NEW e \in Events, IsNext(r, e)
    PROVE /\ lockedBy[e] = r
          /\ e \notin published
          /\ \A q \in Relays : e \notin confirmed[q]
          /\ queue[e] <= faults
<1>1. e \in batch[r] /\ lockedBy[e] = r /\ e \notin confirmed[r]
    BY DEF IsNext, RelayInv, PassOK
<1>2. e \notin published
    BY <1>1, RelayAssumption DEF RelayInv, LocksOK
<1>3. \A q \in Relays : e \notin confirmed[q]
    BY <1>1 DEF RelayInv, PassOK
<1> QED
    BY <1>1, <1>2, <1>3 DEF RelayInv, CopiesOK

\* A confirmed send keeps the invariant: the copy beyond the faults belongs
\* to a confirmed event.
LEMMA SendKeeps ==
    ASSUME RelayInv, NEW r \in Relays, NEW e \in Events, Send(r, e)
    PROVE RelayInv'
<1>1. /\ pc[r] = "send" /\ IsNext(r, e)
      /\ batch' = [batch EXCEPT ![r] = batch[r] \ {e}]
      /\ queue' = [queue EXCEPT ![e] = queue[e] + 1]
      /\ confirmed' = [confirmed EXCEPT ![r] = confirmed[r] \union {e}]
      /\ UNCHANGED <<created, published, lockedBy, pc, faults>>
    BY DEF Send, Advance
<1>2. /\ lockedBy[e] = r /\ e \notin published
      /\ queue[e] <= faults
    BY <1>1, NextIsOpen
<1>3. TypeOK'
    BY <1>1 DEF RelayInv, TypeOK
<1>4. PassOK'
    BY <1>1, <1>2 DEF RelayInv, TypeOK, PassOK
<1>5. LocksOK'
    BY <1>1 DEF RelayInv, LocksOK
<1>6. CopiesOK'
  <2> SUFFICES ASSUME NEW f \in Events
               PROVE \/ queue'[f] <= faults'
                     \/ queue'[f] = faults' + 1
                        /\ (f \in published' \/ \E q \in Relays : f \in confirmed'[q])
      BY DEF CopiesOK
  <2>1. CASE f = e
    <3>1. e \in confirmed'[r]
        BY <1>1 DEF RelayInv, TypeOK
    <3>2. queue'[e] <= faults' \/ queue'[e] = faults' + 1
        BY <1>1, <1>2, RelayAssumption DEF RelayInv, TypeOK
    <3> QED
        BY <2>1, <3>1, <3>2
  <2>2. CASE f # e
    <3>1. queue'[f] = queue[f] /\ \A q \in Relays : confirmed[q] \subseteq confirmed'[q]
        BY <1>1, <2>2 DEF RelayInv, TypeOK
    <3> QED
        BY <1>1, <3>1 DEF RelayInv, CopiesOK
  <2> QED
      BY <2>1, <2>2
<1>7. PublishedWasSent'
    BY <1>1 DEF RelayInv, TypeOK, PublishedWasSent
<1> QED
    BY <1>3, <1>4, <1>5, <1>6, <1>7 DEF RelayInv

\* A failed send keeps it: a copy the service stored all the same is paid for
\* by the fault.
LEMMA SendRaisesKeeps ==
    ASSUME RelayInv, NEW r \in Relays, NEW e \in Events, SendRaises(r, e)
    PROVE RelayInv'
<1>1. /\ pc[r] = "send" /\ IsNext(r, e)
      /\ batch' = [batch EXCEPT ![r] = batch[r] \ {e}]
      /\ UNCHANGED <<created, published, lockedBy, pc, confirmed>>
    BY DEF SendRaises, Advance
<1>2. queue[e] <= faults /\ e \notin published
    BY <1>1, NextIsOpen
<1>3. \/ UNCHANGED <<queue, faults>>
      \/ /\ faults < MaxFaults
         /\ faults' = faults + 1
         /\ queue' = queue \/ queue' = [queue EXCEPT ![e] = queue[e] + 1]
    BY DEF SendRaises
<1>4. TypeOK'
    BY <1>1, <1>3, RelayAssumption DEF RelayInv, TypeOK
<1>5. PassOK'
    BY <1>1, <1>3 DEF RelayInv, TypeOK, PassOK
<1>6. LocksOK'
    BY <1>1 DEF RelayInv, LocksOK
<1>7. CopiesOK'
  <2>1. CASE UNCHANGED <<queue, faults>>
      BY <1>1, <2>1 DEF RelayInv, CopiesOK
  <2>2. CASE faults' = faults + 1 /\ queue' = queue
      BY <1>1, <2>2, RelayAssumption DEF RelayInv, CopiesOK, TypeOK
  <2>3. CASE faults' = faults + 1 /\ queue' = [queue EXCEPT ![e] = queue[e] + 1]
      BY <1>1, <1>2, <2>3, RelayAssumption DEF RelayInv, CopiesOK, TypeOK
  <2> QED
      BY <1>3, <2>1, <2>2, <2>3
<1>8. PublishedWasSent'
    BY <1>1, <1>3 DEF RelayInv, TypeOK, PublishedWasSent
<1> QED
    BY <1>4, <1>5, <1>6, <1>7, <1>8 DEF RelayInv

\* The end of a pass, with the confirmed rows published or, after a fault,
\* with none, keeps it.
LEMMA EndPassKeeps ==
    ASSUME RelayInv, NEW r \in Relays, pc[r] = "send", NEW done,
           EndPass(r, done),
           \/ done = confirmed[r] /\ faults' = faults
           \/ done = {} /\ faults' = faults + 1 /\ faults < MaxFaults
    PROVE RelayInv'
<1>1. /\ published' = published \union done
      /\ lockedBy' = [e \in Events |-> IF lockedBy[e] = r THEN NoRelay
                                                          ELSE lockedBy[e]]
      /\ pc' = [pc EXCEPT ![r] = "idle"]
      /\ batch' = [batch EXCEPT ![r] = {}]
      /\ confirmed' = [confirmed EXCEPT ![r] = {}]
      /\ UNCHANGED <<created, queue>>
    BY DEF EndPass
<1>2. done \subseteq confirmed[r]
    OBVIOUS
<1>3. \A e \in done : e \in Events /\ lockedBy[e] = r /\ queue[e] > 0 /\ e \in created
    BY <1>2, RelayAssumption DEF RelayInv, TypeOK, PassOK, LocksOK
<1>4. TypeOK'
    BY <1>1, <1>3, RelayAssumption DEF RelayInv, TypeOK
<1>5. PassOK'
    BY <1>1, RelayAssumption DEF RelayInv, TypeOK, PassOK
<1>6. LocksOK'
    BY <1>1, <1>3 DEF RelayInv, TypeOK, LocksOK
<1>7. CopiesOK'
  <2>1. CASE done = confirmed[r] /\ faults' = faults
    <3>1. \A f \in Events : (\E q \in Relays : f \in confirmed[q]) =>
             f \in published' \/ \E q \in Relays : f \in confirmed'[q]
        BY <1>1, <2>1 DEF RelayInv, TypeOK
    <3> QED
        BY <1>1, <2>1, <3>1 DEF RelayInv, CopiesOK
  <2>2. CASE done = {} /\ faults' = faults + 1
      BY <1>1, <2>2, RelayAssumption DEF RelayInv, CopiesOK, TypeOK
  <2> QED
      BY <2>1, <2>2
<1>8. PublishedWasSent'
    BY <1>1, <1>3 DEF RelayInv, PublishedWasSent
<1> QED
    BY <1>4, <1>5, <1>6, <1>7, <1>8 DEF RelayInv

\* Every step keeps the invariant.
LEMMA RelayStepKeeps == RelayInv /\ [Next]_vars => RelayInv'
<1> SUFFICES ASSUME RelayInv, [Next]_vars PROVE RelayInv'
    OBVIOUS
<1>1. CASE \E e \in Events : Enqueue(e)
    BY <1>1, EnqueueKeeps
<1>2. ASSUME NEW r \in Relays, RelayStep(r) PROVE RelayInv'
  <2>1. CASE Select(r)
      BY <2>1, SelectKeeps
  <2>2. CASE \E e \in Events : Send(r, e) \/ SendRaises(r, e)
      BY <2>2, SendKeeps, SendRaisesKeeps
  <2>3. CASE CommitPass(r)
      BY <2>3, EndPassKeeps DEF CommitPass, Marked
  <2> QED
      BY <1>2, <2>1, <2>2, <2>3 DEF RelayStep
<1>3. ASSUME NEW r \in Relays, Crash(r) PROVE RelayInv'
    BY <1>3, EndPassKeeps DEF Crash
<1>4. CASE UNCHANGED vars
    BY <1>4 DEF vars, RelayInv, TypeOK, PassOK, LocksOK, CopiesOK, PublishedWasSent
<1> QED
    BY <1>1, <1>2, <1>3, <1>4 DEF Next, EmptyPass

\* The inductive invariant holds in every reachable state.
THEOREM RelayInvariant == Spec => []RelayInv
BY RelayInit, RelayStepKeeps, PTL DEF Spec

\* A row that relay_outbox_once marks published was accepted by the queue,
\* whatever crashes, errors and parallel relays do.
THEOREM PublishedRowsWereSent == Spec => []PublishedWasSent
<1>1. RelayInv => PublishedWasSent
    BY DEF RelayInv
<1> QED
    BY <1>1, RelayInvariant, PTL

\* Parallel relays send an event more than once only after faults, at most
\* once more per fault.
THEOREM CopiesAreFaults == Spec => []DuplicatesNeedFaults
<1>1. RelayInv => DuplicatesNeedFaults
    BY RelayAssumption DEF RelayInv, TypeOK, CopiesOK, DuplicatesNeedFaults
<1> QED
    BY <1>1, RelayInvariant, PTL

\* The relays' initial state is one of the contract.
LEMMA ContractInit == Init => Contract!Init
BY DEF Init, Contract!Init

\* Every step of a relay is a step of the contract or leaves it alone.
LEMMA ContractStep == RelayInv /\ [Next]_vars => [Contract!Next]_(Contract!vars)
<1> SUFFICES ASSUME RelayInv, [Next]_vars
             PROVE Contract!Next \/ UNCHANGED <<queue, published>>
    BY DEF Contract!vars
<1>1. CASE \E e \in Events : Enqueue(e)
    BY <1>1 DEF Enqueue
<1>2. ASSUME NEW r \in Relays, Select(r)
      PROVE UNCHANGED <<queue, published>>
    BY <1>2 DEF Select
<1>3. ASSUME NEW r \in Relays, NEW e \in Events, Send(r, e) \/ SendRaises(r, e)
      PROVE Contract!HandOver(e) \/ UNCHANGED <<queue, published>>
  <2>1. pc[r] = "send" /\ IsNext(r, e) /\ UNCHANGED published
      BY <1>3 DEF Send, SendRaises, Advance
  <2>2. e \notin published
      BY <2>1, NextIsOpen
  <2>3. UNCHANGED queue \/ queue' = [queue EXCEPT ![e] = queue[e] + 1]
      BY <1>3 DEF Send, SendRaises
  <2> QED
      BY <2>1, <2>2, <2>3 DEF Contract!HandOver
<1>4. ASSUME NEW r \in Relays, CommitPass(r)
      PROVE Contract!Mark(confirmed[r]) /\ confirmed[r] \subseteq Events
  <2>1. \A e \in confirmed[r] : queue[e] > 0 /\ e \in Events
      BY DEF RelayInv, PassOK
  <2> QED
      BY <1>4, <2>1 DEF CommitPass, EndPass, Marked, Contract!Mark
<1>5. ASSUME NEW r \in Relays, Crash(r)
      PROVE UNCHANGED <<queue, published>>
    BY <1>5 DEF Crash, EndPass
<1>6. CASE UNCHANGED vars
    BY <1>6 DEF vars
<1> QED
    BY <1>1, <1>2, <1>3, <1>4, <1>5, <1>6
    DEF Next, RelayStep, EmptyPass, Contract!Next

\* relay_outbox_once implements at-least-once delivery: an event is handed to
\* the queue until it is marked, never afterwards, and is not marked before
\* the queue accepted it, for any number of relays, events and faults.
THEOREM RelayImplementsAtLeastOnce == Spec => ImplementsAtLeastOnce
<1>1. Spec => Contract!Init
    BY ContractInit DEF Spec
<1>2. Spec => [][Contract!Next]_(Contract!vars)
    BY RelayInvariant, ContractStep, PTL DEF Spec
<1> QED
    BY <1>1, <1>2, PTL DEF ImplementsAtLeastOnce, Contract!Spec
=============================================================================
