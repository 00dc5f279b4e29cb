-------------------------- MODULE AuditChain_proofs --------------------------
(***************************************************************************)
(* Proofs about AuditChain for any number of tenants, writers and events:  *)
(* chains nobody edits verify, no append collides with another, and edited *)
(* chains never verify again.                                              *)
(***************************************************************************)
EXTENDS AuditChain, TLAPS

-----------------------------------------------------------------------------
(* The next event of a chain.                                                *)

\* What the head of a chain is.
LEMMA LastIsLast ==
    ASSUME NEW R, R # {}, HasLast(R)
    PROVE Last(R) \in R /\ \A f \in R : f.sequence <= Last(R).sequence
BY DEF Last, HasLast

\* The next event is built as every event is, and has a number above all
\* others.
LEMMA NextEventFacts ==
    ASSUME NEW R, \A e \in R : e.sequence \in Nat, HasLast(R), NEW t, NEW b
    PROVE LET n == NextEvent(t, b, R) IN
          /\ n = Event(t, n.sequence, b, n.previous)
          /\ n.sequence \in Nat /\ n.sequence > 0
          /\ \A f \in R : f.sequence < n.sequence
<1>1. CASE R = {}
    BY <1>1 DEF NextEvent, Event
<1>2. CASE R # {}
  <2> DEFINE l == Last(R)
  <2>1. l \in R /\ l.sequence \in Nat /\ \A f \in R : f.sequence <= l.sequence
      BY <1>2, LastIsLast
  <2> HIDE DEF l
  <2>2. NextEvent(t, b, R) = Event(t, l.sequence + 1, b, l.hash)
      BY <1>2 DEF NextEvent, l
  <2> QED
      BY <2>1, <2>2 DEF Event
<1> QED
    BY <1>1, <1>2

\* It follows the rows of a chain whose numbers start at 1, and its number is
\* the first one that is free.
LEMMA NextEventFollows ==
    ASSUME NEW R, \A e \in R : e.sequence \in Nat, HasLast(R), Genuine(R),
           NEW t, NEW b
    PROVE LET n == NextEvent(t, b, R) IN
          /\ Follows(n, R)
          /\ \A k \in 1..n.sequence :
                k = n.sequence \/ \E f \in R : f.sequence = k
<1>1. CASE R = {}
    BY <1>1 DEF NextEvent, Event, Follows
<1>2. CASE R # {}
  <2> DEFINE l == Last(R)
  <2>1. /\ l \in R /\ l.sequence \in Nat /\ l.sequence > 0
        /\ \A k \in 1..l.sequence : \E f \in R : f.sequence = k
      BY <1>2, LastIsLast DEF Genuine
  <2> HIDE DEF l
  <2>2. NextEvent(t, b, R) = Event(t, l.sequence + 1, b, l.hash)
      BY <1>2 DEF NextEvent, l
  <2> QED
      BY <2>1, <2>2 DEF Event, Follows
<1> QED
    BY <1>1, <1>2

\* Appending the next event to a chain that verifies gives one that does.
LEMMA AppendSound ==
    ASSUME NEW R, \A e \in R : e.sequence \in Nat, HasLast(R), Genuine(R),
           Verified(R), NEW t, NEW b, NEW n, n = NextEvent(t, b, R)
    PROVE Genuine(R \union {n}) /\ Verified(R \union {n})
<1>1. /\ n = Event(t, n.sequence, b, n.previous)
      /\ n.sequence \in Nat /\ n.sequence > 0
      /\ \A f \in R : f.sequence < n.sequence
    BY NextEventFacts
<1>2. /\ Follows(n, R)
      /\ \A k \in 1..n.sequence : k = n.sequence \/ \E f \in R : f.sequence = k
    BY NextEventFollows
<1>3. /\ n.tenant = t /\ n.body = b
      /\ n.hash = EventHash(n.tenant, n.sequence, n.body, n.previous)
      /\ n = Event(n.tenant, n.sequence, n.body, n.previous)
    BY <1>1 DEF Event
<1>4. Verified(R \union {n})
    BY <1>2, <1>3 DEF Verified, Follows
<1>5. \A e, f \in R \union {n} : e.sequence = f.sequence => e = f
    BY <1>1 DEF Genuine
<1>6. \A e \in R \union {n} : \A k \in 1..e.sequence :
          \E f \in R \union {n} : f.sequence = k
  <2> SUFFICES ASSUME NEW e \in R \union {n}, NEW k \in 1..e.sequence
               PROVE \E f \in R \union {n} : f.sequence = k
      OBVIOUS
  <2>1. CASE e = n
      BY <1>2, <2>1
  <2>2. CASE e \in R
      BY <2>2 DEF Genuine
  <2> QED
      BY <2>1, <2>2
<1>7. \A e \in R \union {n} : /\ e.sequence > 0
                             /\ e = Event(e.tenant, e.sequence, e.body, e.previous)
    BY <1>1, <1>3 DEF Genuine
<1> QED
    BY <1>4, <1>5, <1>6, <1>7 DEF Genuine

-----------------------------------------------------------------------------
(* Edits of a chain.                                                         *)

\* A changed field leaves a row whose digest is wrong.
LEMMA FieldEditAlters ==
    ASSUME NEW R, Genuine(R), NEW e \in R, NEW c \in FieldEdits(e, R)
    PROVE /\ Altered(c) /\ c.tenant = e.tenant
          /\ \/ c.sequence = e.sequence
             \/ c.sequence \in Nat /\ \A f \in R : f.sequence # c.sequence
<1>1. e = Event(e.tenant, e.sequence, e.body, e.previous)
    BY DEF Genuine
<1>2. PICK t, s, b, p : e = Event(t, s, b, p)
    BY <1>1
<1>3. c # e
    BY DEF FieldEdits
<1>4. ASSUME NEW n \in 0..(Cardinality(R) + 1), \A f \in R : f.sequence # n,
             c = [e EXCEPT !.sequence = n]
      PROVE Altered(c) /\ c.tenant = e.tenant /\ c.sequence = n /\ n \in Nat
  <2>1. n # e.sequence /\ n \in Nat
      BY <1>4
  <2> QED
      BY <1>2, <1>4, <2>1 DEF Event, EventHash, Altered
<1>5. ASSUME c = [e EXCEPT !.body = Forged] \/ c = [e EXCEPT !.previous = Forged]
             \/ c = [e EXCEPT !.hash = Forged]
      PROVE Altered(c) /\ c.tenant = e.tenant /\ c.sequence = e.sequence
    BY <1>2, <1>3, <1>5 DEF Event, EventHash, Altered
<1> QED
    BY <1>4, <1>5 DEF FieldEdits

\* So does an exchange of two rows.
LEMMA ExchangeAlters ==
    ASSUME NEW R, Genuine(R), NEW e \in R, NEW f \in R \ {e}
    PROVE LET c == [e EXCEPT !.sequence = f.sequence]
              d == [f EXCEPT !.sequence = e.sequence] IN
          /\ Altered(c) /\ c.tenant = e.tenant /\ d.tenant = f.tenant
          /\ c.sequence = f.sequence /\ d.sequence = e.sequence
<1>1. /\ e = Event(e.tenant, e.sequence, e.body, e.previous)
      /\ f = Event(f.tenant, f.sequence, f.body, f.previous)
      /\ e.sequence # f.sequence
    BY DEF Genuine
<1> QED
    BY <1>1 DEF Event, EventHash, Altered

\* An edited chain has a last row, and a row whose digest is wrong or one
\* without the row before it.
LEMMA EditsBreak ==
    ASSUME NEW R, \A e \in R : e.sequence \in Nat, HasLast(R), Genuine(R),
           NEW S \in Edits(R)
    PROVE /\ HasLast(S)
          /\ \A e \in S : e.sequence \in Nat /\ \E d \in R : e.tenant = d.tenant
          /\ \/ \E e \in S : Altered(e)
             \/ S \subseteq R /\ \E e \in S : Orphan(e, S)
<1>1. CASE \E e \in R : \E c \in FieldEdits(e, R) : S = (R \ {e}) \union {c}
  <2>1. PICK e \in R : \E c \in FieldEdits(e, R) : S = (R \ {e}) \union {c}
      BY <1>1
  <2>2. PICK c \in FieldEdits(e, R) : S = (R \ {e}) \union {c}
      BY <2>1
  <2>3. /\ Altered(c) /\ c.tenant = e.tenant
        /\ \/ c.sequence = e.sequence
           \/ c.sequence \in Nat /\ \A f \in R : f.sequence # c.sequence
      BY FieldEditAlters
  <2>4. PICK l \in R : \A f \in R : f.sequence <= l.sequence
      BY DEF HasLast
  <2>5. c.sequence \in Nat /\ l.sequence \in Nat /\ l.sequence > 0
      BY <2>3 DEF Genuine
  <2>6. \A k \in 1..l.sequence : \E f \in R : f.sequence = k
      BY DEF Genuine
  <2>7. HasLast(S)
    <3>1. CASE c.sequence >= l.sequence
      <4>1. \A f \in S : f.sequence <= c.sequence
          BY <2>2, <2>4, <2>5, <3>1
      <4> QED
          BY <2>2, <4>1 DEF HasLast
    <3>2. CASE c.sequence < l.sequence /\ e # l
      <4>1. l \in S /\ \A f \in S : f.sequence <= l.sequence
          BY <2>2, <2>4, <2>5, <3>2
      <4> QED
          BY <4>1 DEF HasLast
    <3>3. CASE c.sequence < l.sequence /\ e = l
      <4>1. c.sequence = 0
          BY <2>3, <2>5, <2>6, <3>3
      <4>2. \A f \in R \ {l} : f.sequence \in Nat /\ f.sequence < l.sequence
          BY <2>4, <2>5 DEF Genuine
      <4>3. CASE l.sequence = 1
        <5>1. R \ {l} = {}
            BY <4>2, <4>3 DEF Genuine
        <5> QED
            BY <2>2, <2>5, <3>3, <5>1 DEF HasLast
      <4>4. CASE l.sequence # 1
        <5>1. PICK p \in R : p.sequence = l.sequence - 1
            BY <2>5, <2>6, <4>4
        <5>2. p \in S /\ \A f \in S : f.sequence <= p.sequence
            BY <2>2, <2>5, <3>3, <4>1, <4>2, <4>4, <5>1
        <5> QED
            BY <5>2 DEF HasLast
      <4> QED
          BY <4>3, <4>4
    <3> QED
        BY <2>5, <3>1, <3>2, <3>3
  <2> QED
      BY <2>2, <2>3, <2>5, <2>7
<1>2. CASE \E e \in R : \E f \in R \ {e} : S = Exchanged(e, f, R)
  <2>1. PICK e \in R : \E f \in R \ {e} : S = Exchanged(e, f, R)
      BY <1>2
  <2>2. PICK f \in R \ {e} : S = Exchanged(e, f, R)
      BY <2>1
  <2> DEFINE c == [e EXCEPT !.sequence = f.sequence]
             d == [f EXCEPT !.sequence = e.sequence]
  <2>3. /\ Altered(c) /\ c.tenant = e.tenant /\ d.tenant = f.tenant
        /\ c.sequence = f.sequence /\ d.sequence = e.sequence
      BY ExchangeAlters
  <2>4. S = (R \ {e, f}) \union {c, d}
      BY <2>2 DEF Exchanged
  <2> HIDE DEF c, d
  <2>5. PICK l \in R : \A g \in R : g.sequence <= l.sequence
      BY DEF HasLast
  <2>6. PICK m \in S : m.sequence = l.sequence
      BY <2>3, <2>4
  <2>7. \A g \in S : g.sequence <= m.sequence
      BY <2>3, <2>4, <2>5, <2>6
  <2> QED
      BY <2>3, <2>4, <2>7 DEF HasLast
<1>3. CASE \E e \in R : S = R \ {e} /\ \E f \in R : e.sequence < f.sequence
  <2>1. PICK e \in R : S = R \ {e} /\ \E f \in R : e.sequence < f.sequence
      BY <1>3
  <2>2. PICK f \in R : e.sequence < f.sequence
      BY <2>1
  <2>3. PICK g \in R : g.sequence = e.sequence + 1
    <3>1. e.sequence + 1 \in 1..f.sequence
        BY <2>2
    <3> QED
        BY <3>1 DEF Genuine
  <2>4. g \in S /\ Orphan(g, S)
      BY <2>1, <2>3 DEF Orphan, Genuine
  <2>5. PICK l \in R : \A h \in R : h.sequence <= l.sequence
      BY DEF HasLast
  <2>6. l \in S
      BY <2>1, <2>2, <2>5
  <2> QED
      BY <2>1, <2>4, <2>5, <2>6 DEF HasLast
<1> QED
    BY <1>1, <1>2, <1>3 DEF Edits

-----------------------------------------------------------------------------
(* What steps do to the chain of a tenant.                                   *)

\* The rows of a tenant satisfy what the lemmas on chains ask for.
LEMMA RowsNumbered ==
    ASSUME ChainInv, NEW t \in Tenants
    PROVE /\ \A e \in RowsOf(t) : e.sequence \in Nat
          /\ HasLast(RowsOf(t))
BY DEF ChainInv, TypeOK, RowsOf

\* Two writers inside append_audit work for different tenants.
LEMMA OneWriterPerTenant ==
    ASSUME ChainInv, NEW v \in Writers, NEW w \in Writers,
           step[v] # "none", step[w] # "none", TenantOf[v] = TenantOf[w]
    PROVE v = w
BY DEF ChainInv, LockHeld

\* An event is built for the tenant of its writer.
LEMMA DraftTenant ==
    ASSUME ChainInv, NEW w \in Writers, HasDraft(w)
    PROVE draft[w].tenant = TenantOf[w]
<1>1. PICK s, p : draft[w] = Event(TenantOf[w], s, w, p)
    BY DEF ChainInv, DraftsBuilt
<1> QED
    BY <1>1 DEF Event

\* A tenant whose rows stay keeps what is said of its chain, when its writers
\* keep what they built, drop it or build the next event.
LEMMA TenantKept ==
    ASSUME ChainInv, NEW t \in Tenants, RowsOf(t)' = RowsOf(t),
           \A v \in Writers : HasDraft(v)' /\ TenantOf[v] = t =>
               \/ HasDraft(v) /\ draft'[v] = draft[v]
               \/ draft'[v] = NextEvent(t, v, RowsOf(t))
    PROVE /\ HasLast(RowsOf(t))'
          /\ Sound(t) => Sound(t)'
          /\ Broken(t) => Broken(t)'
<1>1. HasLast(RowsOf(t))'
    BY RowsNumbered
<1>2. ASSUME Sound(t) PROVE Sound(t)'
    BY <1>2 DEF Sound
<1>3. ASSUME Ahead(t) PROVE Ahead(t)'
  <2> SUFFICES ASSUME NEW v \in Writers, HasDraft(v)', TenantOf[v] = t,
                      NEW e \in RowsOf(t)
               PROVE e.sequence < draft'[v].sequence
      BY DEF Ahead
  <2>1. CASE HasDraft(v) /\ draft'[v] = draft[v]
      BY <1>3, <2>1 DEF Ahead
  <2>2. CASE draft'[v] = NextEvent(t, v, RowsOf(t))
      BY <2>2, RowsNumbered, NextEventFacts
  <2> QED
      BY <2>1, <2>2
<1>4. ASSUME Broken(t) PROVE Broken(t)'
    BY <1>3, <1>4 DEF Broken
<1> QED
    BY <1>1, <1>2, <1>4

\* Steps of a writer that leave the table alone keep the facts about chains
\* and drafts.
LEMMA TableKept ==
    ASSUME ChainInv, audit' = audit, tampered' = tampered,
           \A v \in Writers : HasDraft(v)' =>
               \/ HasDraft(v) /\ draft'[v] = draft[v]
               \/ draft'[v] = NextEvent(TenantOf[v], v, RowsOf(TenantOf[v]))
    PROVE /\ DraftsBuilt'
          /\ \A t \in Tenants : HasLast(RowsOf(t))'
          /\ \A t \in Tenants \ tampered' : Sound(t)'
          /\ \A t \in tampered' : Broken(t)'
<1>1. DraftsBuilt'
  <2> SUFFICES ASSUME NEW v \in Writers, HasDraft(v)'
               PROVE /\ draft'[v].sequence \in Nat
                     /\ draft'[v] = Event(TenantOf[v], draft'[v].sequence, v,
                                          draft'[v].previous)
      BY DEF DraftsBuilt
  <2>1. CASE HasDraft(v) /\ draft'[v] = draft[v]
      BY <2>1 DEF ChainInv, DraftsBuilt
  <2>2. CASE draft'[v] = NextEvent(TenantOf[v], v, RowsOf(TenantOf[v]))
    <3>1. TenantOf[v] \in Tenants
        BY ChainAssumption
    <3> QED
        BY <2>2, <3>1, RowsNumbered, NextEventFacts
  <2> QED
      BY <2>1, <2>2
<1>2. ASSUME NEW t \in Tenants
      PROVE /\ HasLast(RowsOf(t))'
            /\ Sound(t) => Sound(t)'
            /\ Broken(t) => Broken(t)'
  <2>1. RowsOf(t)' = RowsOf(t)
      BY DEF RowsOf
  <2> QED
      BY <2>1, TenantKept
<1> QED
    BY <1>1, <1>2 DEF ChainInv, TypeOK

-----------------------------------------------------------------------------
(* The steps.                                                                *)

\* The empty table satisfies the invariant.
LEMMA ChainInit == Init => ChainInv
<1> SUFFICES ASSUME Init PROVE ChainInv
    OBVIOUS
<1>1. TypeOK
    BY ChainAssumption DEF Init, TypeOK, Steps
<1>2. LockHeld /\ DraftsBuilt /\ \A w \in Writers : ~HasDraft(w)
    BY DEF Init, LockHeld, DraftsBuilt, HasDraft
<1>3. \A t \in Tenants : HasLast(RowsOf(t)) /\ Sound(t)
    BY <1>2 DEF Init, HasLast, RowsOf, Sound, Genuine, Verified
<1> QED
    BY <1>1, <1>2, <1>3 DEF Init, ChainInv

\* Taking the lock keeps the invariant.
LEMMA LockKeeps ==
    ASSUME ChainInv, NEW w \in Writers, Lock(w), tampered' = tampered
    PROVE ChainInv'
<1>1. /\ step[w] = "none" /\ advisory[TenantOf[w]] = NoWriter
      /\ advisory' = [advisory EXCEPT ![TenantOf[w]] = w]
      /\ step' = [step EXCEPT ![w] = "locked"]
      /\ audit' = audit /\ draft' = draft
    BY DEF Lock, LockFree
<1>2. TypeOK'
    BY <1>1, ChainAssumption DEF ChainInv, TypeOK, Steps
<1>3. LockHeld'
    BY <1>1, ChainAssumption DEF ChainInv, TypeOK, LockHeld
<1>4. \A v \in Writers : HasDraft(v)' => HasDraft(v) /\ draft'[v] = draft[v]
    BY <1>1 DEF ChainInv, TypeOK, HasDraft
<1> QED
    BY <1>1, <1>2, <1>3, <1>4, TableKept DEF ChainInv

\* Reading the head keeps it: the event built follows the chain.
LEMMA ReadHeadKeeps ==
    ASSUME ChainInv, NEW w \in Writers, ReadHead(w), tampered' = tampered
    PROVE ChainInv'
<1>1. /\ step[w] = "locked"
      /\ draft' = [draft EXCEPT ![w] = NextEvent(TenantOf[w], w, RowsOf(TenantOf[w]))]
      /\ step' = [step EXCEPT ![w] = "drafted"]
      /\ audit' = audit /\ advisory' = advisory
    BY DEF ReadHead
<1>2. TypeOK'
    BY <1>1, ChainAssumption DEF ChainInv, TypeOK, Steps
<1>3. LockHeld'
    BY <1>1 DEF ChainInv, TypeOK, LockHeld
<1>4. \A v \in Writers : HasDraft(v)' =>
          \/ HasDraft(v) /\ draft'[v] = draft[v]
          \/ draft'[v] = NextEvent(TenantOf[v], v, RowsOf(TenantOf[v]))
    BY <1>1 DEF ChainInv, TypeOK, HasDraft
<1> QED
    BY <1>1, <1>2, <1>3, <1>4, TableKept DEF ChainInv

\* The flush keeps it.
LEMMA InsertKeeps ==
    ASSUME ChainInv, NEW w \in Writers, Insert(w), tampered' = tampered
    PROVE ChainInv'
<1>1. /\ step[w] = "drafted"
      /\ step' = [step EXCEPT ![w] = "inserted"]
      /\ audit' = audit /\ advisory' = advisory /\ draft' = draft
    BY DEF Insert
<1>2. TypeOK'
    BY <1>1 DEF ChainInv, TypeOK, Steps
<1>3. LockHeld'
    BY <1>1 DEF ChainInv, TypeOK, LockHeld
<1>4. \A v \in Writers : HasDraft(v)' => HasDraft(v) /\ draft'[v] = draft[v]
    BY <1>1 DEF ChainInv, TypeOK, HasDraft
<1> QED
    BY <1>1, <1>2, <1>3, <1>4, TableKept DEF ChainInv

\* After the end of a transaction its writer holds nothing, its tenant has
\* no draft and the other writers go on.
LEMMA TransactionEnded ==
    ASSUME ChainInv, NEW w \in Writers, step[w] # "none", EndTransaction(w)
    PROVE /\ advisory' \in [Tenants -> Writers \union {NoWriter}]
          /\ step' \in [Writers -> Steps]
          /\ DOMAIN draft' = Writers
          /\ LockHeld'
          /\ \A v \in Writers : HasDraft(v)' =>
                /\ TenantOf[v] # TenantOf[w]
                /\ HasDraft(v) /\ draft'[v] = draft[v]
<1>1. /\ advisory' = [t \in Tenants |-> IF advisory[t] = w THEN NoWriter
                                                          ELSE advisory[t]]
      /\ step' = [step EXCEPT ![w] = "none"]
      /\ draft' = [draft EXCEPT ![w] = NoWriter]
    BY DEF EndTransaction
<1>2. /\ advisory' \in [Tenants -> Writers \union {NoWriter}]
      /\ step' \in [Writers -> Steps]
      /\ DOMAIN draft' = Writers
    BY <1>1 DEF ChainInv, TypeOK, Steps
<1>3. \A v \in Writers : step'[v] # "none" =>
          /\ v # w /\ step[v] = step'[v] /\ draft'[v] = draft[v]
          /\ TenantOf[v] # TenantOf[w]
    BY <1>1, OneWriterPerTenant DEF ChainInv, TypeOK
<1>4. LockHeld'
    BY <1>1, <1>3, ChainAssumption DEF ChainInv, TypeOK, LockHeld
<1> QED
    BY <1>2, <1>3, <1>4 DEF HasDraft

\* A rollback keeps it.
LEMMA RollbackKeeps ==
    ASSUME ChainInv, NEW w \in Writers, Rollback(w), tampered' = tampered
    PROVE ChainInv'
<1>1. step[w] # "none" /\ EndTransaction(w) /\ audit' = audit
    BY DEF Rollback
<1>2. /\ advisory' \in [Tenants -> Writers \union {NoWriter}]
      /\ step' \in [Writers -> Steps]
      /\ DOMAIN draft' = Writers
      /\ LockHeld'
      /\ \A v \in Writers : HasDraft(v)' => HasDraft(v) /\ draft'[v] = draft[v]
    BY <1>1, TransactionEnded
<1>3. TypeOK'
    BY <1>1, <1>2 DEF ChainInv, TypeOK
<1> QED
    BY <1>1, <1>2, <1>3, TableKept DEF ChainInv

\* A commit keeps it: a chain that verifies grows by an event that follows
\* it, and no event mends a broken one.
LEMMA CommitKeeps ==
    ASSUME ChainInv, NEW w \in Writers, Commit(w), tampered' = tampered
    PROVE ChainInv'
<1> DEFINE t == TenantOf[w]
           n == draft[w]
<1>1. /\ step[w] = "inserted" /\ EndTransaction(w)
      /\ audit' = audit \union {n}
    BY DEF Commit
<1>2. t \in Tenants /\ HasDraft(w)
    BY <1>1, ChainAssumption DEF HasDraft
<1>3. n.sequence \in Nat /\ n.tenant = t
    BY <1>2, DraftTenant DEF ChainInv, DraftsBuilt
<1>4. /\ advisory' \in [Tenants -> Writers \union {NoWriter}]
      /\ step' \in [Writers -> Steps]
      /\ DOMAIN draft' = Writers
      /\ LockHeld'
      /\ \A v \in Writers : HasDraft(v)' =>
            /\ TenantOf[v] # t
            /\ HasDraft(v) /\ draft'[v] = draft[v]
    BY <1>1, TransactionEnded
<1>5. /\ \A e \in RowsOf(t) : e.sequence \in Nat
      /\ HasLast(RowsOf(t))
    BY <1>2, RowsNumbered
<1>6. Sound(t) => n = NextEvent(t, w, RowsOf(t))
    BY <1>2 DEF Sound
<1>7. Ahead(t) => \A e \in RowsOf(t) : e.sequence < n.sequence
    BY <1>2 DEF Ahead
<1> HIDE DEF n, t
<1>8. RowsOf(t)' = RowsOf(t) \union {n}
    BY <1>1, <1>3 DEF RowsOf
<1>9. \A u \in Tenants \ {t} : RowsOf(u)' = RowsOf(u)
    BY <1>1, <1>3 DEF RowsOf
<1>10. TypeOK' /\ DraftsBuilt'
    BY <1>1, <1>2, <1>3, <1>4 DEF ChainInv, TypeOK, DraftsBuilt
<1>11. HasLast(RowsOf(t))'
  <2>1. CASE \A e \in RowsOf(t) : e.sequence <= n.sequence
      BY <1>3, <1>8, <2>1 DEF HasLast
  <2>2. CASE \E e \in RowsOf(t) : ~(e.sequence <= n.sequence)
    <3>1. PICK l \in RowsOf(t) : \A e \in RowsOf(t) : e.sequence <= l.sequence
        BY <1>5, <2>2 DEF HasLast
    <3>2. \A e \in RowsOf(t) \union {n} : e.sequence <= l.sequence
        BY <1>3, <1>5, <2>2, <3>1
    <3> QED
        BY <1>8, <3>1, <3>2 DEF HasLast
  <2> QED
      BY <2>1, <2>2
<1>12. ASSUME Sound(t) PROVE Sound(t)'
  <2>1. Genuine(RowsOf(t) \union {n}) /\ Verified(RowsOf(t) \union {n})
      BY <1>5, <1>6, <1>12, AppendSound DEF Sound
  <2> QED
      BY <1>4, <1>8, <2>1 DEF Sound
<1>13. ASSUME Broken(t) PROVE Broken(t)'
  <2>1. CASE \E e \in RowsOf(t) : Altered(e)
      BY <1>8, <2>1 DEF Broken
  <2>2. CASE Ahead(t) /\ \E e \in RowsOf(t) : Orphan(e, RowsOf(t))
    <3>1. PICK e \in RowsOf(t) : Orphan(e, RowsOf(t))
        BY <2>2
    <3>2. Orphan(e, RowsOf(t) \union {n})
        BY <1>3, <1>5, <1>7, <2>2, <3>1 DEF Orphan
    <3>3. Ahead(t)'
        BY <1>4 DEF Ahead
    <3> QED
        BY <1>8, <3>1, <3>2, <3>3 DEF Broken
  <2> QED
      BY <1>13, <2>1, <2>2 DEF Broken
<1>14. ASSUME NEW u \in Tenants \ {t}
       PROVE /\ HasLast(RowsOf(u))'
             /\ Sound(u) => Sound(u)'
             /\ Broken(u) => Broken(u)'
    BY <1>4, <1>9, TenantKept
<1>15. /\ \A u \in Tenants : HasLast(RowsOf(u))'
       /\ \A u \in Tenants \ tampered' : Sound(u)'
       /\ \A u \in tampered' : Broken(u)'
    BY <1>11, <1>12, <1>13, <1>14 DEF ChainInv, TypeOK
<1> QED
    BY <1>4, <1>10, <1>15 DEF ChainInv

\* An edit keeps it: the chain was sound and is broken now.
LEMMA TamperKeeps ==
    ASSUME ChainInv, NEW t \in Tenants, Tamper(t)
    PROVE ChainInv'
<1>1. /\ t \notin tampered /\ tampered' = tampered \union {t}
      /\ advisory' = advisory /\ step' = step /\ draft' = draft
    BY DEF Tamper
<1>2. PICK S \in Edits(RowsOf(t)) : audit' = (audit \ RowsOf(t)) \union S
    BY DEF Tamper
<1>3. Sound(t)
    BY <1>1 DEF ChainInv
<1>4. /\ \A e \in RowsOf(t) : e.sequence \in Nat
      /\ HasLast(RowsOf(t)) /\ Genuine(RowsOf(t))
    BY <1>3, RowsNumbered DEF Sound
<1>5. /\ HasLast(S)
      /\ \A e \in S : e.sequence \in Nat /\ \E d \in RowsOf(t) : e.tenant = d.tenant
      /\ \/ \E e \in S : Altered(e)
         \/ S \subseteq RowsOf(t) /\ \E e \in S : Orphan(e, S)
    BY <1>4, EditsBreak
<1>6. \A e \in S : e.tenant = t
    BY <1>5 DEF RowsOf
<1>7. RowsOf(t)' = S /\ \A u \in Tenants \ {t} : RowsOf(u)' = RowsOf(u)
    BY <1>2, <1>6 DEF RowsOf
<1>8. TypeOK' /\ LockHeld' /\ DraftsBuilt'
  <2>1. TypeOK'
      BY <1>1, <1>2, <1>5, <1>6 DEF ChainInv, TypeOK
  <2>2. LockHeld' /\ DraftsBuilt'
      BY <1>1 DEF ChainInv, LockHeld, DraftsBuilt, HasDraft
  <2> QED
      BY <2>1, <2>2
<1>9. Broken(t)'
  <2>1. CASE \E e \in S : Altered(e)
      BY <1>7, <2>1 DEF Broken
  <2>2. CASE S \subseteq RowsOf(t) /\ \E e \in S : Orphan(e, S)
    <3>1. ASSUME NEW v \in Writers, HasDraft(v)', TenantOf[v] = t
          PROVE \A e \in S : e.sequence < draft'[v].sequence
      <4>1. draft'[v] = NextEvent(t, v, RowsOf(t))
          BY <1>1, <1>3, <3>1 DEF Sound, HasDraft
      <4> QED
          BY <1>4, <2>2, <4>1, NextEventFacts
    <3>2. Ahead(t)'
        BY <1>7, <3>1 DEF Ahead
    <3> QED
        BY <1>7, <2>2, <3>2 DEF Broken
  <2> QED
      BY <1>5, <2>1, <2>2
<1>10. ASSUME NEW u \in Tenants \ {t}
       PROVE /\ HasLast(RowsOf(u))'
             /\ Sound(u) => Sound(u)'
             /\ Broken(u) => Broken(u)'
  <2>1. \A v \in Writers : HasDraft(v)' => HasDraft(v) /\ draft'[v] = draft[v]
      BY <1>1 DEF HasDraft
  <2> QED
      BY <1>7, <2>1, TenantKept
<1>11. HasLast(RowsOf(t))'
    BY <1>5, <1>7
<1> QED
    BY <1>1, <1>8, <1>9, <1>10, <1>11 DEF ChainInv, TypeOK

\* Every step keeps the invariant.
LEMMA ChainStep == ChainInv /\ [Next]_vars => ChainInv'
<1> SUFFICES ASSUME ChainInv, [Next]_vars PROVE ChainInv'
    OBVIOUS
<1>1. ASSUME NEW w \in Writers, Append(w) PROVE ChainInv'
    BY <1>1, LockKeeps, ReadHeadKeeps, InsertKeeps, CommitKeeps, RollbackKeeps
       DEF Append
<1>2. ASSUME NEW t \in Tenants, Tamper(t) PROVE ChainInv'
    BY <1>2, TamperKeeps
<1>3. CASE UNCHANGED vars
  <2>1. /\ audit' = audit /\ advisory' = advisory /\ step' = step
        /\ draft' = draft /\ tampered' = tampered
      BY <1>3 DEF vars, chainVars
  <2>2. TypeOK' /\ LockHeld'
      BY <2>1 DEF ChainInv, TypeOK, LockHeld
  <2>3. \A v \in Writers : HasDraft(v)' => HasDraft(v) /\ draft'[v] = draft[v]
      BY <2>1 DEF HasDraft
  <2> QED
      BY <2>1, <2>2, <2>3, TableKept DEF ChainInv
<1> QED
    BY <1>1, <1>2, <1>3 DEF Next, Quiet

-----------------------------------------------------------------------------
\* The invariant holds in every reachable state.
THEOREM ChainInvariant == Spec => []ChainInv
BY ChainInit, ChainStep, PTL DEF Spec

\* Every chain that append_audit builds and nobody edits passes
\* verify_audit_chain, whatever transactions of its tenant run, commit and
\* roll back concurrently.
THEOREM ChainsVerify == Spec => []ChainValid
<1>1. ChainInv => ChainValid
    BY DEF ChainInv, ChainValid, Sound
<1> QED
    BY <1>1, ChainInvariant, PTL

\* While the invariant holds the head a writer read is still the head.
LEMMA NoCollision == ChainInv => AppendNeverCollides
<1> SUFFICES ASSUME ChainInv, NEW w \in Writers, step[w] = "drafted",
                    TenantOf[w] \notin tampered
             PROVE ~Taken(w, draft[w])
    BY DEF AppendNeverCollides
<1> DEFINE t == TenantOf[w]
<1>1. t \in Tenants /\ draft[w] = NextEvent(t, w, RowsOf(t))
    BY ChainAssumption DEF ChainInv, Sound, HasDraft
<1>2. (\A e \in RowsOf(t) : e.sequence \in Nat) /\ HasLast(RowsOf(t))
    BY <1>1, RowsNumbered
<1>3. /\ draft[w].tenant = t /\ draft[w].sequence \in Nat
      /\ \A f \in RowsOf(t) : f.sequence < draft[w].sequence
  <2> HIDE DEF t
  <2> QED
      BY <1>1, <1>2, NextEventFacts DEF Event
<1>4. ~\E f \in audit : f.tenant = t /\ f.sequence = draft[w].sequence
    BY <1>2, <1>3 DEF RowsOf
<1>5. ASSUME NEW v \in Writers \ {w}, step[v] = "inserted",
             draft[v].tenant = t
      PROVE FALSE
  <2>1. draft[v].tenant = TenantOf[v]
      BY <1>5, DraftTenant DEF HasDraft
  <2> QED
      BY <1>5, <2>1, OneWriterPerTenant
<1> QED
    BY <1>3, <1>4, <1>5 DEF Taken

\* No append to a chain nobody edited finds its sequence number taken, so
\* uq_audit_tenant_sequence never aborts the transaction that carries the
\* audit event.
THEOREM AppendsDoNotCollide == Spec => []AppendNeverCollides
BY NoCollision, ChainInvariant, PTL

\* A broken chain does not verify: verify_audit_chain recomputes the digest
\* of the altered row, or misses the row before the orphan.
LEMMA BrokenFails ==
    ASSUME NEW t, Broken(t)
    PROVE ~Verified(RowsOf(t))
<1>1. CASE \E e \in RowsOf(t) : Altered(e)
    BY <1>1 DEF Altered, Verified
<1>2. CASE \E e \in RowsOf(t) : Orphan(e, RowsOf(t))
    BY <1>2 DEF Orphan, Verified, Follows
<1> QED
    BY <1>1, <1>2 DEF Broken

\* verify_audit_chain fails for a chain with a changed field, two rows
\* exchanged or a row but the last removed, and goes on failing whatever
\* append_audit adds afterwards, appends under way at the time included.
THEOREM EditsAreDetected == Spec => []TamperDetected
<1>1. ChainInv => TamperDetected
    BY BrokenFails DEF ChainInv, TamperDetected
<1> QED
    BY <1>1, ChainInvariant, PTL
=============================================================================
