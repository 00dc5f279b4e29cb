-------------------------- MODULE Admission_proofs ---------------------------
(***************************************************************************)
(* Proofs about Admission for any number of tasks and calls and any        *)
(* window, step and decrease ratio.                                        *)
(***************************************************************************)
EXTENDS Admission, FiniteSetTheorems, FunctionTheorems, TLAPS

\* A proper fraction of a number, rounded down, is a number not above it.
LEMMA FractionBelow ==
    ASSUME NEW c \in Nat, NEW n \in Nat, NEW d \in Nat \ {0}, n < d
    PROVE  (c * n) \div d \in Nat /\ (c * n) \div d <= c
<1> DEFINE p == c * n
           q == p \div d
<1>1. p \in Nat /\ p <= c * d
  BY SMT
<1>2. q \in Int /\ d * q <= p /\ p < d * q + d
  BY <1>1, SMT
<1>3. q \in Nat
  BY <1>1, <1>2, SMT
<1>4. q <= c
  <2> SUFFICES ASSUME q >= c + 1 PROVE FALSE
    BY <1>3, SMT
  <2>1. d * q >= d * (c + 1)
    BY <1>3, SMT
  <2>2. d * (c + 1) = c * d + d
    BY SMT
  <2> QED BY <1>1, <1>2, <1>3, <2>1, <2>2, SMT
<1> QED BY <1>3, <1>4

\* Every AIMD step stays between minimum and maximum.
LEMMA NextWindowInBounds ==
    ASSUME NEW w \in Windows, NEW bad \in BOOLEAN
    PROVE  NextWindow(w, bad) \in Windows
<1>1. w \in Nat /\ (w * RatioNum) \div RatioDen \in Nat /\ (w * RatioNum) \div RatioDen <= w
  BY FractionBelow, WindowAssumption DEF Windows
<1> DEFINE q == (w * RatioNum) \div RatioDen
<1> HIDE DEF q
<1>2. q \in Nat /\ q <= w
  BY <1>1 DEF q
<1>3. NextWindow(w, bad) = IF bad THEN Larger(Minimum, q) ELSE Smaller(Maximum, w + AdditiveStep)
  BY DEF NextWindow, q
<1> QED BY <1>1, <1>2, <1>3, WindowAssumption DEF Windows, Larger, Smaller

\* The limit a call works with is between minimum and maximum.
LEMMA LimitInBounds ==
    ASSUME WindowTypeOK, NEW c \in Calls
    PROVE  CurrentWindow(known[c]) \in Windows
BY DEF WindowTypeOK, CurrentWindow

\* The absent window, no entry and no call satisfy the invariant.
LEMMA AdmissionInit == Init => AdmissionInv
BY WindowAssumption
DEF Init, AdmissionInv, WindowTypeOK, Windows, OwnEntry, Active, InSource

\* Every step keeps the types.
LEMMA TypeStep == WindowTypeOK /\ [Next]_vars => WindowTypeOK'
<1> SUFFICES ASSUME WindowTypeOK, [Next]_vars PROVE WindowTypeOK'
  OBVIOUS
<1>1. ASSUME NEW c \in Calls, Start(c) \/ Release(c) \/ Crash(c) PROVE WindowTypeOK'
  BY <1>1, WindowAssumption DEF WindowTypeOK, Start, Release, Crash
<1>2. ASSUME NEW c \in Calls, Acquire(c) \/ Refused(c) PROVE WindowTypeOK'
  <2>1. CurrentWindow(known[c]) \in Windows
    BY LimitInBounds
  <2>2. Purged \in [Tasks -> {"none", "live", "expired"}]
    BY DEF WindowTypeOK, Purged
  <2> QED
    BY <1>2, <2>1, <2>2, WindowAssumption
    DEF WindowTypeOK, Acquire, Refused, ActiveOf, Active
<1>3. ASSUME NEW c \in Calls, Decide(c) PROVE WindowTypeOK'
  <2>1. CurrentWindow(known[c]) \in Windows
    BY LimitInBounds
  <2>2. \A outcome \in Outcomes :
           NextWindow(CurrentWindow(known[c]), Bad(outcome)) \in Windows
    BY <2>1, NextWindowInBounds DEF Bad
  <2> QED BY <1>3, <2>2 DEF WindowTypeOK, Decide
<1>4. ASSUME NEW t \in Tasks, EntryExpire(t) PROVE WindowTypeOK'
  BY <1>4 DEF WindowTypeOK, EntryExpire, ActiveOf, Active
<1>5. CASE WindowExpire
  BY <1>5 DEF WindowTypeOK, WindowExpire
<1>6. CASE UNCHANGED vars
  BY <1>6 DEF WindowTypeOK, vars
<1> QED
  BY <1>1, <1>2, <1>3, <1>4, <1>5, <1>6 DEF Next, CallStep, Done

\* The invariant for one call: it is at the source and did not stray.
Regular(c) == InSource(c) /\ c \notin stray
Alone(c) == \A d \in Calls : InSource(d) /\ CallTask[d] = CallTask[c] => d = c

LEMMA OwnEntryPerCall ==
    OwnEntry <=> \A c \in Calls : Regular(c) => entry[CallTask[c]] = "live" /\ Alone(c)
BY DEF OwnEntry, Regular, Alone, ActiveOf, Active

\* A call that is at the source and does not stray keeps its entry to itself:
\* purges remove expired entries, a release removes that of its own task, and
\* an expiry or the admission of another attempt makes the call a stray.
LEMMA OwnEntryStep == AdmissionInv /\ [Next]_vars => OwnEntry'
<1> SUFFICES ASSUME AdmissionInv, [Next]_vars,
                    NEW c \in Calls, Regular(c)'
             PROVE  entry'[CallTask[c]] = "live" /\ Alone(c)'
  BY DEF OwnEntry, Regular, Alone, ActiveOf, Active
<1>0. /\ pc \in [Calls -> {"idle", "waiting", "calling", "decided", "done"}]
      /\ entry \in [Tasks -> {"none", "live", "expired"}]
      /\ \A d \in Calls : CallTask[d] \in Tasks
      /\ Regular(c) => entry[CallTask[c]] = "live" /\ Alone(c)
  BY OwnEntryPerCall, WindowAssumption DEF AdmissionInv, WindowTypeOK
<1>1. ASSUME NEW d \in Calls, Start(d) \/ Decide(d) \/ Refused(d) \/ Crash(d)
      PROVE  entry'[CallTask[c]] = "live" /\ Alone(c)'
  <2>1. Regular(c) /\ \A e \in Calls : InSource(e)' => InSource(e)
    BY <1>0, <1>1 DEF Start, Decide, Refused, Crash, Regular, InSource
  <2>2. entry[CallTask[c]] = "live" => entry'[CallTask[c]] = "live"
    BY <1>0, <1>1 DEF Start, Decide, Refused, Crash, Purged
  <2> QED BY <1>0, <2>1, <2>2 DEF Alone
<1>2. ASSUME NEW d \in Calls, Release(d)
      PROVE  entry'[CallTask[c]] = "live" /\ Alone(c)'
  <2>1. /\ Regular(c) /\ c # d /\ InSource(d)
        /\ \A e \in Calls : InSource(e)' => InSource(e)
    BY <1>0, <1>2 DEF Release, Regular, InSource
  <2>2. CallTask[d] # CallTask[c]
    BY <1>0, <2>1 DEF Alone
  <2>3. entry'[CallTask[c]] = entry[CallTask[c]]
    BY <1>0, <1>2, <2>2 DEF Release
  <2> QED BY <1>0, <2>1, <2>3 DEF Alone
<1>3. ASSUME NEW d \in Calls, Acquire(d)
      PROVE  entry'[CallTask[c]] = "live" /\ Alone(c)'
  <2>1. /\ \A e \in Calls : InSource(e)' <=> InSource(e) \/ e = d
        /\ ~InSource(d)
    BY <1>0, <1>3 DEF Acquire, InSource
  <2>2. \A t \in Tasks : entry'[t] = IF t = CallTask[d] THEN "live" ELSE Purged[t]
    BY <1>0, <1>3 DEF Acquire, Purged
  <2>3. CASE ActiveOf(CallTask[d]) = {}
    <3>1. \A e \in Calls : InSource(e) => CallTask[e] # CallTask[d]
      BY <2>3 DEF ActiveOf, Active
    <3>2. stray' = stray
      BY <1>3, <2>3 DEF Acquire
    <3>3. CASE c = d
      BY <1>0, <2>1, <2>2, <3>1, <3>3 DEF Alone
    <3>4. CASE c # d
      <4>1. Regular(c)
        BY <2>1, <3>2, <3>4 DEF Regular
      <4>2. CallTask[c] # CallTask[d]
        BY <3>1, <4>1 DEF Regular
      <4> QED BY <1>0, <2>1, <2>2, <4>1, <4>2 DEF Alone, Purged
    <3> QED BY <3>3, <3>4
  <2>4. CASE ActiveOf(CallTask[d]) # {}
    <3>1. /\ c # d /\ c \notin stray
          /\ c \notin ActiveOf(CallTask[d])
      BY <1>3, <2>4 DEF Acquire, Regular
    <3>2. Regular(c)
      BY <2>1, <3>1 DEF Regular
    <3>3. CallTask[c] # CallTask[d]
      BY <3>1, <3>2 DEF Regular, ActiveOf, Active
    <3> QED BY <1>0, <2>1, <2>2, <3>2, <3>3 DEF Alone, Purged
  <2> QED BY <2>3, <2>4
<1>4. ASSUME NEW t \in Tasks, EntryExpire(t)
      PROVE  entry'[CallTask[c]] = "live" /\ Alone(c)'
  <2>1. Regular(c) /\ \A e \in Calls : InSource(e)' <=> InSource(e)
    BY <1>4 DEF EntryExpire, Regular, InSource
  <2>2. CallTask[c] # t
    BY <1>4, <2>1 DEF EntryExpire, Regular, ActiveOf, Active
  <2> QED BY <1>0, <1>4, <2>1, <2>2 DEF EntryExpire, Alone
<1>5. CASE UNCHANGED <<entry, pc, stray>>
  <2>1. Regular(c) /\ \A e \in Calls : InSource(e)' <=> InSource(e)
    BY <1>5 DEF Regular, InSource
  <2> QED BY <1>0, <1>5, <2>1 DEF Alone
<1> QED
  BY <1>1, <1>2, <1>3, <1>4, <1>5 DEF Next, CallStep, WindowExpire, Done, vars

\* The window, and every limit a call has seen, stays between minimum and
\* maximum under any sequence of decreases, increases, expiries and stale
\* defaults.
THEOREM WindowInBounds == Spec => []WindowTypeOK
<1>1. Init => WindowTypeOK
  BY AdmissionInit DEF AdmissionInv
<1> QED BY <1>1, TypeStep, PTL DEF Spec

\* In every reachable state a running call has a live entry to itself, or is
\* one whose entry expired or was shared.
THEOREM AdmissionInvariant == Spec => []AdmissionInv
<1>1. AdmissionInv /\ [Next]_vars => AdmissionInv'
  BY TypeStep, OwnEntryStep DEF AdmissionInv
<1> QED BY <1>1, AdmissionInit, PTL DEF Spec

\* The calls with an entry to themselves are no more than the entries that
\* ZCARD counts.
LEMMA RegularBelowHolders ==
    ASSUME AdmissionInv
    PROVE  /\ Cardinality(Active \ stray) \in Nat /\ Cardinality(Holders) \in Nat
           /\ Cardinality(Active \ stray) <= Cardinality(Holders)
<1> DEFINE R == Active \ stray
           f == [c \in R |-> CallTask[c]]
<1>1. IsFiniteSet(Holders)
  BY FS_Subset, WindowAssumption DEF Holders
<1>2. \A c \in R : c \in Calls /\ entry[CallTask[c]] = "live" /\ ActiveOf(CallTask[c]) = {c}
  BY DEF AdmissionInv, OwnEntry, Active
<1>3. f \in [R -> Holders]
  <2>1. \A c \in R : CallTask[c] \in Tasks
    BY <1>2, WindowAssumption
  <2> QED BY <1>2, <2>1 DEF Holders, Purged
<1>4. \A c, d \in R : f[c] = f[d] => c = d
  BY <1>2
<1> HIDE DEF f
<1>5. f \in Injection(R, Holders)
  BY <1>3, <1>4, Fun_IsInj
<1>6. IsFiniteSet(R) /\ Cardinality(R) <= Cardinality(Holders)
  BY <1>1, <1>5, FS_Injection
<1> QED BY <1>1, <1>6, FS_CardinalityType

\* There are never more calls at the source than entries the script counts,
\* except the running calls whose entry expired or was shared: whatever
\* crashes, gives up, fails to release or overlaps.
THEOREM ExcessOnlyStray == Spec => []ExcessIsStray
<1>1. AdmissionInv => ExcessIsStray
  BY RegularBelowHolders DEF ExcessIsStray
<1> QED BY <1>1, AdmissionInvariant, PTL

\* The admission script lets a call in only when fewer calls are at the source
\* than its window, stray calls apart, for every window and any number of
\* calls.
THEOREM AdmissionsRespectWindow == Spec => AdmissionRespectsWindow
<1> DEFINE Respects == \A c \in Calls : Admits(c) => Cardinality(Active \ stray) < CurrentWindow(known[c])
<1>1. AdmissionInv /\ [Next]_vars => [Respects]_vars
  <2> SUFFICES ASSUME AdmissionInv, Next, NEW c \in Calls, Admits(c)
               PROVE  Cardinality(Active \ stray) < CurrentWindow(known[c])
    OBVIOUS
  <2>1. Acquire(c)
    <3>0. pc \in [Calls -> {"idle", "waiting", "calling", "decided", "done"}]
      BY DEF AdmissionInv, WindowTypeOK
    <3>1. ASSUME NEW d \in Calls, Start(d) \/ Refused(d) \/ Decide(d) \/ Release(d) \/ Crash(d)
          PROVE  FALSE
      BY <3>0, <3>1 DEF Admits, Start, Refused, Decide, Release, Crash
    <3>2. ASSUME NEW d \in Calls, Acquire(d) PROVE d = c
      BY <3>0, <3>2 DEF Admits, Acquire
    <3>3. ASSUME UNCHANGED pc PROVE FALSE
      BY <3>3 DEF Admits
    <3> QED
      BY <3>1, <3>2, <3>3 DEF Next, CallStep, EntryExpire, WindowExpire, Done, vars
  <2>2. Cardinality(Holders) < CurrentWindow(known[c])
    BY <2>1 DEF Acquire, HasRoom
  <2>3. CurrentWindow(known[c]) \in Nat
    BY LimitInBounds, WindowAssumption DEF AdmissionInv, Windows
  <2> QED BY <2>2, <2>3, RegularBelowHolders
<1> QED BY <1>1, AdmissionInvariant, PTL DEF Spec, AdmissionRespectsWindow
=============================================================================
