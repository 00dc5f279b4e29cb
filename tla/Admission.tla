------------------------------ MODULE Admission ------------------------------
(***************************************************************************)
(* Admission to one regional source of one tenant: the AIMD window and the *)
(* sorted set of active holders in Redis, each changed by one Lua script,  *)
(* and RegionalSourceExecutor.execute around the source call               *)
(* (src/src/privacy_cloud/services/{adaptive_concurrency,                  *)
(* source_connectors}.py).                                                 *)
(*                                                                         *)
(* A call is one execute of an attempt of a task; the holder it registers  *)
(* is the task's id, so attempts of one task share an entry.               *)
(***************************************************************************)
EXTENDS Naturals, FiniteSets

CONSTANTS
    Tasks,
    Calls, CallTask,            \* attempts and their tasks
    Minimum, Maximum, Initial,  \* of the window
    AdditiveStep,
    RatioNum, RatioDen,         \* decrease_ratio = RatioNum / RatioDen
    Unset                       \* the window key is absent

ASSUME WindowAssumption ==
    /\ IsFiniteSet(Tasks)
    /\ CallTask \in [Calls -> Tasks]
    /\ Minimum \in Nat /\ Maximum \in Nat /\ Initial \in Minimum..Maximum
    /\ AdditiveStep \in Nat
    /\ RatioNum \in Nat /\ RatioDen \in Nat \ {0} /\ RatioNum < RatioDen
    /\ Unset \notin Nat

VARIABLES
    window,     \* the Redis window, or Unset
    entry,      \* of a task: its entry in the in-flight set
    pc,
    known,      \* of a call: controller.limit, the last limit it saw
    stray       \* history: the running calls whose entry has expired, or
                \* was shared with another running attempt of their task

vars == <<window, entry, pc, known, stray>>

-----------------------------------------------------------------------------
Larger(a, b) == IF a > b THEN a ELSE b
Smaller(a, b) == IF a < b THEN a ELSE b

\* GET of the window key, with the caller's default.
CurrentWindow(default) == IF window = Unset THEN default ELSE window

\* The AIMD step: a failure or a slow answer shrinks the window.
NextWindow_NoMinimum(current, bad) ==
    IF bad THEN (current * RatioNum) \div RatioDen
           ELSE Smaller(Maximum, current + AdditiveStep)
NextWindow(current, bad) ==
    IF bad THEN Larger(Minimum, (current * RatioNum) \div RatioDen)
           ELSE Smaller(Maximum, current + AdditiveStep)

\* How a source call ends: a 2xx answer within or above the target latency,
\* another status, a 2xx answer that is not verified, or an exception.
Outcomes == {"fast", "slow", "refused", "unverified", "raised"}

\* The samples of a call show a failure or a p95 above the target: one sample
\* for an answer, and a failed one more for every exception.
Bad(outcome) == outcome # "fast"

\* The in-flight set after ZREMRANGEBYSCORE, and what ZCARD then counts.
Purged_Nothing == entry
Purged == [t \in Tasks |-> IF entry[t] = "expired" THEN "none" ELSE entry[t]]
Holders == {t \in Tasks : Purged[t] # "none"}

\* ZCARD against the limit.
HasRoom_OneMore(limit) == Cardinality(Holders) <= limit
HasRoom(limit) == Cardinality(Holders) < limit

\* Calls between their admission and the release of their entry.
InSource(c) == pc[c] \in {"calling", "decided"}
Active == {c \in Calls : InSource(c)}
ActiveOf(t) == {c \in Active : CallTask[c] = t}

Init ==
    /\ window = Unset
    /\ entry = [t \in Tasks |-> "none"]
    /\ pc = [c \in Calls |-> "idle"]
    /\ known = [c \in Calls |-> Initial]
    /\ stray = {}

\* execute is called.  It does not look for another attempt of its task: when
\* a lease was lost, two of them run.
Start(c) ==
    /\ pc[c] = "idle"
    /\ pc' = [pc EXCEPT ![c] = "waiting"]
    /\ UNCHANGED <<window, entry, known, stray>>

\* The admission script admits the call, and sets the entry of its task or
\* renews the one another attempt holds.
Acquire(c) ==
    LET limit == CurrentWindow(known[c]) IN
    /\ pc[c] = "waiting"
    /\ HasRoom(limit)
    /\ entry' = [Purged EXCEPT ![CallTask[c]] = "live"]
    /\ known' = [known EXCEPT ![c] = limit]
    /\ pc' = [pc EXCEPT ![c] = "calling"]
    /\ stray' = IF ActiveOf(CallTask[c]) = {} THEN stray
                ELSE stray \union ActiveOf(CallTask[c]) \union {c}
    /\ UNCHANGED window

\* The script refuses it: the call sleeps and tries again, or its deadline
\* has passed and it raises TimeoutError, outside the try that releases.
Refused_Releases(c) ==
    LET limit == CurrentWindow(known[c]) IN
    /\ pc[c] = "waiting"
    /\ ~HasRoom(limit)
    /\ known' = [known EXCEPT ![c] = limit]
    /\ \/ entry' = Purged /\ UNCHANGED pc
       \/ /\ entry' = [Purged EXCEPT ![CallTask[c]] = "none"]
          /\ pc' = [pc EXCEPT ![c] = "done"]
    /\ UNCHANGED <<window, stray>>
Refused(c) ==
    LET limit == CurrentWindow(known[c]) IN
    /\ pc[c] = "waiting"
    /\ ~HasRoom(limit)
    /\ entry' = Purged
    /\ known' = [known EXCEPT ![c] = limit]
    /\ \/ UNCHANGED pc
       \/ pc' = [pc EXCEPT ![c] = "done"]
    /\ UNCHANGED <<window, stray>>

\* The source answered or raised, and publish_decision runs the window
\* script, or fails on Redis.
Decide(c) ==
    /\ pc[c] = "calling"
    /\ \/ \E outcome \in Outcomes :
             window' = NextWindow(CurrentWindow(known[c]), Bad(outcome))
       \/ UNCHANGED window
    /\ pc' = [pc EXCEPT ![c] = "decided"]
    /\ UNCHANGED <<entry, known, stray>>

\* The finally block: ZREM of the task's entry, whichever attempt set it,
\* unless Redis fails.
Release(c) ==
    /\ pc[c] = "decided"
    /\ \/ entry' = [entry EXCEPT ![CallTask[c]] = "none"]
       \/ UNCHANGED entry
    /\ pc' = [pc EXCEPT ![c] = "done"]
    /\ stray' = stray \ {c}
    /\ UNCHANGED <<window, known>>

\* The process exits and leaves its entry behind.
Crash(c) ==
    /\ pc[c] \in {"waiting", "calling", "decided"}
    /\ pc' = [pc EXCEPT ![c] = "done"]
    /\ stray' = stray \ {c}
    /\ UNCHANGED <<window, entry, known>>

\* The score of an entry passes.  Nothing renews it: it is set to five
\* seconds more than the admission timeout, and the HTTP timeout bounds each
\* phase of a source call, not the whole call, which may outlast it.
EntryExpire(t) ==
    /\ entry[t] = "live"
    /\ entry' = [entry EXCEPT ![t] = "expired"]
    /\ stray' = stray \union ActiveOf(t)
    /\ UNCHANGED <<window, pc, known>>

\* The window key reaches its TTL.
WindowExpire ==
    /\ window # Unset
    /\ window' = Unset
    /\ UNCHANGED <<entry, pc, known, stray>>

Done == (\A c \in Calls : pc[c] = "done") /\ UNCHANGED vars

CallStep(c) == Acquire(c) \/ Refused(c) \/ Decide(c) \/ Release(c)

Next ==
    \/ \E c \in Calls : Start(c) \/ CallStep(c) \/ Crash(c)
    \/ \E t \in Tasks : EntryExpire(t)
    \/ WindowExpire
    \/ Done

Spec == Init /\ [][Next]_vars

\* Calls run, and time passes for every entry.
Fairness ==
    /\ \A c \in Calls : WF_vars(CallStep(c))
    /\ \A t \in Tasks : WF_vars(EntryExpire(t))

FairSpec == Spec /\ Fairness

-----------------------------------------------------------------------------
Windows == Minimum..Maximum

\* The window and every limit a call has seen stay within minimum and
\* maximum, through decreases, expiry of the key and stale defaults.
WindowTypeOK ==
    /\ window \in Windows \union {Unset}
    /\ entry \in [Tasks -> {"none", "live", "expired"}]
    /\ pc \in [Calls -> {"idle", "waiting", "calling", "decided", "done"}]
    /\ known \in [Calls -> Windows]
    /\ stray \subseteq Calls

\* The script counts the calls at the source: there are never more of them
\* than entries it counts, except for the calls running at that moment whose
\* entry expired under them or was shared between attempts of their task.
\* Neither a refused attempt that gives up, nor a purge, a crash or a failed
\* release, takes the slot of another call.
ExcessIsStray == Cardinality(Active \ stray) <= Cardinality(Holders)

\* A call is admitted only when fewer calls are at the source than the window
\* allows, whatever entries were left behind, expired or replaced before.
\* Calls that outlast their entry or share one are not bounded by the window,
\* and they do not weaken it for the others.
Admits(c) == pc[c] = "waiting" /\ pc'[c] = "calling"
AdmissionRespectsWindow ==
    [][\A c \in Calls :
          Admits(c) => Cardinality(Active \ stray) < CurrentWindow(known[c])]_vars

\* Capacity comes back: no task keeps its slot for ever, although processes
\* exit inside the call, releases fail, and a later attempt of the task
\* renews the entry that an earlier one left.
CapacityReturns == \A t \in Tasks : t \in Holders ~> t \notin Holders
-----------------------------------------------------------------------------
(* The inductive invariant behind the safety properties.                     *)

\* A running call that did not stray has a live entry to itself.
OwnEntry ==
    \A c \in Active \ stray :
        /\ entry[CallTask[c]] = "live"
        /\ ActiveOf(CallTask[c]) = {c}

AdmissionInv == WindowTypeOK /\ OwnEntry
=============================================================================
