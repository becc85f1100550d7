--------------------------- MODULE WhenAllProofs ---------------------------
(***************************************************************************)
(* What module WhenAll checks on four tasks, for any number of them.       *)
(*                                                                         *)
(* The inductive invariant says how far the loop that starts the tasks is  *)
(* (Loop), that whoever is let through saw the counter at zero (Gate), and *)
(* what having only one thread excludes (OneThread).                       *)
(***************************************************************************)
EXTENDS WhenAll, FiniteSetTheorems, TLAPS

\* the tasks whose callback has not run its fetch_sub
ToNotify == {t \in Tasks : tst[t] \notin {"notify", "done"}}

\* Tasks are started in order, and one runs inside start().
Loop ==
    /\ pc = "start" => \A t \in Tasks : tst[t] = "lazy" <=> t >= cur
    /\ pc = "in_start" =>
         /\ cur \in Tasks /\ tst[cur] \in {"running", "final", "notify"}
         /\ \A t \in Tasks : tst[t] = "lazy" <=> t > cur
    /\ pc \notin {"start", "in_start"} => \A t \in Tasks : tst[t] # "lazy"
    /\ \A t \in Tasks : tst[t] = "running" => InStart(t)

\* A result is stored before its task notifies; the one that notifies last has
\* seen the counter reach zero, and so has W when it is let through.
Gate ==
    /\ \A t \in Tasks : result[t] = "none" <=> tst[t] \in {"lazy", "running", "pending"}
    /\ \A t \in Tasks : tst[t] = "notify" => cnt = 0
    /\ pc \in {"collect", "done"} => cnt = 0
    /\ continuation => pc \in {"parked", "collect", "done"}
    /\ pc = "parked" => continuation

\* One thread is in one callback at a time: inside start(), or while W is
\* suspended.
OneThread ==
    threading = "one" =>
        /\ Ending # {} => pc \in {"in_start", "parked"}
        /\ \A t, u \in Ending : t = u
        /\ pc = "suspend" => cnt # 0
        /\ pc = "parked" => cnt # 0 \/ Ending # {}

WInv == CounterExact /\ Loop /\ Gate /\ OneThread

-----------------------------------------------------------------------------
(* Sets of tasks are finite. *)

\* Every set of tasks is finite, and there are N tasks.
LEMMA TasksFinite ==
    /\ \A S \in SUBSET Tasks : IsFiniteSet(S) /\ Cardinality(S) \in Nat
    /\ Cardinality(Tasks) = N
<1>1. IsFiniteSet(Tasks) /\ Cardinality(Tasks) = N
  BY FS_Interval, WhenAllAssumption DEF Tasks
<1> QED
  BY <1>1, FS_Subset, FS_CardinalityType

-----------------------------------------------------------------------------
(* The counter. *)

\* Nobody has notified when the counter is set to the number of tasks
\* (when_all.hpp:70).
LEMMA CounterInit == Init => CounterExact
<1> SUFFICES ASSUME Init PROVE CounterExact
  OBVIOUS
<1>1. TypeOK
  <2>1. cur \in 1 .. N + 1 /\ cnt \in 0 .. N
    BY WhenAllAssumption DEF Init
  <2> QED
    BY <2>1 DEF Init, TypeOK
<1>2. {t \in Tasks : tst[t] \notin {"notify", "done"}} = Tasks
  BY DEF Init
<1> QED
  BY <1>1, <1>2, TasksFinite DEF Init, CounterExact

\* A step that leaves the counter, and what each task has still to do, alone.
LEMMA KeepsCount ==
    ASSUME CounterExact, TypeOK', cnt' = cnt,
           \A t \in Tasks : tst[t] \in {"notify", "done"} <=> tst'[t] \in {"notify", "done"}
    PROVE  CounterExact'
<1>1. {t \in Tasks : tst'[t] \notin {"notify", "done"}}
      = {t \in Tasks : tst[t] \notin {"notify", "done"}}
  OBVIOUS
<1> QED
  BY <1>1 DEF CounterExact

\* fetch_sub: the task that calls it leaves the set.  It was in it, so the
\* counter was not zero; if it was one, nobody is left.
LEMMA NotifyCounts ==
    ASSUME CounterExact, NEW t \in Tasks, Notify(t), threading' = threading
    PROVE  /\ CounterExact' /\ cnt > 0
           /\ cnt = 1 => \A u \in Tasks \ {t} : tst[u] \in {"notify", "done"}
<1> DEFINE S == {u \in Tasks : tst[u] \notin {"notify", "done"}}
<1>1. t \in S /\ S \in SUBSET Tasks /\ IsFiniteSet(S)
  BY TasksFinite DEF Notify
<1>2. Cardinality(S \ {t}) = cnt - 1 /\ Cardinality(S) = cnt
  BY <1>1, FS_RemoveElement DEF CounterExact
<1>3. {u \in Tasks : tst'[u] \notin {"notify", "done"}} = S \ {t}
  BY DEF Notify, CounterExact, TypeOK
<1>4. cnt > 0
  <2>1. cnt \in Nat /\ Cardinality(S \ {t}) \in Nat
    BY <1>1, TasksFinite DEF CounterExact, TypeOK
  <2> HIDE DEF S
  <2> QED
    BY <1>2, <2>1
<1>5. TypeOK'
  <2>1. cnt' \in 0 .. N /\ cur' \in 1 .. N + 1
    BY <1>4, WhenAllAssumption DEF Notify, CounterExact, TypeOK, StartReturns, InStart, Tasks
  <2> QED
    BY <2>1 DEF Notify, CounterExact, TypeOK, StartReturns, InStart
<1>6. cnt = 1 => S \ {t} = {}
  <2>1. IsFiniteSet(S \ {t})
    BY <1>1, FS_RemoveElement
  <2> HIDE DEF S
  <2> QED
    BY <1>2, <2>1, FS_EmptySet
<1> QED
  BY <1>2, <1>3, <1>4, <1>5, <1>6 DEF CounterExact, Notify
-----------------------------------------------------------------------------
(* The inductive step, one action at a time. *)

\* Before anything is started.
LEMMA WInvInit == Init => WInv
<1> SUFFICES ASSUME Init PROVE WInv
  OBVIOUS
<1>1. CounterExact
  BY CounterInit
<1>2. Loop /\ Gate
  BY DEF Init, Loop, Gate, Tasks, InStart
<1>3. OneThread
  BY DEF Init, OneThread, Ending
<1> QED
  BY <1>1, <1>2, <1>3 DEF WInv

\* The loop that starts the tasks (when_all.hpp:47-50, 78-81).
LEMMA StartKeeps ==
    ASSUME WInv, threading' = threading, Start \/ AllStarted
    PROVE  WInv'
<1> USE DEF WInv
<1>1. cur \in Int /\ N \in Nat /\ cur \in 1 .. N + 1
  BY WhenAllAssumption DEF CounterExact, TypeOK
<1>2. CASE Start
  <2>1. tst[cur] = "lazy" /\ cur \in Tasks
    BY <1>1, <1>2 DEF Start, Loop
  <2>2. TypeOK'
    BY <1>2 DEF Start, CounterExact, TypeOK
  <2>3. CounterExact'
    BY <1>2, <2>1, <2>2, KeepsCount DEF Start, CounterExact, TypeOK
  <2>4. Loop'
    BY <1>1, <1>2, <2>1 DEF Start, Loop, InStart, Tasks, CounterExact, TypeOK
  <2>5. Gate'
    BY <1>2, <2>1 DEF Start, Gate, CounterExact, TypeOK
  <2>6. OneThread'
    BY <1>2, <2>1 DEF Start, OneThread, Ending, InStart, CounterExact, TypeOK
  <2> QED
    BY <2>3, <2>4, <2>5, <2>6
<1>3. CASE AllStarted
  <2>1. TypeOK'
    BY <1>3 DEF AllStarted, CounterExact, TypeOK
  <2>2. CounterExact'
    BY <1>3, <2>1, KeepsCount DEF AllStarted
  <2>3. Loop'
    BY <1>1, <1>3 DEF AllStarted, Loop, InStart, Tasks
  <2>4. Gate' /\ OneThread'
    BY <1>3 DEF AllStarted, Gate, OneThread, Ending, InStart
  <2> QED
    BY <2>2, <2>3, <2>4
<1> QED
  BY <1>2, <1>3

\* co_await counter and what follows it.  On one thread nobody is in a callback
\* between await_ready and await_suspend.
LEMMA AwaitKeeps ==
    ASSUME WInv, threading' = threading, AwaitReady \/ AwaitSuspend \/ Collect
    PROVE  WInv'
<1> USE DEF WInv
<1>1. TypeOK'
  BY DEF AwaitReady, AwaitSuspend, Collect, CounterExact, TypeOK
<1>2. CounterExact'
  BY <1>1, KeepsCount DEF AwaitReady, AwaitSuspend, Collect
<1>3. Loop'
  BY DEF AwaitReady, AwaitSuspend, Collect, Loop, InStart
<1>4. Gate'
  BY DEF AwaitReady, AwaitSuspend, Collect, Gate
<1>5. OneThread'
  BY DEF AwaitReady, AwaitSuspend, Collect, OneThread, Ending, InStart
<1> QED
  BY <1>2, <1>3, <1>4, <1>5

\* A task runs until it suspends or stores its result.
LEMMA TaskKeeps ==
    ASSUME WInv, threading' = threading, NEW t \in Tasks,
           TaskSuspends(t) \/ \E r \in {"value", "exception"} : TaskEnds(t, r)
    PROVE  WInv'
<1> USE DEF WInv
<1>1. cur \in Int /\ N \in Nat /\ cur \in 1 .. N + 1
  BY WhenAllAssumption DEF CounterExact, TypeOK
<1>2. CASE TaskSuspends(t)
  <2>1. pc = "in_start" /\ cur = t /\ cur' = t + 1 /\ pc' = "start"
    BY <1>2 DEF TaskSuspends, InStart, StartReturns
  <2>2. TypeOK'
    <3>1. cur' \in 1 .. N + 1
      BY <1>1, <2>1 DEF Tasks
    <3> QED
      BY <1>2, <2>1, <3>1 DEF TaskSuspends, CounterExact, TypeOK
  <2>3. CounterExact'
    BY <1>2, <2>2, KeepsCount DEF TaskSuspends, CounterExact, TypeOK
  <2>4. Loop'
    BY <1>1, <1>2, <2>1 DEF TaskSuspends, Loop, InStart, Tasks, CounterExact, TypeOK
  <2>5. Gate'
    BY <1>2, <2>1 DEF TaskSuspends, Gate, CounterExact, TypeOK
  <2>6. OneThread'
    BY <1>2, <2>1 DEF TaskSuspends, Runs, OneThread, Ending, InStart, CounterExact, TypeOK
  <2> QED
    BY <2>3, <2>4, <2>5, <2>6
<1>3. ASSUME NEW r \in {"value", "exception"}, TaskEnds(t, r)
      PROVE  WInv'
  <2>1. TypeOK'
    BY <1>3 DEF TaskEnds, CounterExact, TypeOK
  <2>2. CounterExact'
    BY <1>3, <2>1, KeepsCount DEF TaskEnds, CounterExact, TypeOK
  <2>3. Loop'
    BY <1>1, <1>3 DEF TaskEnds, Loop, InStart, Tasks, CounterExact, TypeOK
  <2>4. Gate'
    BY <1>3 DEF TaskEnds, Gate, CounterExact, TypeOK
  <2>5. OneThread'
    <3>1. Ending' = Ending \cup {t}
      BY <1>3 DEF TaskEnds, Ending, CounterExact, TypeOK
    <3>2. threading = "one" => Ending = {}
      BY <1>3 DEF TaskEnds, Runs
    <3> QED
      BY <1>3, <3>1, <3>2 DEF TaskEnds, OneThread, ThreadFree, Loop, InStart
  <2> QED
    BY <2>2, <2>3, <2>4, <2>5
<1> QED
  BY <1>2, <1>3

\* The callback: fetch_sub, and the resumption of W by the last one
\* (await_counter.hpp:34-38).
LEMMA CallbackKeeps ==
    ASSUME WInv, threading' = threading, NEW t \in Tasks, Notify(t) \/ ResumeAwaiter(t)
    PROVE  WInv'
<1> USE DEF WInv
<1>1. cur \in Int /\ N \in Nat /\ cur \in 1 .. N + 1
  BY WhenAllAssumption DEF CounterExact, TypeOK
<1>2. CASE Notify(t)
  <2>1. CounterExact' /\ cnt > 0
    BY <1>2, NotifyCounts
  <2> cnt \in Int
    BY DEF CounterExact, TypeOK
  <2>2. \A u \in Tasks : tst[u] # "notify"
    BY <2>1 DEF Gate
  <2>3. Loop'
    BY <1>1, <1>2 DEF Notify, Loop, InStart, StartReturns, Tasks, CounterExact, TypeOK
  <2>4. Gate'
    <3>1. pc \notin {"collect", "done"} /\ pc' \in {pc, "start"}
          /\ (pc' # pc => pc = "in_start")
      BY <1>2, <2>1 DEF Notify, Gate, StartReturns, InStart
    <3>2. \A u \in Tasks : tst'[u] = "notify" => cnt' = 0
      BY <1>2, <2>2 DEF Notify, CounterExact, TypeOK
    <3>3. \A u \in Tasks : tst'[u] \in {"lazy", "running", "pending"}
                             <=> tst[u] \in {"lazy", "running", "pending"}
      BY <1>2 DEF Notify, CounterExact, TypeOK
    <3> QED
      BY <1>2, <3>1, <3>2, <3>3 DEF Notify, Gate
  <2>5. OneThread'
    <3>1. CASE cnt = 1
      <4>1. Ending' = Ending /\ pc' = pc /\ cur' = cur /\ t \in Ending
        BY <1>2, <3>1 DEF Notify, Ending, CounterExact, TypeOK
      <4> QED
        BY <1>2, <3>1, <4>1 DEF Notify, OneThread, InStart
    <3>2. CASE cnt # 1
      <4>1. Ending' = Ending \ {t} /\ t \in Ending /\ cnt' # 0
        BY <1>2, <2>1, <3>2 DEF Notify, Ending, CounterExact, TypeOK
      <4> QED
        BY <1>2, <3>2, <4>1 DEF Notify, OneThread, StartReturns, InStart
    <3> QED
      BY <3>1, <3>2
  <2> QED
    BY <2>1, <2>3, <2>4, <2>5
<1>3. CASE ResumeAwaiter(t)
  <2>1. TypeOK'
    <3>1. cur' \in 1 .. N + 1
      BY <1>1, <1>3 DEF ResumeAwaiter, StartReturns, InStart, Tasks
    <3> QED
      BY <1>3, <3>1 DEF ResumeAwaiter, StartReturns, CounterExact, TypeOK
  <2>2. CounterExact'
    BY <1>3, <2>1, KeepsCount DEF ResumeAwaiter, CounterExact, TypeOK
  <2>3. Loop'
    BY <1>1, <1>3 DEF ResumeAwaiter, Loop, Gate, InStart, StartReturns, Tasks, CounterExact, TypeOK
  <2>4. Gate'
    BY <1>3 DEF ResumeAwaiter, Gate, StartReturns, InStart, CounterExact, TypeOK
  <2>5. OneThread'
    <3>1. Ending' = Ending \ {t} /\ t \in Ending
      BY <1>3 DEF ResumeAwaiter, Ending, CounterExact, TypeOK
    <3> QED
      BY <1>3, <3>1 DEF ResumeAwaiter, OneThread, Gate, StartReturns, InStart
  <2> QED
    BY <2>2, <2>3, <2>4, <2>5
<1> QED
  BY <1>2, <1>3

\* The inductive invariant holds in every reachable state.
LEMMA WInvariant == Spec => []WInv
<1>1. ASSUME WInv, [Next]_vars PROVE WInv'
  <2>1. CASE UNCHANGED vars
    BY <1>1, <2>1 DEF vars, WInv, CounterExact, TypeOK, Loop, Gate, OneThread, Ending, InStart
  <2>2. CASE Step /\ UNCHANGED threading
    BY <1>1, <2>2, StartKeeps, AwaitKeeps, TaskKeeps, CallbackKeeps DEF Step
  <2>3. CASE Over /\ UNCHANGED threading
    BY <1>1, <2>3 DEF Over, WInv, CounterExact, TypeOK, Loop, Gate, OneThread, Ending, InStart
  <2> QED
    BY <1>1, <2>1, <2>2, <2>3 DEF Next
<1> QED
  BY <1>1, WInvInit, PTL DEF Spec

-----------------------------------------------------------------------------
(* The theorems. *)

\* When the counter is zero every task has notified.
LEMMA ZeroMeansAll ==
    ASSUME CounterExact, cnt = 0
    PROVE  \A t \in Tasks : tst[t] \in {"notify", "done"}
<1> DEFINE S == {t \in Tasks : tst[t] \notin {"notify", "done"}}
<1>1. IsFiniteSet(S) /\ Cardinality(S) = 0
  BY TasksFinite DEF CounterExact
<1>2. S = {}
  <2> HIDE DEF S
  <2> QED
    BY <1>1, FS_EmptySet
<1> QED
  BY <1>2

\* For any number of tasks and any threads: each callback runs once, the counter
\* never wraps below zero, and only the last notifier sees 1
\* (await_counter.hpp:34-38, task_with_callback.hpp:21-29).
THEOREM CounterIsExact == Spec => []CounterExact
  BY WInvariant, PTL DEF WInv

\* However W is let through, at await_ready or by a callback, every task has
\* stored its result when get() is called (when_all.hpp:52-53, 83, 102-107).
THEOREM AllAreCollected == Spec => []CollectsAll
<1>1. WInv => CollectsAll
  BY ZeroMeansAll DEF WInv, CollectsAll, Gate
<1> QED
  BY <1>1, WInvariant, PTL

\* With one thread a suspended W always has a task that will notify it, although
\* await_ready and await_suspend are two steps (await_counter.hpp:17-25).
THEOREM NoWakeupLostOnOneThread == Spec => []WokenOnOneThread
<1>1. WInv => WokenOnOneThread
  <2> SUFFICES ASSUME WInv, threading = "one", pc = "parked"
               PROVE  \E t \in Tasks : tst[t] \in {"pending", "final", "notify"}
    BY DEF WokenOnOneThread, NoLostWakeup
  <2>1. CASE Ending # {}
    BY <2>1 DEF Ending
  <2>2. CASE cnt # 0
    <3>1. PICK t \in Tasks : tst[t] \notin {"notify", "done"}
      <4> SUFFICES ASSUME {t \in Tasks : tst[t] \notin {"notify", "done"}} = {}
                   PROVE  FALSE
        OBVIOUS
      <4> QED
        BY <2>2, FS_EmptySet DEF WInv, CounterExact
    <3> QED
      BY <3>1 DEF WInv, Loop, InStart, CounterExact, TypeOK
  <2> QED
    BY <2>1, <2>2 DEF WInv, OneThread
<1> QED
  BY <1>1, WInvariant, PTL

\* With one thread the counter, a local of W, is destroyed only when every
\* callback has returned: the resumption is the last thing a callback does
\* (await_counter.hpp:34-38).
THEOREM CounterIsAliveWhenUsed == Spec => []CounterOutlivesCalls
<1>1. WInv => CounterOutlivesCalls
  BY ZeroMeansAll DEF WInv, CounterOutlivesCalls, Gate, OneThread, Ending, InStart
<1> QED
  BY <1>1, WInvariant, PTL
=============================================================================
