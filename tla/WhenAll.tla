------------------------------ MODULE WhenAll ------------------------------
(***************************************************************************)
(* include/when_all.hpp with include/details/await_counter.hpp and         *)
(* include/details/task_with_callback.hpp: one coroutine W starts N tasks, *)
(* each with a callback that calls notify_complete_one(), and awaits the   *)
(* counter.  A task may end inside start() or suspend and be resumed later.*)
(*                                                                         *)
(* `threading` says who resumes the suspended tasks: the thread of W, when *)
(* W is suspended or from inside a task that W is starting (all tasks on   *)
(* one io_context), or any thread (tasks that moved to other contexts with *)
(* schedule()).                                                            *)
(***************************************************************************)
EXTENDS Integers, FiniteSets

CONSTANTS
    N,          \* number of awaitables
    VoidTasks,  \* the tasks without a value, whose get() is never called
    Threadings  \* "one" thread, "many" threads, or both

Tasks == 1 .. N

ASSUME WhenAllAssumption == N \in Nat /\ VoidTasks \subseteq Tasks
                            /\ Threadings \subseteq {"one", "many"}

VARIABLES
    pc,            \* control of W
    cur,           \* the task W starts next, or is starting
    tst,           \* where each task is
    result,        \* m_pointer / m_exception of each task's promise
    cnt,           \* the counter
    continuation,  \* TRUE once the counter knows W
    outcome,       \* how when_all ended
    threading      \* never changes

vars == <<pc, cur, tst, result, cnt, continuation, outcome, threading>>

Init ==
    /\ pc = "start" /\ cur = 1
    /\ tst = [t \in Tasks |-> "lazy"]
    /\ result = [t \in Tasks |-> "none"]
    /\ cnt = N /\ continuation = FALSE /\ outcome = "none"
    /\ threading \in Threadings

\* task.start(): the task runs inside the call
Start ==
    /\ pc = "start" /\ cur \in Tasks
    /\ pc' = "in_start" /\ tst' = [tst EXCEPT ![cur] = "running"]
    /\ UNCHANGED <<cur, result, cnt, continuation, outcome>>

AllStarted ==
    /\ pc = "start" /\ cur \notin Tasks
    /\ pc' = "ready"
    /\ UNCHANGED <<cur, tst, result, cnt, continuation, outcome>>

\* start() returns when its task suspends, or has run to its end in the call
InStart(t) == pc = "in_start" /\ cur = t

StartReturns(t) ==
    IF InStart(t) THEN pc' = "start" /\ cur' = cur + 1 ELSE UNCHANGED <<pc, cur>>

\* a task stands in its callback, and with one thread nothing else runs
Ending == {t \in Tasks : tst[t] \in {"final", "notify"}}

Runs == threading = "one" => Ending = {}

TaskSuspends(t) ==
    /\ InStart(t) /\ tst[t] = "running" /\ Runs
    /\ tst' = [tst EXCEPT ![t] = "pending"]
    /\ StartReturns(t)
    /\ UNCHANGED <<result, cnt, continuation, outcome>>

\* the thread of W resumes a suspended task when W is suspended, or when a task
\* does it that W is starting (future_test.cpp:192-204)
ThreadFree == pc = "parked" \/ \E t \in Tasks : tst[t] = "running"

\* co_yield of the value, or unhandled_exception
TaskEnds(t, r) ==
    /\ Runs
    /\ \/ tst[t] = "running"
       \/ tst[t] = "pending" /\ (threading = "one" => ThreadFree)
    /\ result' = [result EXCEPT ![t] = r]
    /\ tst' = [tst EXCEPT ![t] = "final"]
    /\ UNCHANGED <<pc, cur, cnt, continuation, outcome>>

\* mutant: the callback stays in the promise and may be called again
NotifyAgain(t) ==
    /\ tst[t] = "final"
    /\ cnt' = cnt - 1
    /\ IF cnt = 1 THEN tst' = [tst EXCEPT ![t] = "notify"] ELSE UNCHANGED tst
    /\ UNCHANGED <<pc, cur, result, continuation, outcome>>

\* final_awaiter moves the callback out and calls it: fetch_sub of the counter
Notify(t) ==
    /\ tst[t] = "final"
    /\ cnt' = cnt - 1
    /\ IF cnt = 1
       THEN tst' = [tst EXCEPT ![t] = "notify"] /\ UNCHANGED <<pc, cur>>
       ELSE tst' = [tst EXCEPT ![t] = "done"] /\ StartReturns(t)
    /\ UNCHANGED <<result, continuation, outcome>>

\* if (continuation) continuation.resume()
ResumeAwaiter(t) ==
    /\ tst[t] = "notify"
    /\ tst' = [tst EXCEPT ![t] = "done"]
    /\ IF continuation THEN pc' = "collect" /\ UNCHANGED cur ELSE StartReturns(t)
    /\ UNCHANGED <<result, cnt, continuation, outcome>>

\* mutant: off by one
AwaitReadyEarly ==
    /\ pc = "ready"
    /\ pc' = IF cnt <= 1 THEN "collect" ELSE "suspend"
    /\ UNCHANGED <<cur, tst, result, cnt, continuation, outcome>>

\* mutant: W polls the counter instead of suspending
AwaitReadyPolls ==
    /\ pc = "ready"
    /\ pc' = IF cnt = 0 THEN "collect" ELSE "ready"
    /\ UNCHANGED <<cur, tst, result, cnt, continuation, outcome>>

\* co_await counter: await_ready, then await_suspend
AwaitReady ==
    /\ pc = "ready"
    /\ pc' = IF cnt = 0 THEN "collect" ELSE "suspend"
    /\ UNCHANGED <<cur, tst, result, cnt, continuation, outcome>>

\* mutant: await_suspend keeps no continuation
AwaitSuspendForgets ==
    /\ pc = "suspend"
    /\ pc' = "parked"
    /\ UNCHANGED <<cur, tst, result, cnt, continuation, outcome>>

AwaitSuspend ==
    /\ pc = "suspend"
    /\ continuation' = TRUE /\ pc' = "parked"
    /\ UNCHANGED <<cur, tst, result, cnt, outcome>>

\* get() of every task that has a value, then the locals of W are destroyed:
\* the counter and the task frames
Collect ==
    /\ pc = "collect"
    /\ outcome' = IF \E t \in Tasks \ VoidTasks : result[t] = "exception"
                  THEN "exception" ELSE "value"
    /\ pc' = "done"
    /\ UNCHANGED <<cur, tst, result, cnt, continuation>>

Step ==
    \/ Start \/ AllStarted \/ AwaitReady \/ AwaitSuspend \/ Collect
    \/ \E t \in Tasks :
           \/ TaskSuspends(t) \/ Notify(t) \/ ResumeAwaiter(t)
           \/ \E r \in {"value", "exception"} : TaskEnds(t, r)

\* W has returned, or nobody is left to resume it
Over ==
    /\ pc = "done" \/ (pc = "parked" /\ \A t \in Tasks : tst[t] = "done")
    /\ UNCHANGED <<pc, cur, tst, result, cnt, continuation, outcome>>

Next == (Step \/ Over) /\ UNCHANGED threading

Spec == Init /\ [][Next]_vars

\* every thread goes on, and what a task waits for happens
Fairness == WF_vars(Next)

FairSpec == Spec /\ Fairness

-----------------------------------------------------------------------------
(* Properties. *)

TypeOK ==
    /\ pc \in {"start", "in_start", "ready", "suspend", "parked", "collect", "done"}
    /\ cur \in 1 .. N + 1
    /\ tst \in [Tasks -> {"lazy", "running", "pending", "final", "notify", "done"}]
    /\ result \in [Tasks -> {"none", "value", "exception"}]
    /\ cnt \in 0 .. N
    /\ continuation \in BOOLEAN
    /\ outcome \in {"none", "value", "exception"}
    /\ threading \in Threadings

\* The counter is the number of tasks that have still to notify: the callback
\* of each task runs once, so the 64-bit counter never wraps below zero, and
\* only the last notifier sees 1 (await_counter.hpp:34-38,
\* task_with_callback.hpp:21-29).
CounterExact ==
    TypeOK /\ cnt = Cardinality({t \in Tasks : tst[t] \notin {"notify", "done"}})

\* W collects only when every task has stored its result, on whichever path it
\* was let through (when_all.hpp:52-53, 83, 102-107).
CollectsAll == pc \in {"collect", "done"} => \A t \in Tasks : result[t] # "none"

\* While W is suspended some task will still notify it: after the last
\* notify_complete_one() the awaiting coroutine has gone on
\* (future_test.cpp:201 "counter.notify_complete_one(); EXPECT_TRUE(after);").
NoLostWakeup ==
    pc = "parked" => \E t \in Tasks : tst[t] \in {"pending", "final", "notify"}

\* On one thread the wake-up is not lost: no task runs between await_ready and
\* await_suspend (await_counter.hpp:17-25).
WokenOnOneThread == threading = "one" => NoLostWakeup

\* On one thread nobody is inside notify_complete_one() when W's locals, the
\* counter among them, are destroyed: the resumption is its last access
\* (await_counter.hpp:34-38).
CounterOutlivesCalls ==
    threading = "one" /\ pc = "done" => \A t \in Tasks : tst[t] = "done"

\* On one thread when_all returns once its tasks have ended.
WhenAllReturns == threading = "one" => <>(pc = "done")
=============================================================================
