------------------------------ MODULE SyncWait ------------------------------
(***************************************************************************)
(* include/sync_wait.hpp on top of Future: a thread starts a coroutine and *)
(* blocks until it has ended.  Coroutine 0 of the chain is the coroutine   *)
(* of make_sync_wait, a task_with_callback whose body is one co_await: of  *)
(* the future of coroutine 1, or, in a chain of depth 0, of something that *)
(* is no future.  The rest of the chain is resumed by other threads, never *)
(* by the blocked one.                                                     *)
(***************************************************************************)
EXTENDS Future

VARIABLES
    wpc,      \* control of the calling thread
    flag,
    cb,       \* control of the callback notice_fin
    result,   \* m_pointer or m_exception of the task
    read,     \* what the caller gets
    home      \* where the value lives that m_pointer of the task points to: the
              \* promise of a future the caller owns, or the task's own frame

caller == <<wpc, flag, cb, read>>
swvars == <<vars, caller, result, home>>

\* the thread is inside task.start()
SyncInit ==
    /\ Init
    /\ wpc = "start" /\ flag = FALSE /\ cb = "set" /\ result = "none" /\ read = "none"
    /\ home \in {"promise", "frame"}

\* a step of the chain.  The task awaits the future it was given and nothing
\* else, and that future belongs to the caller of sync_wait; start() returns when
\* the task first suspends.
ChainStep ==
    /\ \E k \in Coroutines : Step(k)
    /\ Depth > 0 => st'[0] # "op" /\ st'[1] # "dead"
    /\ wpc' = IF wpc = "start" /\ st'[0] \in {"parked", "op"} THEN "wait" ELSE wpc
    /\ UNCHANGED <<flag, cb, result, read, home>>

\* mutant: unhandled_exception keeps nothing, and a value is expected
TaskEndsWithValue(r) ==
    /\ FinishRoot
    /\ Depth > 0 => r = got[0]
    /\ result' = "value"
    /\ UNCHANGED <<caller, home>>

\* co_yield of what co_await gave, or unhandled_exception of what it threw
TaskEnds(r) ==
    /\ FinishRoot
    /\ Depth > 0 => r = got[0]
    /\ result' = r
    /\ UNCHANGED <<caller, home>>

\* mutant: a compare-exchange that expects the flag to be set
NoticeExchangeFails ==
    /\ st[0] = "final" /\ cb = "set"
    /\ UNCHANGED swvars

\* notice_fin, called by final_awaiter: the exchange ...
NoticeExchange ==
    /\ st[0] = "final" /\ cb = "set"
    /\ flag' = TRUE /\ cb' = IF flag THEN "done" ELSE "notify"
    /\ UNCHANGED <<vars, wpc, result, read, home>>

\* ... and atomic_notify_all; a task that never suspended returns from start()
NoticeNotify ==
    /\ cb = "notify"
    /\ cb' = "done"
    /\ wpc' = CASE wpc = "start" -> "wait" [] wpc = "asleep" -> "wait" [] OTHER -> wpc
    /\ UNCHANGED <<vars, flag, result, read, home>>

\* mutant: sleeps without comparing
WaitFlagBlind ==
    /\ wpc = "wait"
    /\ wpc' = "asleep"
    /\ UNCHANGED <<vars, flag, cb, result, read, home>>

\* atomic_wait compares and sleeps, or returns
WaitFlag ==
    /\ wpc = "wait"
    /\ wpc' = IF flag THEN "get" ELSE "asleep"
    /\ UNCHANGED <<vars, flag, cb, result, read, home>>

\* a sleep of atomic_wait is over, as those of its back-off soon are, or ends for
\* no reason; it looks at the flag again
SleepEnds ==
    /\ wpc = "asleep"
    /\ wpc' = "wait"
    /\ UNCHANGED <<vars, flag, cb, result, read, home>>

\* task.get() rethrows, or gives a reference to the value; the task and its
\* frame are destroyed on return, and the caller uses the reference after that
Get ==
    /\ wpc = "get"
    /\ read' \in IF home = "frame" /\ result = "value" THEN {"value", "garbage"} ELSE {result}
    /\ wpc' = "returned"
    /\ UNCHANGED <<vars, flag, cb, result, home>>

SyncDone == wpc = "returned" /\ UNCHANGED swvars

SyncNext ==
    \/ ChainStep \/ \E r \in Outcomes : TaskEnds(r)
    \/ NoticeExchange \/ NoticeNotify \/ WaitFlag \/ SleepEnds \/ Get \/ SyncDone

SyncSpec == SyncInit /\ [][SyncNext]_swvars

(* Fairness: the task gets to its co_await and on from it, a thread inside    *)
(* await_suspend goes on, an operation completes, a body that keeps running  *)
(* ends at last, and the caller and the notifier are running.                *)
SyncFairness ==
    /\ \A k \in Coroutines : /\ WF_swvars(Handshake(k) /\ ChainStep)
                             /\ WF_swvars(OpDone(k) /\ ChainStep)
    /\ \A k \in Futures : SF_swvars((\E r \in Outcomes : Finish(k, r)) /\ ChainStep)
    /\ WF_swvars((Await(0) /\ ChainStep) \/ \E r \in Outcomes : TaskEnds(r))
    /\ WF_swvars(NoticeExchange \/ NoticeNotify)
    /\ WF_swvars(WaitFlag \/ Get)

SyncFairSpec == SyncSpec /\ SyncFairness

-----------------------------------------------------------------------------
(* Properties. *)

\* The caller returns after the awaited coroutine and the task have ended,
\* whichever threads ended them, and gets the outcome of that coroutine, its value
\* or its exception; a value in the task's own frame is the exception, as it is
\* gone with the task (sync_wait.hpp:24, 40-47, task_with_callback.hpp:53-60;
\* "warning : cause dangling reference", future_test.cpp:65).
ReturnsOutcome ==
    wpc = "returned" => /\ st[0] = "final" /\ result # "none"
                        /\ Depth > 0 => result = m_result[1]
                        /\ home = "promise" \/ result = "exception" => read = result

\* A caller asleep in atomic_wait has a task that will still notify: neither the
\* first suspension nor the exchange before the wait loses it (sync_wait.hpp:41-46).
SleeperNotified == wpc = "asleep" => cb # "done"

\* sync_wait returns when the awaited coroutine ends.
SyncWaitReturns == <>(wpc = "returned")
=============================================================================
