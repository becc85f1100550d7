----------------------------- MODULE IoContext -----------------------------
(***************************************************************************)
(* The event loop of include/io_context.hpp: one io_context bound to one   *)
(* thread, the threads that hand it work, and the io_uring it drives.      *)
(*                                                                         *)
(* Who takes steps:                                                        *)
(*  - the loop thread.  `pc` is where it is in loop()/run_once(); `stack`  *)
(*    is the user code it is inside of, innermost last.  A coroutine or a  *)
(*    task on the stack may call the context (post, dispatch, co_spawn,    *)
(*    request_stop), await an I/O operation, or end.  With pc = "main" the *)
(*    thread is bound but outside run(), as every test starts.             *)
(*  - the threads of Remotes, which call post, co_spawn and request_stop.  *)
(*  - the kernel, which completes submitted operations in any order.       *)
(*                                                                         *)
(* Work items are names.  A coroutine or task that ends becomes fresh      *)
(* again, and the name stands for the next one created, so that finitely   *)
(* many states hold endless traffic.                                       *)
(***************************************************************************)
EXTENDS Integers, Sequences, FiniteSets, Functions

CONSTANTS
    LocalCoros,     \* coroutines given to co_spawn on the loop thread
    RemoteCoros,    \* coroutines given to co_spawn on other threads
    LocalTasks,     \* callables given to post/dispatch on the loop thread
    RemoteTasks,    \* callables given to post/dispatch on other threads
    ThrowingTasks,  \* the tasks that may end with an exception
    Remotes,        \* the other threads
    Modes,          \* the entry points used: run(), run(token), poll()
    RingSize,       \* entries of the submission ring (ctx_opt::ring_size)
    MaxTimers       \* bound of the model: 1ms timeouts in flight at once

Coros == LocalCoros \cup RemoteCoros
Tasks == LocalTasks \cup RemoteTasks
Items == Coros \cup Tasks

Null == "nullptr"         \* user data of a timeout; no argument
Garbage == "garbage"      \* a deque cell no std::function was built in
Unlocked == "unlocked"    \* m_mutex has no owner

ASSUME ItemsAssumption ==
    /\ Coros \cap Tasks = {}
    /\ Null \notin Items /\ Garbage \notin Items
    /\ ThrowingTasks \subseteq Tasks
    /\ IsFiniteSet(Coros)
ASSUME RemotesAssumption == Unlocked \notin Remotes
ASSUME ModesAssumption == Modes \subseteq {"run", "run_token", "poll"}
ASSUME RingAssumption == RingSize \in Nat \ {0} /\ MaxTimers \in Nat \ {0}

VARIABLES
    pc,              \* control of the loop thread
    mode,            \* the entry point the loop was entered through
    m_is_stopped,
    token,           \* stop_requested() of the stop_token given to run()
    m_mutex,         \* the remote thread in a critical section, or Unlocked
    m_remote_spawn,
    m_remote_tasks,
    m_local_tasks,
    tasks,           \* the batch a resolve_ function swapped out and iterates
    stack,           \* user code running on the loop thread, innermost last
    sq,              \* entries filled but not submitted, by their coroutine
    inflight,        \* coroutines whose operation the kernel has
    timers,          \* 1ms timeouts the kernel has
    cq,              \* completions not yet seen, Null for a timeout
    rpc, arg,        \* control and argument of each remote thread
    torn,            \* a remote thread's emplace_back overlapped an access
    fresh,           \* items not handed to the context
    abort            \* how the process ended abnormally, "no" if it did not

ring == <<sq, inflight, timers, cq>>
remote == <<m_mutex, rpc, arg, torn>>
queues == <<m_remote_spawn, m_remote_tasks, m_local_tasks>>
stops == <<m_is_stopped, token>>
vars == <<pc, mode, tasks, stack, fresh, abort, ring, remote, queues, stops>>

Init ==
    /\ pc = "main" /\ mode \in Modes
    /\ m_is_stopped = FALSE /\ token = FALSE
    /\ m_mutex = Unlocked
    /\ m_remote_spawn = <<>> /\ m_remote_tasks = <<>> /\ m_local_tasks = <<>>
    /\ tasks = <<>> /\ stack = <<>>
    /\ sq = <<>> /\ inflight = {} /\ timers = 0 /\ cq = <<>>
    /\ rpc = [r \in Remotes |-> "idle"]
    /\ arg = [r \in Remotes |-> Null]
    /\ torn = [r \in Remotes |-> FALSE]
    /\ fresh = Items
    /\ abort = "no"

-----------------------------------------------------------------------------
(* User code on the loop thread: main() outside run(), or the top of stack. *)

InUserCode == stack # <<>> \/ pc = "main"

Top == stack[Len(stack)]

Push(x) == Append(stack, x)

Pop == SubSeq(stack, 1, Len(stack) - 1)

\* post() on the bound thread
Post(t) ==
    /\ InUserCode /\ t \in LocalTasks \cap fresh
    /\ fresh' = fresh \ {t}
    /\ m_local_tasks' = Append(m_local_tasks, t)
    /\ UNCHANGED <<pc, mode, tasks, stack, abort, ring, remote,
                   m_remote_spawn, m_remote_tasks, stops>>

\* dispatch() and co_spawn() on the bound thread: the callable or coroutine
\* runs at once, nested in the caller
RunNow(x) ==
    /\ InUserCode /\ x \in (LocalTasks \cup LocalCoros) \cap fresh
    /\ fresh' = fresh \ {x}
    /\ stack' = Push(x)
    /\ UNCHANGED <<pc, mode, tasks, abort, ring, remote, queues, stops>>

\* request_stop(), from any thread
RequestStop ==
    /\ ~m_is_stopped
    /\ m_is_stopped' = TRUE
    /\ UNCHANGED <<pc, mode, tasks, stack, fresh, abort, ring, remote,
                   queues, token>>

\* request_stop() of the std::stop_source behind run(token)
RequestTokenStop ==
    /\ "run_token" \in Modes /\ ~token
    /\ token' = TRUE
    /\ UNCHANGED <<pc, mode, tasks, stack, fresh, abort, ring, remote,
                   queues, m_is_stopped>>

\* mutant: one entry short
SqFullOffByOne == Len(sq) + 1 >= RingSize

SqFull == Len(sq) >= RingSize

\* io_awaiter::await_suspend: the coroutine leaves the thread once its entry
\* is filled; io_uring_get_sqe returns NULL on a full ring and assert(sqe) ends
\* the process
AwaitIo(c) ==
    /\ stack # <<>> /\ c = Top /\ c \in Coros
    /\ IF SqFull
       THEN abort' = "assert(sqe)" /\ UNCHANGED <<sq, stack>>
       ELSE sq' = Append(sq, c) /\ stack' = Pop /\ UNCHANGED abort
    /\ UNCHANGED <<pc, mode, tasks, fresh, inflight, timers, cq, remote,
                   queues, stops>>

\* the innermost user code ends.  An exception leaves a coroutine through
\* unhandled_exception(), which swallows it, and a nested task into the code
\* that dispatched it: either way only the top of the stack is gone.
Return(x) ==
    /\ stack # <<>> /\ x = Top
    /\ stack' = Pop
    /\ fresh' = fresh \cup {x}
    /\ UNCHANGED <<pc, mode, tasks, abort, ring, remote, queues, stops>>

-----------------------------------------------------------------------------
(* The loop thread: loop(), run_once() and the submit step. *)

\* run(), run(token) or poll(): a stop requested before is forgotten
Start(m) ==
    /\ pc = "main" /\ stack = <<>>
    /\ mode' = m /\ m_is_stopped' = FALSE /\ pc' = "check"
    /\ UNCHANGED <<tasks, stack, fresh, abort, ring, remote, queues, token>>

\* the while condition of loop()
StopRequested == m_is_stopped \/ (mode = "run_token" /\ token)

\* mutant: loop(f, token) does not look at the token
CheckIgnoresToken ==
    /\ pc = "check"
    /\ pc' = IF m_is_stopped THEN "main" ELSE "cqe"
    /\ UNCHANGED <<mode, tasks, stack, fresh, abort, ring, remote, queues, stops>>

Check ==
    /\ pc = "check"
    /\ pc' = IF StopRequested THEN "main" ELSE "cqe"
    /\ UNCHANGED <<mode, tasks, stack, fresh, abort, ring, remote, queues, stops>>

\* for_each_cqe: the handler resumes the awaiting coroutine, and the entry is
\* handed back to the kernel once the handler is over; a timeout has no awaiter
ResumeCqe ==
    /\ pc = "cqe" /\ cq # <<>>
    /\ pc' = "cqe_seen"
    /\ stack' = IF Head(cq) = Null THEN stack ELSE Push(Head(cq))
    /\ UNCHANGED <<mode, tasks, fresh, abort, ring, remote, queues, stops>>

CqeSeen ==
    /\ pc = "cqe_seen" /\ stack = <<>>
    /\ pc' = "cqe" /\ cq' = Tail(cq)
    /\ UNCHANGED <<mode, tasks, stack, fresh, abort, sq, inflight, timers,
                   remote, queues, stops>>

CqeDone ==
    /\ pc = "cqe" /\ cq = <<>>
    /\ pc' = "spawn"
    /\ UNCHANGED <<mode, tasks, stack, fresh, abort, ring, remote, queues, stops>>

\* empty() is called without the mutex: while another thread is in the middle
\* of inserting it may answer either way
MaySeeEmpty(q, writing) == q = <<>> \/ writing
MaySeeElements(q, writing) == q # <<>> \/ writing

InsertingSpawn == \E r \in Remotes : rpc[r] = "push"
InsertingTask == \E r \in Remotes : rpc[r] = "advance"

\* resolve_remote_coroutine
SpawnCheck ==
    /\ pc = "spawn"
    /\ \/ MaySeeEmpty(m_remote_spawn, InsertingSpawn) /\ pc' = "remote"
       \/ MaySeeElements(m_remote_spawn, InsertingSpawn) /\ pc' = "spawn_lock"
    /\ UNCHANGED <<mode, tasks, stack, fresh, abort, ring, remote, queues, stops>>

\* mutant: a copy instead of a swap
SpawnCopy ==
    /\ pc = "spawn_lock" /\ m_mutex = Unlocked
    /\ tasks' = m_remote_spawn
    /\ pc' = "spawn_run"
    /\ UNCHANGED <<mode, stack, fresh, abort, ring, remote, queues, stops>>

SpawnSwap ==
    /\ pc = "spawn_lock" /\ m_mutex = Unlocked
    /\ tasks' = m_remote_spawn /\ m_remote_spawn' = <<>>
    /\ pc' = "spawn_run"
    /\ UNCHANGED <<mode, stack, fresh, abort, ring, remote, m_remote_tasks,
                   m_local_tasks, stops>>

\* resolve_remote_task.  The mutex is taken, but post() does not hold it while
\* it inserts: the swap can hit the middle of an emplace_back.
RemoteCheck ==
    /\ pc = "remote"
    /\ \/ MaySeeEmpty(m_remote_tasks, InsertingTask) /\ pc' = "local"
       \/ MaySeeElements(m_remote_tasks, InsertingTask) /\ pc' = "remote_lock"
    /\ UNCHANGED <<mode, tasks, stack, fresh, abort, ring, remote, queues, stops>>

RemoteSwap ==
    /\ pc = "remote_lock" /\ m_mutex = Unlocked
    /\ tasks' = m_remote_tasks /\ m_remote_tasks' = <<>>
    /\ torn' = [r \in Remotes |-> torn[r] \/ rpc[r] = "advance"]
    /\ pc' = "remote_run"
    /\ UNCHANGED <<mode, stack, fresh, abort, ring, m_mutex, rpc, arg,
                   m_remote_spawn, m_local_tasks, stops>>

\* mutant: local tasks wait while completions are there
LocalSwapAfterIo ==
    /\ pc = "local"
    /\ IF cq # <<>>
       THEN pc' = "submit" /\ UNCHANGED <<tasks, m_local_tasks>>
       ELSE pc' = "local_run" /\ tasks' = m_local_tasks /\ m_local_tasks' = <<>>
    /\ UNCHANGED <<mode, stack, fresh, abort, ring, remote, m_remote_spawn,
                   m_remote_tasks, stops>>

\* resolve_local_task: swap out what is there and iterate that
LocalSwap ==
    /\ pc = "local"
    /\ tasks' = m_local_tasks /\ m_local_tasks' = <<>>
    /\ pc' = "local_run"
    /\ UNCHANGED <<mode, stack, fresh, abort, ring, remote, m_remote_spawn,
                   m_remote_tasks, stops>>

\* the for loops over the batch
AfterBatch == [spawn_run |-> "remote", remote_run |-> "local", local_run |-> "submit"]

\* mutant: the queues are cleared after their loop, not emptied by the swap
RunBatchThenClear ==
    /\ pc \in DOMAIN AfterBatch /\ stack = <<>>
    /\ IF tasks = <<>>
       THEN /\ pc' = AfterBatch[pc] /\ UNCHANGED <<tasks, stack>>
            /\ m_remote_spawn' = IF pc = "spawn_run" THEN <<>> ELSE m_remote_spawn
            /\ m_local_tasks' = IF pc = "local_run" THEN <<>> ELSE m_local_tasks
       ELSE /\ stack' = Push(Head(tasks)) /\ tasks' = Tail(tasks)
            /\ UNCHANGED <<pc, m_remote_spawn, m_local_tasks>>
    /\ UNCHANGED <<mode, fresh, abort, ring, remote, m_remote_tasks, stops>>

RunBatch ==
    /\ pc \in DOMAIN AfterBatch /\ stack = <<>>
    /\ IF tasks = <<>>
       THEN pc' = AfterBatch[pc] /\ UNCHANGED <<tasks, stack, abort>>
       ELSE IF Head(tasks) = Garbage
       THEN abort' = "call of garbage" /\ UNCHANGED <<pc, tasks, stack>>
       ELSE stack' = Push(Head(tasks)) /\ tasks' = Tail(tasks)
            /\ UNCHANGED <<pc, abort>>
    /\ UNCHANGED <<mode, fresh, ring, remote, queues, stops>>

\* an exception of a task of a batch leaves run(); the rest of the batch, a
\* local variable of resolve_*_task, is destroyed with it
TaskThrows(t) ==
    /\ pc \in {"remote_run", "local_run"}
    /\ stack = <<t>> /\ t \in ThrowingTasks
    /\ pc' = "main" /\ stack' = <<>> /\ tasks' = <<>>
    /\ fresh' = fresh \cup {t}
    /\ UNCHANGED <<mode, abort, ring, remote, queues, stops>>

\* mutant: submit_and_wait without the timeout
SubmitWithoutTimer ==
    /\ pc = "submit" /\ mode # "poll"
    /\ inflight' = inflight \cup Range(sq) /\ sq' = <<>> /\ pc' = "wait"
    /\ UNCHANGED <<mode, tasks, stack, fresh, abort, timers, cq, remote, queues,
                   stops>>

\* nonpoll_submit: one more entry for the 1ms timeout, then submit everything.
\* The result of io_uring_get_sqe is not checked.  MaxTimers is the model's bound.
SubmitAndWait ==
    /\ pc = "submit" /\ mode # "poll" /\ timers < MaxTimers
    /\ IF SqFull
       THEN abort' = "null sqe" /\ UNCHANGED <<pc, sq, inflight, timers>>
       ELSE /\ inflight' = inflight \cup Range(sq) /\ sq' = <<>>
            /\ timers' = timers + 1
            /\ pc' = "wait" /\ UNCHANGED abort
    /\ UNCHANGED <<mode, tasks, stack, fresh, cq, remote, queues, stops>>

\* io_uring_submit_and_wait returns when a completion is there
WaitReturns ==
    /\ pc = "wait" /\ cq # <<>>
    /\ pc' = "check"
    /\ UNCHANGED <<mode, tasks, stack, fresh, abort, ring, remote, queues, stops>>

\* poll_submit (yielding after 64 empty rounds changes no state)
PollSubmit ==
    /\ pc = "submit" /\ mode = "poll"
    /\ inflight' = inflight \cup Range(sq) /\ sq' = <<>>
    /\ pc' = "check"
    /\ UNCHANGED <<mode, tasks, stack, fresh, abort, timers, cq, remote,
                   queues, stops>>

-----------------------------------------------------------------------------
(* The kernel: operations complete in any order, or never; timeouts do. *)

Complete(c) ==
    /\ c \in inflight
    /\ inflight' = inflight \ {c} /\ cq' = Append(cq, c)
    /\ UNCHANGED <<pc, mode, tasks, stack, fresh, abort, sq, timers, remote,
                   queues, stops>>

TimerFires ==
    /\ timers > 0
    /\ timers' = timers - 1 /\ cq' = Append(cq, Null)
    /\ UNCHANGED <<pc, mode, tasks, stack, fresh, abort, sq, inflight, remote,
                   queues, stops>>

-----------------------------------------------------------------------------
(* The remote threads. *)

\* co_spawn: the guard has a name, so the mutex is held across push_back
RemoteCoSpawn(r, c) ==
    /\ rpc[r] = "idle" /\ c \in RemoteCoros \cap fresh /\ m_mutex = Unlocked
    /\ m_mutex' = r
    /\ rpc' = [rpc EXCEPT ![r] = "push"] /\ arg' = [arg EXCEPT ![r] = c]
    /\ fresh' = fresh \ {c}
    /\ UNCHANGED <<pc, mode, tasks, stack, abort, ring, torn, queues, stops>>

\* mutant: insertion at the front
RemotePushFront(r) ==
    /\ rpc[r] = "push"
    /\ m_remote_spawn' = <<arg[r]>> \o m_remote_spawn
    /\ m_mutex' = Unlocked
    /\ rpc' = [rpc EXCEPT ![r] = "idle"] /\ arg' = [arg EXCEPT ![r] = Null]
    /\ UNCHANGED <<pc, mode, tasks, stack, fresh, abort, ring, torn,
                   m_remote_tasks, m_local_tasks, stops>>

RemotePush(r) ==
    /\ rpc[r] = "push"
    /\ m_remote_spawn' = Append(m_remote_spawn, arg[r])
    /\ m_mutex' = Unlocked
    /\ rpc' = [rpc EXCEPT ![r] = "idle"] /\ arg' = [arg EXCEPT ![r] = Null]
    /\ UNCHANGED <<pc, mode, tasks, stack, fresh, abort, ring, torn,
                   m_remote_tasks, m_local_tasks, stops>>

\* post, dispatch, and co_await schedule() of a coroutine of another context.
\* `std::lock_guard{m_mutex};` is a temporary: the mutex is taken and released
\* in that statement, and emplace_back runs without it.
RemotePost(r, t) ==
    /\ rpc[r] = "idle" /\ t \in RemoteTasks \cap fresh /\ m_mutex = Unlocked
    /\ rpc' = [rpc EXCEPT ![r] = "construct"] /\ arg' = [arg EXCEPT ![r] = t]
    /\ fresh' = fresh \ {t}
    /\ UNCHANGED <<pc, mode, tasks, stack, abort, ring, m_mutex, torn, queues,
                   stops>>

\* emplace_back builds the element in the cell at the deque's end ...
RemoteConstruct(r) ==
    /\ rpc[r] = "construct"
    /\ torn' = [s \in Remotes |-> IF s = r THEN InsertingTask
                                  ELSE torn[s] \/ rpc[s] = "advance"]
    /\ rpc' = [rpc EXCEPT ![r] = "advance"]
    /\ UNCHANGED <<pc, mode, tasks, stack, fresh, abort, ring, m_mutex, arg,
                   queues, stops>>

\* ... and advances the end.  If another emplace_back or a swap came between,
\* the cell the end moves over is the element, the element of nobody, or the
\* two threads advanced the end once.
AfterEmplace(r) ==
    {Append(m_remote_tasks, arg[r])} \cup
    (IF torn[r] THEN {Append(m_remote_tasks, Garbage), m_remote_tasks} ELSE {})

RemoteAdvance(r) ==
    /\ rpc[r] = "advance"
    /\ m_remote_tasks' \in AfterEmplace(r)
    /\ rpc' = [rpc EXCEPT ![r] = "idle"] /\ arg' = [arg EXCEPT ![r] = Null]
    /\ torn' = [torn EXCEPT ![r] = FALSE]
    /\ UNCHANGED <<pc, mode, tasks, stack, fresh, abort, ring, m_mutex,
                   m_remote_spawn, m_local_tasks, stops>>

-----------------------------------------------------------------------------
UserStep ==
    \/ \E t \in Tasks : Post(t)
    \/ \E x \in Items : RunNow(x) \/ Return(x)
    \/ \E c \in Coros : AwaitIo(c)

LoopStep ==
    \/ Check \/ ResumeCqe \/ CqeSeen \/ CqeDone
    \/ SpawnCheck \/ SpawnSwap \/ RemoteCheck \/ RemoteSwap \/ LocalSwap
    \/ RunBatch \/ SubmitAndWait \/ WaitReturns \/ PollSubmit

RemoteReturns(r) == RemotePush(r) \/ RemoteConstruct(r) \/ RemoteAdvance(r)

RemoteStep(r) ==
    \/ \E c \in Coros : RemoteCoSpawn(r, c)
    \/ \E t \in Tasks : RemotePost(r, t)
    \/ RemoteReturns(r)

Step ==
    \/ \E m \in Modes : Start(m)
    \/ UserStep \/ LoopStep
    \/ \E t \in Tasks : TaskThrows(t)
    \/ RequestStop \/ RequestTokenStop
    \/ \E c \in Coros : Complete(c)
    \/ TimerFires
    \/ \E r \in Remotes : RemoteStep(r)

\* after an abort the process is gone
Next == (abort = "no" /\ Step) \/ (abort # "no" /\ UNCHANGED vars)

(* Fairness.  The loop thread and a remote thread inside a call are running  *)
(* threads; the kernel's 1ms timeouts fire; user code that is on the thread  *)
(* ends or awaits after finitely many steps, even when it nests other code   *)
(* (strong: x is the top of the stack only now and then).  Nothing makes an  *)
(* operation complete, and nobody has to call anything.                      *)
Leaves(x) == Return(x) \/ AwaitIo(x)

Fairness ==
    /\ WF_vars(abort = "no" /\ LoopStep)
    /\ WF_vars(abort = "no" /\ TimerFires)
    /\ \A r \in Remotes : WF_vars(abort = "no" /\ RemoteReturns(r))
    /\ \A x \in Items : SF_vars(abort = "no" /\ Leaves(x))

Spec == Init /\ [][Next]_vars
FairSpec == Spec /\ Fairness

-----------------------------------------------------------------------------
(* Properties. *)

TypeOK ==
    /\ pc \in {"main", "check", "cqe", "cqe_seen", "spawn", "spawn_lock",
               "spawn_run", "remote", "remote_lock", "remote_run", "local",
               "local_run", "submit", "wait"}
    /\ mode \in Modes
    /\ m_is_stopped \in BOOLEAN /\ token \in BOOLEAN
    /\ m_mutex \in Remotes \cup {Unlocked}
    /\ m_remote_spawn \in Seq(Coros)
    /\ m_remote_tasks \in Seq(Tasks \cup {Garbage})
    /\ m_local_tasks \in Seq(Tasks)
    /\ tasks \in Seq(Items \cup {Garbage})
    /\ stack \in Seq(Items)
    /\ sq \in Seq(Coros) /\ inflight \subseteq Coros
    /\ timers \in 0 .. MaxTimers /\ cq \in Seq(Coros \cup {Null})
    /\ rpc \in [Remotes -> {"idle", "push", "construct", "advance"}]
    /\ arg \in [Remotes -> Items \cup {Null}]
    /\ torn \in [Remotes -> BOOLEAN]
    /\ fresh \subseteq Items
    /\ abort \in {"no", "assert(sqe)", "null sqe", "call of garbage"}

\* the completions whose coroutine has not been resumed for them
PendingCq == IF pc = "cqe_seen" THEN Tail(cq) ELSE cq

\* who holds an item: nobody yet, a thread inside post/co_spawn, a queue, the
\* batch, the thread, the ring on its way in, the kernel, the ring on its way out
Held == [fresh |-> fresh, call |-> Range(arg), spawn |-> Range(m_remote_spawn),
         remote |-> Range(m_remote_tasks), local |-> Range(m_local_tasks),
         batch |-> Range(tasks), stack |-> Range(stack), sq |-> Range(sq),
         kernel |-> inflight, cq |-> Range(PendingCq)]

\* no item twice in a sequence (timeouts and garbage are not items)
NoRepeat(f) == \A i, j \in DOMAIN f : f[i] = f[j] /\ f[i] \in Items => i = j

OneHolder ==
    LET h == Held IN
    \A p, s \in DOMAIN h : p # s => h[p] \cap h[s] \cap Items = {}

NoRepeats ==
    /\ NoRepeat(arg) /\ NoRepeat(m_remote_spawn) /\ NoRepeat(m_remote_tasks)
    /\ NoRepeat(m_local_tasks) /\ NoRepeat(tasks) /\ NoRepeat(stack)
    /\ NoRepeat(sq) /\ NoRepeat(PendingCq)

\* Nothing is started or resumed twice: an item has at most one holder, and
\* occurs there once.  Two holders would be a coroutine resumed by a completion
\* while it waits for another operation, or a task left in a queue that was
\* already swapped out (io_context.hpp:256-264, 311-349).
NeverTwice == OneHolder /\ NoRepeats

\* A coroutine handed to co_spawn, or suspended on an operation, always has
\* somebody who will resume it: across the locked hand-over, the unlocked
\* empty() and the swap, and from the ring to the kernel and back
\* (io_context.hpp:147-155, 187-197, 311-324).
CoroutineNeverLost ==
    LET h == Held IN \A c \in Coros : \E p \in DOMAIN h : c \in h[p]

\* "put task into queue . it will be executed later." (io_context.hpp:108):
\* a task whose post() has returned is in a queue, in a batch or running until
\* it ends.
TaskNeverLost ==
    LET h == Held IN \A t \in Tasks : \E p \in DOMAIN h : t \in h[p]

\* The loop never blocks in submit_and_wait without something that ends the
\* wait: the 1ms timeout is the only way it notices remote work
\* (io_context.hpp:290-297).
WakeSource == pc = "wait" => timers > 0 \/ cq # <<>>

\* One entry per coroutine and one for the timeout: a ring with more entries
\* than there are coroutines never makes io_uring_get_sqe return NULL
\* (io_context.hpp:190-192, 293).
RingSuffices ==
    Cardinality(Coros) < RingSize => abort \notin {"assert(sqe)", "null sqe"}

Gone == pc = "main" \/ abort # "no"

\* a coroutine spawned by another thread is started while the loop runs, though
\* nothing signals the loop and local tasks may post themselves forever.
SpawnStarts ==
    \A c \in RemoteCoros :
        (c \in Range(m_remote_spawn) /\ ~Gone) ~> (c \in Range(stack) \/ Gone)

\* a completion reaches its coroutine, though local tasks may post themselves
\* forever: each round runs only the tasks it found.
CompletionResumes ==
    \A c \in Coros :
        (c \in Range(PendingCq) /\ ~Gone) ~> (c \in Range(stack) \/ Gone)

\* a posted local task runs, though completions and remote work keep coming.
LocalTaskRuns ==
    \A t \in LocalTasks :
        (t \in Range(m_local_tasks) /\ ~Gone) ~> (t \in Range(stack) \/ Gone)

\* Nothing that reached the loop starves: neither remote coroutines, which
\* nothing signals, nor completions, nor local tasks, whatever the other two
\* sources keep producing (io_context.hpp:250-272, 290-309).
NothingStarves == SpawnStarts /\ CompletionResumes /\ LocalTaskRuns

\* A stop requested while the loop runs ends it, even when it is asleep; one
\* requested through the token ends run(token) also when it came before.
StopEndsLoop == (StopRequested /\ ~Gone) ~> Gone

\* The double-buffered queues are FIFO queues to their users: swapping the
\* queue out and iterating the batch neither reorders, drops nor repeats.
LocalQueue == INSTANCE TaskFifo WITH Elems <- Tasks,
    q <- (IF pc = "local_run" THEN tasks ELSE <<>>) \o m_local_tasks
SpawnQueue == INSTANCE TaskFifo WITH Elems <- Coros,
    q <- (IF pc = "spawn_run" THEN tasks ELSE <<>>) \o m_remote_spawn

QueuesAreFifo == LocalQueue!Spec /\ SpawnQueue!Spec

-----------------------------------------------------------------------------
(* The inductive invariant behind NeverTwice, CoroutineNeverLost and          *)
(* RingSuffices: what each place can contain, and where the loop thread can   *)
(* be while user code is on its stack.                                       *)

ArgOK ==
    \A r \in Remotes : /\ rpc[r] = "idle" => arg[r] = Null
                       /\ rpc[r] = "push" => arg[r] \in Coros
                       /\ rpc[r] \in {"construct", "advance"} => arg[r] \in RemoteTasks

\* a batch is a local variable of its loop: a stop takes effect between rounds
BatchOnlyInLoops == pc \notin DOMAIN AfterBatch => tasks = <<>>

BatchOK ==
    /\ BatchOnlyInLoops
    /\ pc = "spawn_run" => tasks \in Seq(Coros)
    /\ pc = "remote_run" => tasks \in Seq(Tasks \cup {Garbage})
    /\ pc = "local_run" => tasks \in Seq(Tasks)

StackOK == stack # <<>> => pc \in DOMAIN AfterBatch \cup {"main", "cqe_seen"}

CqOK == pc = "cqe_seen" => cq # <<>>

IInv ==
    /\ TypeOK /\ ArgOK /\ BatchOK /\ StackOK /\ CqOK
    /\ NeverTwice /\ CoroutineNeverLost /\ WakeSource /\ RingSuffices
=============================================================================
