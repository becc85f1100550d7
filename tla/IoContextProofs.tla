-------------------------- MODULE IoContextProofs --------------------------
(***************************************************************************)
(* Proofs about IoContext, for every set of coroutines, tasks and threads  *)
(* and every ring size: nothing is started or resumed twice, no coroutine  *)
(* is lost, and a task only by an exception or an overlapped post(); the   *)
(* loop never sleeps without a wake-up; a ring with more entries than      *)
(* there are coroutines never overflows; the queues are FIFO queues.       *)
(***************************************************************************)
EXTENDS IoContextInvariant, FiniteSetTheorems

-----------------------------------------------------------------------------
(* The ring and the wake-up. *)

\* A sequence without repetitions over a finite set is no longer than the set.
LEMMA Pigeonhole ==
    ASSUME NEW S \in SUBSET Items, IsFiniteSet(S), NEW f \in Seq(S), NoRepeat(f)
    PROVE  Len(f) <= Cardinality(S)
<1>1. /\ Len(f) \in Nat /\ DOMAIN f = 1 .. Len(f) /\ f \in [1 .. Len(f) -> S]
  OBVIOUS
<1>2. IsFiniteSet(1 .. Len(f)) /\ Cardinality(1 .. Len(f)) = Len(f)
  BY <1>1, FS_Interval
<1>3. f \in Injection(1 .. Len(f), S)
  BY <1>1 DEF Injection, IsInjective, NoRepeat
<1> QED
  BY <1>1, <1>2, <1>3, FS_Injection

\* The coroutine about to fill an entry has none yet, and the timeout takes one.
LEMMA RingStep ==
    ASSUME Control, NeverTwice, RingSuffices, [Next]_vars
    PROVE  RingSuffices'
<1> SUFFICES ASSUME Cardinality(Coros) < RingSize, abort = "no", Step
             PROVE  abort' \notin {"assert(sqe)", "null sqe"}
  BY DEF RingSuffices, Next, vars
<1>1. sq \in Seq(Coros) /\ NoRepeat(sq) /\ IsFiniteSet(Coros) /\ Coros \subseteq Items
  BY ItemsAssumption DEF Control, TypeOK, NeverTwice, NoRepeats, Items
<1>2. Len(sq) \in Nat /\ Len(sq) <= Cardinality(Coros) /\ Cardinality(Coros) \in Nat
  BY <1>1, Pigeonhole, FS_CardinalityType
<1>3. ~SqFull
  BY <1>2, RingAssumption DEF SqFull
<1>4. ASSUME NEW c \in Coros, AwaitIo(c) PROVE abort' = "no"
  BY <1>3, <1>4 DEF AwaitIo
<1>5. CASE SubmitAndWait
  BY <1>3, <1>5 DEF SubmitAndWait
<1>6. CASE RunBatch
  BY <1>6 DEF RunBatch
<1> QED
  BY <1>4, <1>5, <1>6
  DEF Step, UserStep, LoopStep, RemoteStep, RemoteReturns, Start, Post, RunNow, Return,
      Check, ResumeCqe, CqeSeen, CqeDone, SpawnCheck, SpawnSwap, RemoteCheck, RemoteSwap,
      LocalSwap, WaitReturns, PollSubmit, TaskThrows, RequestStop, RequestTokenStop,
      Complete, TimerFires, RemoteCoSpawn, RemotePost, RemotePush, RemoteConstruct,
      RemoteAdvance

\* Whoever sleeps in submit_and_wait has a timeout or a completion coming.
LEMMA WakeStep == Control /\ WakeSource /\ [Next]_vars => WakeSource'
<1> SUFFICES ASSUME Control, WakeSource, [Next]_vars, pc' = "wait"
             PROVE  timers' > 0 \/ cq' # <<>>
  BY DEF WakeSource
<1> USE DEF ring, remote, queues, stops
<1>0. timers \in Nat /\ cq \in Seq(Coros \cup {Null})
  <2>1. timers \in 0 .. MaxTimers /\ cq \in Seq(Coros \cup {Null})
    BY DEF Control, TypeOK
  <2> QED
    BY <2>1, RingAssumption
<1>1. CASE SubmitAndWait
  <2>1. CASE SqFull
    BY <1>1, <2>1 DEF SubmitAndWait
  <2>2. CASE ~SqFull
    BY <1>0, <1>1, <2>2 DEF SubmitAndWait
  <2> QED
    BY <2>1, <2>2
<1>2. CASE TimerFires \/ \E c \in Coros : Complete(c)
  <2>1. PICK x \in Coros \cup {Null} : cq' = Append(cq, x)
    BY <1>2 DEF TimerFires, Complete
  <2>2. Append(cq, x) # <<>>
    BY <1>0
  <2> QED
    BY <2>1, <2>2
<1>3. CASE pc' = pc /\ UNCHANGED <<timers, cq>>
  BY <1>3 DEF WakeSource
<1>4. CASE RunBatch
  <2>1. pc # "wait" /\ pc' \in {pc, AfterBatch[pc]}
    BY <1>4 DEF RunBatch, AfterBatch
  <2>2. AfterBatch[pc] # "wait"
    <3>1. pc \in {"spawn_run", "remote_run", "local_run"}
      BY <1>4 DEF RunBatch, AfterBatch
    <3> QED
      BY <3>1 DEF AfterBatch
  <2> QED
    BY <2>1, <2>2
<1>5. CASE Step /\ ~SubmitAndWait /\ ~TimerFires /\ ~(\E c \in Coros : Complete(c))
           /\ ~RunBatch
  BY <1>3, <1>5
  DEF Step, UserStep, LoopStep, RemoteStep, RemoteReturns, Start, Post, RunNow, AwaitIo,
      Return, Check, ResumeCqe, CqeSeen, CqeDone, SpawnCheck, SpawnSwap, RemoteCheck,
      RemoteSwap, LocalSwap, WaitReturns, PollSubmit, TaskThrows, RequestStop,
      RequestTokenStop, RemoteCoSpawn, RemotePost, RemotePush, RemoteConstruct,
      RemoteAdvance
<1> QED
  BY <1>1, <1>2, <1>3, <1>4, <1>5 DEF Next, vars

-----------------------------------------------------------------------------
(* Theorems. *)

LEMMA InitIInv == Init => IInv
<1> SUFFICES ASSUME Init PROVE IInv
  OBVIOUS
<1>1. Control
  BY InitControl
<1>2. Range(arg) \cap Items = {} /\ NoRepeat(arg)
  BY ItemsAssumption DEF Init, Range, NoRepeat
<1>3. PendingCq = <<>>
  BY DEF Init, PendingCq
<1>4. NoRepeats
  BY <1>2, <1>3, EmptyPlace DEF NoRepeats, Init
<1>5. \A y \in Items, p \in Places : y \in Held[p] <=> p = "fresh"
  BY <1>2, <1>3, EmptyPlace, HeldNow DEF Init, Places
<1>6. OneHolder
  BY <1>5, HeldNow DEF OneHolder
<1>7. CoroutineNeverLost
  BY <1>5, HeldNow DEF CoroutineNeverLost, Places, Items
<1>8. WakeSource /\ RingSuffices
  BY DEF Init, WakeSource, RingSuffices
<1> QED
  BY <1>1, <1>4, <1>6, <1>7, <1>8 DEF IInv, Control, NeverTwice

\* A step drops no coroutine, so each still has its holder.
LEMMA CoroutinesStay ==
    ASSUME Control, NeverTwice, CoroutineNeverLost, [Next]_vars
    PROVE  CoroutineNeverLost'
<1>1. Kept({y \in Items : ~Drops(y)})
  BY HoldersStep DEF Moves
<1>2. ASSUME NEW c \in Coros PROVE \E p \in Places : c \in Held'[p]
  <2>1. c \in {y \in Items : ~Drops(y)}
    BY OnlyTasksDrop DEF Items
  <2>2. \E p \in Places : c \in Held[p]
    BY HeldNow DEF CoroutineNeverLost
  <2> QED
    BY <1>1, <2>1, <2>2 DEF Kept
<1> QED
  BY <1>2, HeldNext DEF CoroutineNeverLost

\* The inductive invariant: what each place can contain, one holder per item,
\* every coroutine held, a wake-up for the sleeping loop, a ring that suffices.
THEOREM LoopInvariant == Spec => []IInv
<1>1. Init => IInv
  BY InitIInv
<1>2. IInv /\ [Next]_vars => IInv'
  <2> SUFFICES ASSUME IInv, [Next]_vars PROVE IInv'
    OBVIOUS
  <2>1. Control /\ NeverTwice
    BY DEF IInv, Control
  <2>2. NeverTwice' /\ CoroutineNeverLost'
    BY <2>1, HoldersStep, CoroutinesStay DEF Moves, IInv
  <2> QED
    BY <2>1, <2>2, ControlStep, RingStep, WakeStep DEF IInv, Control
<1> QED
  BY <1>1, <1>2, PTL DEF Spec

\* Type correctness of the loop.
THEOREM TypeCorrect == Spec => []TypeOK
<1>1. IInv => TypeOK
  BY DEF IInv
<1> QED
  BY <1>1, LoopInvariant, PTL

\* No coroutine or task is ever started or resumed twice, whatever the threads,
\* the kernel and the user code do (io_context.hpp:256-264, 311-349).
THEOREM StartedOnce == Spec => []NeverTwice
<1>1. IInv => NeverTwice
  BY DEF IInv
<1> QED
  BY <1>1, LoopInvariant, PTL

\* No coroutine is lost between co_spawn, the ring and the kernel
\* (io_context.hpp:147-155, 187-197, 311-324).
THEOREM CoroutinesKept == Spec => []CoroutineNeverLost
<1>1. IInv => CoroutineNeverLost
  BY DEF IInv
<1> QED
  BY <1>1, LoopInvariant, PTL

\* The loop never sleeps without a wake-up (io_context.hpp:290-297).
THEOREM SleepsWithWakeup == Spec => []WakeSource
<1>1. IInv => WakeSource
  BY DEF IInv
<1> QED
  BY <1>1, LoopInvariant, PTL

\* A ring with more entries than there are coroutines never overflows
\* (io_context.hpp:190-192, 293).
THEOREM RingNeverFull == Spec => []RingSuffices
<1>1. IInv => RingSuffices
  BY DEF IInv
<1> QED
  BY <1>1, LoopInvariant, PTL

-----------------------------------------------------------------------------
(* Tasks: what can be lost, and where. *)

HeldSomewhere(y) == \E p \in Places : y \in Held[p]

\* The ways to drop an item need a task that throws, or a call of post() from
\* another thread.
LEMMA DropsNeed ==
    ASSUME Control, NEW y, Drops(y)
    PROVE  ThrowingTasks # {} \/ y \in RemoteTasks
<1>1. ASSUME NEW t \in Tasks, TaskThrows(t) PROVE ThrowingTasks # {}
  BY <1>1 DEF TaskThrows
<1>2. ASSUME NEW r \in Remotes, RemoteAdvance(r), y = arg[r] PROVE y \in RemoteTasks
  BY <1>2 DEF RemoteAdvance, Control, ArgOK
<1> QED
  BY <1>1, <1>2 DEF Drops

\* Only two steps of the whole system leave an accepted item without a holder:
\* a task that throws out of run() takes the rest of its batch with it, and an
\* emplace_back of post() that another access of the deque overlapped may end
\* without its element (io_context.hpp:108-116, 326-349).
THEOREM DroppedOnlyThere ==
    Spec => [][\A y \in Items : HeldSomewhere(y) => HeldSomewhere(y)' \/ Drops(y)]_vars
<1>1. IInv /\ [Next]_vars
        => [\A y \in Items : HeldSomewhere(y) => HeldSomewhere(y)' \/ Drops(y)]_vars
  <2> SUFFICES ASSUME IInv, [Next]_vars, NEW y \in Items, HeldSomewhere(y), ~Drops(y)
               PROVE  HeldSomewhere(y)'
    OBVIOUS
  <2>1. Kept({z \in Items : ~Drops(z)})
    BY HoldersStep DEF Moves, IInv, Control
  <2> QED
    BY <2>1 DEF Kept, HeldSomewhere
<1> QED
  BY <1>1, LoopInvariant, PTL DEF Spec

\* Where no task throws, a task that only the loop's own thread posts is in a
\* queue, in a batch or running until it ends, whatever the other threads post
\* meanwhile (io_context.hpp:108-116, 339-349).
THEOREM LocalTasksKept ==
    ASSUME ThrowingTasks = {}
    PROVE  Spec => [](\A t \in Tasks \ RemoteTasks : HeldSomewhere(t))
<1> DEFINE Safe == \A t \in Tasks \ RemoteTasks : HeldSomewhere(t)
<1>1. Init => Safe
  BY HeldNow DEF Init, HeldSomewhere, Places, Items
<1>2. IInv /\ Safe /\ [Next]_vars => Safe'
  <2> SUFFICES ASSUME IInv, Safe, [Next]_vars, NEW t \in Tasks \ RemoteTasks
               PROVE  \E p \in Places : t \in Held'[p]
    BY DEF HeldSomewhere
  <2>1. Kept({y \in Items : ~Drops(y)}) /\ Control
    BY HoldersStep DEF Moves, IInv, Control
  <2>2. t \in {y \in Items : ~Drops(y)}
    BY <2>1, DropsNeed DEF Items
  <2> QED
    BY <2>1, <2>2 DEF Kept, HeldSomewhere
<1> QED
  BY <1>1, <1>2, LoopInvariant, PTL DEF Spec

\* Where no task throws and every task is posted by the loop's own thread,
\* post() keeps its promise for all of them (io_context.hpp:108-116, 339-349).
THEOREM TasksKept ==
    ASSUME ThrowingTasks = {}, RemoteTasks = {}
    PROVE  Spec => []TaskNeverLost
<1>1. (\A t \in Tasks \ RemoteTasks : HeldSomewhere(t)) => TaskNeverLost
  BY HeldNow DEF TaskNeverLost, HeldSomewhere
<1> QED
  BY <1>1, LocalTasksKept, PTL

-----------------------------------------------------------------------------
(* The queues refine TaskFifo. *)

\* Concatenation with an empty queue, and its tail.
LEMMA Concatenate ==
    ASSUME NEW S, NEW b \in Seq(S), NEW m \in Seq(S)
    PROVE  /\ <<>> \o m = m /\ b \o <<>> = b
           /\ b # <<>> => b \o m # <<>> /\ Tail(b) \o m = Tail(b \o m)
<1>1. <<>> \o m = m /\ b \o <<>> = b
  OBVIOUS
<1>2. ASSUME b # <<>> PROVE b \o m # <<>> /\ Tail(b) \o m = Tail(b \o m)
  BY <1>2
<1> QED
  BY <1>1, <1>2

\* Concatenation with a queue that grew.
LEMMA ConcatenateAppend ==
    ASSUME NEW S, NEW b \in Seq(S), NEW m \in Seq(S), NEW x \in S
    PROVE  b \o Append(m, x) = Append(b \o m, x)
OBVIOUS

\* the queue of remote coroutines and that of local tasks, as their users see them
SpawnBatch == IF pc = "spawn_run" THEN tasks ELSE <<>>
SpawnView == SpawnBatch \o m_remote_spawn
LocalBatch == IF pc = "local_run" THEN tasks ELSE <<>>
LocalView == LocalBatch \o m_local_tasks

\* The loop over a batch: it ends, calls garbage, or runs the batch's head.
LEMMA BatchCases ==
    ASSUME Control, RunBatch
    PROVE  \/ tasks = <<>> /\ tasks' = tasks /\ pc' = AfterBatch[pc]
           \/ pc' = pc /\ tasks' = tasks
           \/ pc' = pc /\ tasks # <<>> /\ tasks' = Tail(tasks)
BY DEF RunBatch

\* Every step puts a coroutine at the end of the queue, takes its head, or
\* leaves the queue as it is.
LEMMA SpawnFifoStep ==
    ASSUME Control, [Next]_vars
    PROVE  SpawnQueue!Next \/ SpawnView' = SpawnView
<1>0. m_remote_spawn \in Seq(Coros) /\ SpawnBatch \in Seq(Coros)
  <2>1. m_remote_spawn \in Seq(Coros) /\ (pc = "spawn_run" => tasks \in Seq(Coros))
    BY DEF Control, TypeOK, BatchOK
  <2> QED
    BY <2>1, EmptySeq DEF SpawnBatch
<1>1. CASE SpawnSwap
  <2>1. SpawnBatch = <<>> /\ SpawnBatch' = m_remote_spawn /\ m_remote_spawn' = <<>>
    BY <1>1 DEF SpawnSwap, SpawnBatch
  <2> QED
    BY <1>0, <2>1, Concatenate DEF SpawnView
<1>2. CASE RunBatch /\ pc = "spawn_run"
  <2>1. SpawnBatch = tasks /\ m_remote_spawn' = m_remote_spawn
    BY <1>2 DEF RunBatch, SpawnBatch, queues
  <2>2. CASE tasks = <<>> /\ tasks' = tasks /\ pc' = AfterBatch[pc]
    BY <1>2, <2>1, <2>2 DEF SpawnBatch, AfterBatch, SpawnView
  <2>3. CASE pc' = pc /\ tasks' = tasks
    BY <1>2, <2>1, <2>3 DEF SpawnBatch, SpawnView
  <2>4. CASE pc' = pc /\ tasks # <<>> /\ tasks' = Tail(tasks)
    <3>1. SpawnBatch' = Tail(SpawnBatch) /\ SpawnBatch # <<>>
      BY <1>2, <2>1, <2>4 DEF SpawnBatch
    <3>2. SpawnView # <<>> /\ SpawnView' = Tail(SpawnView)
      BY <1>0, <2>1, <3>1, Concatenate DEF SpawnView
    <3> QED
      BY <3>2 DEF SpawnQueue!Next, SpawnQueue!Take, SpawnView, SpawnBatch
  <2> QED
    BY <1>2, <2>2, <2>3, <2>4, BatchCases
<1>3. ASSUME NEW r \in Remotes, RemotePush(r) PROVE SpawnQueue!Next
  <2>1. /\ arg[r] \in Coros /\ SpawnBatch' = SpawnBatch
        /\ m_remote_spawn' = Append(m_remote_spawn, arg[r])
    BY <1>3 DEF RemotePush, Control, ArgOK, SpawnBatch
  <2>2. SpawnView' = Append(SpawnView, arg[r])
    BY <1>0, <2>1, ConcatenateAppend DEF SpawnView
  <2> QED
    BY <2>1, <2>2 DEF SpawnQueue!Next, SpawnQueue!Put, SpawnView, SpawnBatch
<1>4. CASE /\ m_remote_spawn' = m_remote_spawn
           /\ pc' = "spawn_run" <=> pc = "spawn_run"
           /\ pc = "spawn_run" => tasks' = tasks
  BY <1>4 DEF SpawnView, SpawnBatch
<1>5. CASE RunBatch /\ pc # "spawn_run"
  <2>1. pc \in {"remote_run", "local_run"} /\ m_remote_spawn' = m_remote_spawn
    BY <1>5 DEF RunBatch, AfterBatch, queues
  <2>2. AfterBatch[pc] # "spawn_run"
    BY <2>1 DEF AfterBatch
  <2> QED
    BY <1>4, <1>5, <2>1, <2>2, BatchCases
<1>6. CASE Step /\ ~SpawnSwap /\ ~RunBatch /\ ~(\E r \in Remotes : RemotePush(r))
  BY <1>4, <1>6
  DEF Step, UserStep, LoopStep, RemoteStep, RemoteReturns, Start, Post, RunNow, AwaitIo,
      Return, Check, ResumeCqe, CqeSeen, CqeDone, SpawnCheck, RemoteCheck, RemoteSwap,
      LocalSwap, SubmitAndWait, WaitReturns, PollSubmit, TaskThrows, RequestStop,
      RequestTokenStop, Complete, TimerFires, RemoteCoSpawn, RemotePost, RemoteConstruct,
      RemoteAdvance, queues
<1>7. CASE UNCHANGED vars
  BY <1>4, <1>7 DEF vars, queues
<1>8. CASE Step
  BY <1>1, <1>2, <1>3, <1>5, <1>6, <1>8
<1> QED
  BY <1>7, <1>8 DEF Next

\* The same for local tasks, but for the exception that destroys a batch.
LEMMA LocalFifoStep ==
    ASSUME Control, [Next]_vars, ~(\E t \in Tasks : TaskThrows(t))
    PROVE  LocalQueue!Next \/ LocalView' = LocalView
<1>0. m_local_tasks \in Seq(Tasks) /\ LocalBatch \in Seq(Tasks)
  <2>1. m_local_tasks \in Seq(Tasks) /\ (pc = "local_run" => tasks \in Seq(Tasks))
    BY DEF Control, TypeOK, BatchOK
  <2> QED
    BY <2>1, EmptySeq DEF LocalBatch
<1>1. CASE LocalSwap
  <2>1. LocalBatch = <<>> /\ LocalBatch' = m_local_tasks /\ m_local_tasks' = <<>>
    BY <1>1 DEF LocalSwap, LocalBatch
  <2> QED
    BY <1>0, <2>1, Concatenate DEF LocalView
<1>2. CASE RunBatch /\ pc = "local_run"
  <2>1. LocalBatch = tasks /\ m_local_tasks' = m_local_tasks
    BY <1>2 DEF RunBatch, LocalBatch, queues
  <2>2. CASE tasks = <<>> /\ tasks' = tasks /\ pc' = AfterBatch[pc]
    BY <1>2, <2>1, <2>2 DEF LocalBatch, AfterBatch, LocalView
  <2>3. CASE pc' = pc /\ tasks' = tasks
    BY <1>2, <2>1, <2>3 DEF LocalBatch, LocalView
  <2>4. CASE pc' = pc /\ tasks # <<>> /\ tasks' = Tail(tasks)
    <3>1. LocalBatch' = Tail(LocalBatch) /\ LocalBatch # <<>>
      BY <1>2, <2>1, <2>4 DEF LocalBatch
    <3>2. LocalView # <<>> /\ LocalView' = Tail(LocalView)
      BY <1>0, <2>1, <3>1, Concatenate DEF LocalView
    <3> QED
      BY <3>2 DEF LocalQueue!Next, LocalQueue!Take, LocalView, LocalBatch
  <2> QED
    BY <1>2, <2>2, <2>3, <2>4, BatchCases
<1>3. ASSUME NEW t \in Tasks, Post(t) PROVE LocalQueue!Next
  <2>1. LocalBatch' = LocalBatch /\ m_local_tasks' = Append(m_local_tasks, t)
    BY <1>3 DEF Post, LocalBatch
  <2>2. LocalView' = Append(LocalView, t)
    BY <1>0, <2>1, ConcatenateAppend DEF LocalView
  <2> QED
    BY <2>1, <2>2 DEF LocalQueue!Next, LocalQueue!Put, LocalView, LocalBatch
<1>4. CASE /\ m_local_tasks' = m_local_tasks
           /\ pc' = "local_run" <=> pc = "local_run"
           /\ pc = "local_run" => tasks' = tasks
  BY <1>4 DEF LocalView, LocalBatch
<1>5. CASE RunBatch /\ pc # "local_run"
  <2>1. pc \in {"spawn_run", "remote_run"} /\ m_local_tasks' = m_local_tasks
    BY <1>5 DEF RunBatch, AfterBatch, queues
  <2>2. AfterBatch[pc] # "local_run"
    BY <2>1 DEF AfterBatch
  <2> QED
    BY <1>4, <1>5, <2>1, <2>2, BatchCases
<1>6. CASE Step /\ ~LocalSwap /\ ~RunBatch /\ ~(\E t \in Tasks : Post(t))
  BY <1>4, <1>6
  DEF Step, UserStep, LoopStep, RemoteStep, RemoteReturns, Start, RunNow, AwaitIo,
      Return, Check, ResumeCqe, CqeSeen, CqeDone, SpawnCheck, SpawnSwap, RemoteCheck,
      RemoteSwap, SubmitAndWait, WaitReturns, PollSubmit, RequestStop,
      RequestTokenStop, Complete, TimerFires, RemoteCoSpawn, RemotePost, RemotePush,
      RemoteConstruct, RemoteAdvance, queues
<1>7. CASE UNCHANGED vars
  BY <1>4, <1>7 DEF vars, queues
<1>8. CASE Step
  BY <1>1, <1>2, <1>3, <1>5, <1>6, <1>8
<1> QED
  BY <1>7, <1>8 DEF Next

\* Coroutines spawned by other threads start in the order of their co_spawn
\* calls, each once: the unlocked empty(), the swap under the mutex and the loop
\* over the batch together are a FIFO queue, whatever throws and whatever the
\* unguarded post() does meanwhile (io_context.hpp:147-155, 311-324).
THEOREM SpawnQueueIsFifo == Spec => SpawnQueue!Spec
<1>1. Init => SpawnQueue!Init
  BY Concatenate, EmptySeq DEF Init, SpawnQueue!Init
<1>2. IInv /\ [Next]_vars => [SpawnQueue!Next]_SpawnView
  BY SpawnFifoStep DEF IInv, Control
<1> QED
  BY <1>1, <1>2, LoopInvariant, PTL DEF Spec, SpawnQueue!Spec, SpawnView, SpawnBatch

\* Where no task throws, both double-buffered queues implement TaskFifo: what is
\* handed over leaves in that order, nothing twice and nothing left out
\* (io_context.hpp:108-116, 147-155, 311-349).
THEOREM QueuesImplementFifo ==
    ASSUME ThrowingTasks = {}
    PROVE  Spec => QueuesAreFifo
<1>1. Init => LocalQueue!Init
  BY Concatenate, EmptySeq DEF Init, LocalQueue!Init
<1>2. IInv /\ [Next]_vars => [LocalQueue!Next]_LocalView
  <2>1. ~(\E t \in Tasks : TaskThrows(t))
    BY DEF TaskThrows
  <2> QED
    BY <2>1, LocalFifoStep DEF IInv, Control
<1>3. Spec => LocalQueue!Spec
  BY <1>1, <1>2, LoopInvariant, PTL DEF Spec, LocalQueue!Spec, LocalView, LocalBatch
<1> QED
  BY <1>3, SpawnQueueIsFifo, PTL DEF QueuesAreFifo
=============================================================================
