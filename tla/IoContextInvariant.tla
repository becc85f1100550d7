------------------------- MODULE IoContextInvariant -------------------------
(***************************************************************************)
(* Lemmas about IoContext.  Control: types, what each queue can contain,   *)
(* and where the loop thread can be while user code runs on it.  Holders:  *)
(* every step moves items from one holder to another, so an item never has *)
(* two, and only two kinds of steps leave one without any.                 *)
(***************************************************************************)
EXTENDS IoContext, SequenceTheorems, TLAPS

-----------------------------------------------------------------------------
(* Sequences as places. *)

\* Appending an item that is not there.
LEMMA AppendPlace ==
    ASSUME NEW S, NEW f \in Seq(S), NEW x \in S
    PROVE  /\ Append(f, x) \in Seq(S)
           /\ Range(Append(f, x)) = Range(f) \cup {x}
           /\ NoRepeat(f) /\ x \notin Range(f) => NoRepeat(Append(f, x))
<1> DEFINE g == Append(f, x)
<1>1. /\ g \in Seq(S) /\ Len(g) = Len(f) + 1 /\ g[Len(f) + 1] = x
      /\ \A i \in 1 .. Len(f) : g[i] = f[i]
      /\ DOMAIN g = 1 .. Len(f) + 1 /\ DOMAIN f = 1 .. Len(f) /\ Len(f) \in Nat
  OBVIOUS
<1> HIDE DEF g
<1>2. Range(g) = Range(f) \cup {x}
  BY <1>1 DEF Range
<1>3. ASSUME NoRepeat(f), x \notin Range(f) PROVE NoRepeat(g)
  BY <1>1, <1>3 DEF NoRepeat, Range
<1> QED
  BY <1>1, <1>2, <1>3 DEF g

\* Appending what is no item.
LEMMA AppendGarbage ==
    ASSUME NEW S, NEW f \in Seq(S), NEW x \in S, x \notin Items, NoRepeat(f)
    PROVE  NoRepeat(Append(f, x))
<1> DEFINE g == Append(f, x)
<1>1. /\ DOMAIN g = 1 .. Len(f) + 1 /\ DOMAIN f = 1 .. Len(f) /\ Len(f) \in Nat
      /\ \A i \in 1 .. Len(f) : g[i] = f[i]
      /\ g[Len(f) + 1] = x
  OBVIOUS
<1> HIDE DEF g
<1>2. NoRepeat(g)
  BY <1>1 DEF NoRepeat
<1> QED
  BY <1>2 DEF g

\* Taking the head off.
LEMMA TailPlace ==
    ASSUME NEW S, NEW f \in Seq(S), f # <<>>
    PROVE  /\ Tail(f) \in Seq(S) /\ Head(f) \in S /\ Head(f) \in Range(f)
           /\ Range(f) = Range(Tail(f)) \cup {Head(f)}
           /\ NoRepeat(f) => /\ NoRepeat(Tail(f))
                             /\ Head(f) \in Items => Head(f) \notin Range(Tail(f))
<1> DEFINE g == Tail(f)
<1>1. /\ g \in Seq(S) /\ Len(g) = Len(f) - 1 /\ Head(f) = f[1] /\ Head(f) \in S
      /\ \A i \in 1 .. Len(g) : g[i] = f[i + 1]
      /\ DOMAIN g = 1 .. Len(g) /\ DOMAIN f = 1 .. Len(f)
      /\ Len(f) \in Nat /\ Len(f) > 0 /\ Len(g) \in Nat
  OBVIOUS
<1> HIDE DEF g
<1>2. Head(f) \in Range(f)
  BY <1>1 DEF Range
<1>3. ASSUME NEW y \in Range(f) PROVE y \in Range(g) \cup {Head(f)}
  <2>1. PICK i \in 1 .. Len(f) : y = f[i]
    BY <1>1, <1>3 DEF Range
  <2>2. CASE i = 1
    BY <1>1, <2>1, <2>2
  <2>3. CASE i # 1
    <3>1. i - 1 \in 1 .. Len(g) /\ g[i - 1] = y
      BY <1>1, <2>1, <2>3
    <3> QED
      BY <1>1, <3>1 DEF Range
  <2> QED
    BY <2>2, <2>3
<1>4. Range(g) \subseteq Range(f)
  BY <1>1 DEF Range
<1>5. ASSUME NoRepeat(f)
      PROVE  NoRepeat(g) /\ (Head(f) \in Items => Head(f) \notin Range(g))
  <2>1. NoRepeat(g)
    <3> SUFFICES ASSUME NEW i \in DOMAIN g, NEW j \in DOMAIN g, g[i] = g[j], g[i] \in Items
                 PROVE  i = j
      BY DEF NoRepeat
    <3>1. i + 1 \in DOMAIN f /\ j + 1 \in DOMAIN f /\ f[i + 1] = f[j + 1]
      BY <1>1
    <3> QED
      BY <1>1, <1>5, <3>1 DEF NoRepeat
  <2>2. ASSUME Head(f) \in Items, Head(f) \in Range(g) PROVE FALSE
    <3>1. PICK i \in DOMAIN g : g[i] = Head(f)
      BY <2>2 DEF Range
    <3>2. i + 1 \in DOMAIN f /\ 1 \in DOMAIN f /\ f[i + 1] = f[1] /\ i + 1 # 1
      BY <1>1, <3>1
    <3> QED
      BY <1>1, <1>5, <2>2, <3>2 DEF NoRepeat
  <2> QED
    BY <2>1, <2>2
<1> QED
  BY <1>1, <1>2, <1>3, <1>4, <1>5 DEF g

\* Taking the innermost code off the stack.
LEMMA PopPlace ==
    ASSUME TypeOK, stack # <<>>
    PROVE  /\ Pop \in Seq(Items) /\ Top \in Items /\ Top \in Range(stack)
           /\ Range(stack) = Range(Pop) \cup {Top}
           /\ NoRepeat(stack) => NoRepeat(Pop) /\ Top \notin Range(Pop)
           /\ Len(stack) = 1 => Pop = <<>>
<1> DEFINE n == Len(stack)
<1>a. stack \in Seq(Items)
  BY DEF TypeOK
<1>0. stack \in Seq(Items) /\ n \in Nat /\ n > 0 /\ DOMAIN stack = 1 .. n
  BY <1>a
<1>1. /\ Pop \in Seq(Items) /\ Len(Pop) = n - 1 /\ DOMAIN Pop = 1 .. n - 1
      /\ \A i \in 1 .. n - 1 : Pop[i] = stack[i]
  BY <1>0, SubSeqProperties DEF Pop
<1>2. Top = stack[n] /\ n \in DOMAIN stack /\ Top \in Items
  BY <1>0 DEF Top
<1> HIDE DEF n
<1>3. Top \in Range(stack)
  BY <1>2 DEF Range
<1>4. ASSUME NEW y \in Range(stack) PROVE y \in Range(Pop) \cup {Top}
  <2>1. PICK i \in 1 .. n : y = stack[i]
    BY <1>0, <1>4 DEF Range
  <2> QED
    BY <1>0, <1>1, <1>2, <2>1 DEF Range
<1>5. Range(Pop) \subseteq Range(stack)
  BY <1>0, <1>1 DEF Range
<1>6. ASSUME NoRepeat(stack) PROVE NoRepeat(Pop) /\ Top \notin Range(Pop)
  BY <1>0, <1>1, <1>2, <1>6 DEF NoRepeat, Range
<1>7. n = 1 => Pop = <<>>
  BY <1>0, <1>1
<1> QED
  BY <1>1, <1>2, <1>3, <1>4, <1>5, <1>6, <1>7 DEF n

\* The empty sequence holds nothing.
LEMMA EmptyPlace == Range(<<>>) = {} /\ NoRepeat(<<>>)
BY DEF Range, NoRepeat

-----------------------------------------------------------------------------
(* Control: types, and what each place can contain. *)

Control == TypeOK /\ ArgOK /\ BatchOK /\ StackOK /\ CqOK

\* The initial state.
LEMMA InitControl == Init => Control
<1> SUFFICES ASSUME Init PROVE Control
  OBVIOUS
<1>1. \A S : <<>> \in Seq(S)
  OBVIOUS
<1>2. /\ m_remote_spawn \in Seq(Coros) /\ m_remote_tasks \in Seq(Tasks \cup {Garbage})
      /\ m_local_tasks \in Seq(Tasks) /\ tasks \in Seq(Items \cup {Garbage})
      /\ stack \in Seq(Items) /\ sq \in Seq(Coros) /\ cq \in Seq(Coros \cup {Null})
  BY <1>1 DEF Init
<1>3. timers \in 0 .. MaxTimers
  BY RingAssumption DEF Init
<1>4. TypeOK
  BY <1>2, <1>3 DEF Init, TypeOK
<1>5. ArgOK
  BY DEF Init, ArgOK
<1>6. BatchOK /\ StackOK /\ CqOK
  BY DEF Init, BatchOK, StackOK, CqOK, BatchOnlyInLoops
<1> QED
  BY <1>4, <1>5, <1>6 DEF Control

\* What does not change keeps what is said of it.
LEMMA ArgFrame == ArgOK /\ UNCHANGED <<rpc, arg>> => ArgOK'
BY DEF ArgOK

LEMMA BatchFrame == BatchOK /\ UNCHANGED <<pc, tasks>> => BatchOK'
BY DEF BatchOK, BatchOnlyInLoops

LEMMA CqFrame == CqOK /\ UNCHANGED <<pc, cq>> => CqOK'
BY DEF CqOK

LEMMA StackFrame == StackOK /\ UNCHANGED <<pc, stack>> => StackOK'
BY DEF StackOK

\* Steps of user code on the loop thread.
LEMMA UserControl == Control /\ UserStep => Control'
<1> SUFFICES ASSUME Control, UserStep PROVE Control'
  OBVIOUS
<1> USE ArgFrame, BatchFrame, CqFrame, StackFrame
    DEF Control, ring, remote, queues, stops
<1>1. ASSUME NEW t \in Tasks, Post(t) PROVE Control'
  <2>1. m_local_tasks \in Seq(Tasks) /\ m_local_tasks' = Append(m_local_tasks, t)
    BY <1>1 DEF Post, TypeOK
  <2>2. m_local_tasks' \in Seq(Tasks)
    BY <2>1
  <2>3. TypeOK'
    BY <1>1, <2>2 DEF Post, TypeOK
  <2> QED
    BY <1>1, <2>3 DEF Post
<1>2. ASSUME NEW x \in Items, RunNow(x) PROVE Control'
  <2>1. stack \in Seq(Items) /\ stack' = Append(stack, x)
    BY <1>2 DEF RunNow, Push, TypeOK
  <2>2. stack' \in Seq(Items)
    BY <2>1
  <2>3. TypeOK'
    BY <1>2, <2>2 DEF RunNow, TypeOK
  <2>4. StackOK'
    BY <1>2 DEF RunNow, InUserCode, StackOK
  <2> QED
    BY <1>2, <2>3, <2>4 DEF RunNow
<1>3. ASSUME NEW x \in Items, Return(x) PROVE Control'
  <2>1. stack' \in Seq(Items)
    BY <1>3, PopPlace DEF Return
  <2>2. TypeOK'
    BY <1>3, <2>1 DEF Return, TypeOK
  <2>3. StackOK'
    BY <1>3 DEF Return, StackOK
  <2> QED
    BY <1>3, <2>2, <2>3 DEF Return
<1>4. ASSUME NEW c \in Coros, AwaitIo(c) PROVE Control'
  <2>1. stack' \in Seq(Items)
    BY <1>4, PopPlace DEF AwaitIo, TypeOK
  <2>2. sq \in Seq(Coros) /\ sq' \in {sq, Append(sq, c)}
    BY <1>4 DEF AwaitIo, TypeOK
  <2>3. sq' \in Seq(Coros)
    BY <2>2
  <2>4. TypeOK'
    BY <1>4, <2>1, <2>3 DEF AwaitIo, TypeOK
  <2>5. StackOK'
    BY <1>4 DEF AwaitIo, StackOK
  <2> QED
    BY <1>4, <2>4, <2>5 DEF AwaitIo
<1> QED
  BY <1>1, <1>2, <1>3, <1>4 DEF UserStep

\* Steps of the loop.
LEMMA LoopControl == Control /\ LoopStep => Control'
<1> SUFFICES ASSUME Control, LoopStep PROVE Control'
  OBVIOUS
<1> USE ArgFrame, BatchFrame, CqFrame, StackFrame
    DEF Control, ring, remote, queues, stops
<1>1. CASE Check
  <2>1. TypeOK'
    BY <1>1 DEF Check, TypeOK
  <2>2. BatchOK' /\ StackOK' /\ CqOK'
    BY <1>1 DEF Check, BatchOK, BatchOnlyInLoops, StackOK, CqOK, AfterBatch
  <2> QED
    BY <1>1, <2>1, <2>2 DEF Check
<1>2. CASE ResumeCqe
  <2>1. cq \in Seq(Coros \cup {Null}) /\ cq # <<>> /\ stack \in Seq(Items)
    BY <1>2 DEF ResumeCqe, TypeOK
  <2>2. Head(cq) \in Coros \cup {Null}
    BY <2>1
  <2>3. stack' \in {stack, Append(stack, Head(cq))} /\ (stack' # stack => Head(cq) \in Items)
    BY <1>2, <2>2 DEF ResumeCqe, Push, Items
  <2>4. stack' \in Seq(Items)
    BY <2>1, <2>3
  <2>5. TypeOK'
    BY <1>2, <2>4 DEF ResumeCqe, TypeOK
  <2>6. BatchOK' /\ StackOK' /\ CqOK'
    BY <1>2 DEF ResumeCqe, BatchOK, BatchOnlyInLoops, StackOK, CqOK, AfterBatch
  <2> QED
    BY <1>2, <2>5, <2>6 DEF ResumeCqe
<1>3. CASE CqeSeen
  <2>1. cq \in Seq(Coros \cup {Null}) /\ cq # <<>> /\ cq' = Tail(cq)
    BY <1>3 DEF CqeSeen, TypeOK, CqOK
  <2>2. cq' \in Seq(Coros \cup {Null})
    BY <2>1
  <2>3. TypeOK'
    BY <1>3, <2>2 DEF CqeSeen, TypeOK
  <2>4. BatchOK' /\ StackOK' /\ CqOK'
    BY <1>3 DEF CqeSeen, BatchOK, BatchOnlyInLoops, StackOK, CqOK, AfterBatch
  <2> QED
    BY <1>3, <2>3, <2>4 DEF CqeSeen
<1>4. CASE CqeDone
  <2>1. TypeOK'
    BY <1>4 DEF CqeDone, TypeOK
  <2>2. BatchOK' /\ StackOK' /\ CqOK'
    BY <1>4 DEF CqeDone, BatchOK, BatchOnlyInLoops, StackOK, CqOK, AfterBatch
  <2> QED
    BY <1>4, <2>1, <2>2 DEF CqeDone
<1>5. CASE SpawnCheck
  <2>1. TypeOK'
    BY <1>5 DEF SpawnCheck, TypeOK
  <2>2. BatchOK' /\ StackOK' /\ CqOK'
    BY <1>5 DEF SpawnCheck, BatchOK, BatchOnlyInLoops, StackOK, CqOK, AfterBatch
  <2> QED
    BY <1>5, <2>1, <2>2 DEF SpawnCheck
<1>6. CASE SpawnSwap
  <2>1. m_remote_spawn \in Seq(Coros) /\ m_remote_spawn' = <<>> /\ tasks' = m_remote_spawn
    BY <1>6 DEF SpawnSwap, TypeOK
  <2>2. m_remote_spawn' \in Seq(Coros) /\ tasks' \in Seq(Coros) /\ tasks' \in Seq(Items \cup {Garbage})
    BY <2>1 DEF Items
  <2>3. TypeOK'
    BY <1>6, <2>2 DEF SpawnSwap, TypeOK
  <2>4. BatchOK' /\ StackOK' /\ CqOK'
    BY <1>6, <2>2 DEF SpawnSwap, BatchOK, BatchOnlyInLoops, StackOK, CqOK, AfterBatch
  <2> QED
    BY <1>6, <2>3, <2>4 DEF SpawnSwap
<1>7. CASE RemoteCheck
  <2>1. TypeOK'
    BY <1>7 DEF RemoteCheck, TypeOK
  <2>2. BatchOK' /\ StackOK' /\ CqOK'
    BY <1>7 DEF RemoteCheck, BatchOK, BatchOnlyInLoops, StackOK, CqOK, AfterBatch
  <2> QED
    BY <1>7, <2>1, <2>2 DEF RemoteCheck
<1>8. CASE RemoteSwap
  <2>1. m_remote_tasks \in Seq(Tasks \cup {Garbage}) /\ m_remote_tasks' = <<>> /\ tasks' = m_remote_tasks
    BY <1>8 DEF RemoteSwap, TypeOK
  <2>2. m_remote_tasks' \in Seq(Tasks \cup {Garbage}) /\ tasks' \in Seq(Tasks \cup {Garbage}) /\ tasks' \in Seq(Items \cup {Garbage})
    BY <2>1 DEF Items
  <2>3. TypeOK'
    BY <1>8, <2>2 DEF RemoteSwap, TypeOK
  <2>4. BatchOK' /\ StackOK' /\ CqOK'
    BY <1>8, <2>2 DEF RemoteSwap, BatchOK, BatchOnlyInLoops, StackOK, CqOK, AfterBatch
  <2> QED
    BY <1>8, <2>3, <2>4 DEF RemoteSwap
<1>9. CASE LocalSwap
  <2>1. m_local_tasks \in Seq(Tasks) /\ m_local_tasks' = <<>> /\ tasks' = m_local_tasks
    BY <1>9 DEF LocalSwap, TypeOK
  <2>2. m_local_tasks' \in Seq(Tasks) /\ tasks' \in Seq(Tasks) /\ tasks' \in Seq(Items \cup {Garbage})
    BY <2>1 DEF Items
  <2>3. TypeOK'
    BY <1>9, <2>2 DEF LocalSwap, TypeOK
  <2>4. BatchOK' /\ StackOK' /\ CqOK'
    BY <1>9, <2>2 DEF LocalSwap, BatchOK, BatchOnlyInLoops, StackOK, CqOK, AfterBatch
  <2> QED
    BY <1>9, <2>3, <2>4 DEF LocalSwap
<1>10. CASE RunBatch
  <2>1. CASE tasks = <<>>
    <3>a. pc \in DOMAIN AfterBatch /\ pc' = AfterBatch[pc]
      BY <1>10, <2>1 DEF RunBatch
    <3>b. pc' \in {"remote", "local", "submit"}
      BY <3>a DEF AfterBatch
    <3>1. TypeOK'
      BY <1>10, <2>1, <3>b DEF RunBatch, TypeOK
    <3>2. BatchOK' /\ StackOK' /\ CqOK'
      BY <1>10, <2>1 DEF RunBatch, BatchOK, BatchOnlyInLoops, StackOK, CqOK, AfterBatch
    <3> QED
      BY <1>10, <3>1, <3>2 DEF RunBatch
  <2>2. CASE tasks # <<>> /\ Head(tasks) = Garbage
    <3>1. TypeOK'
      BY <1>10, <2>2 DEF RunBatch, TypeOK
    <3> QED
      BY <1>10, <2>2, <3>1 DEF RunBatch
  <2>3. CASE tasks # <<>> /\ Head(tasks) # Garbage
    <3>1. /\ pc \in {"spawn_run", "remote_run", "local_run"}
          /\ tasks \in Seq(Items \cup {Garbage}) /\ stack \in Seq(Items)
          /\ tasks' = Tail(tasks) /\ stack' = Append(stack, Head(tasks))
          /\ UNCHANGED pc
      BY <1>10, <2>3 DEF RunBatch, Push, TypeOK, AfterBatch
    <3>2. tasks' \in Seq(Items \cup {Garbage}) /\ Head(tasks) \in Items
      BY <2>3, <3>1
    <3>3. stack' \in Seq(Items)
      BY <3>1, <3>2
    <3>4. \A S : tasks \in Seq(S) => tasks' \in Seq(S)
      BY <2>3, <3>1
    <3>5. TypeOK'
      BY <1>10, <2>3, <3>2, <3>3 DEF RunBatch, TypeOK
    <3>6. BatchOK'
      BY <3>1, <3>4 DEF BatchOK, BatchOnlyInLoops, AfterBatch
    <3>7. StackOK'
      BY <3>1 DEF StackOK, AfterBatch
    <3> QED
      BY <1>10, <3>1, <3>5, <3>6, <3>7 DEF RunBatch
  <2> QED
    BY <2>1, <2>2, <2>3
<1>11. CASE SubmitAndWait
  <2>a. sq \in Seq(Coros) /\ inflight \subseteq Coros /\ sq' \in {sq, <<>>}
        /\ inflight' \in {inflight, inflight \cup Range(sq)}
    BY <1>11 DEF SubmitAndWait, TypeOK
  <2>1. Range(sq) \subseteq Coros
    BY <2>a, RangeOfSeq
  <2>2. sq' \in Seq(Coros) /\ inflight' \subseteq Coros
    <3>1. CASE sq' = sq
      BY <2>a, <2>1, <3>1
    <3>2. CASE sq' = <<>>
      BY <2>a, <2>1, <3>2
    <3> QED
      BY <2>a, <3>1, <3>2
  <2>3. timers' \in 0 .. MaxTimers
    <3>1. timers \in 0 .. MaxTimers /\ timers < MaxTimers /\ timers' \in {timers, timers + 1}
      BY <1>11 DEF SubmitAndWait, TypeOK
    <3> QED
      BY <3>1, RingAssumption
  <2>4. TypeOK'
    BY <1>11, <2>2, <2>3 DEF SubmitAndWait, TypeOK
  <2>5. BatchOK' /\ StackOK' /\ CqOK'
    BY <1>11 DEF SubmitAndWait, BatchOK, BatchOnlyInLoops, StackOK, CqOK, AfterBatch
  <2> QED
    BY <1>11, <2>4, <2>5 DEF SubmitAndWait
<1>12. CASE WaitReturns
  <2>1. TypeOK'
    BY <1>12 DEF WaitReturns, TypeOK
  <2>2. BatchOK' /\ StackOK' /\ CqOK'
    BY <1>12 DEF WaitReturns, BatchOK, BatchOnlyInLoops, StackOK, CqOK, AfterBatch
  <2> QED
    BY <1>12, <2>1, <2>2 DEF WaitReturns
<1>13. CASE PollSubmit
  <2>a. sq \in Seq(Coros) /\ inflight \subseteq Coros /\ sq' = <<>>
        /\ inflight' \in {inflight, inflight \cup Range(sq)}
    BY <1>13 DEF PollSubmit, TypeOK
  <2>1. Range(sq) \subseteq Coros
    BY <2>a, RangeOfSeq
  <2>2. sq' \in Seq(Coros) /\ inflight' \subseteq Coros
    BY <2>a, <2>1
  <2>3. TypeOK'
    BY <1>13, <2>2 DEF PollSubmit, TypeOK
  <2>4. BatchOK' /\ StackOK' /\ CqOK'
    BY <1>13 DEF PollSubmit, BatchOK, BatchOnlyInLoops, StackOK, CqOK, AfterBatch
  <2> QED
    BY <1>13, <2>3, <2>4 DEF PollSubmit
<1> QED
  BY <1>1, <1>2, <1>3, <1>4, <1>5, <1>6, <1>7, <1>8, <1>9, <1>10, <1>11, <1>12,
     <1>13 DEF LoopStep

\* Entering the loop, leaving it by an exception, and stop requests.
LEMMA OuterControl ==
    ASSUME Control,
           \/ \E m \in Modes : Start(m)
           \/ \E t \in Tasks : TaskThrows(t)
           \/ RequestStop \/ RequestTokenStop
    PROVE  Control'
<1> USE ArgFrame, BatchFrame, CqFrame, StackFrame
    DEF Control, ring, remote, queues, stops
<1>1. ASSUME NEW m \in Modes, Start(m) PROVE Control'
  <2>1. TypeOK'
    BY <1>1 DEF Start, TypeOK
  <2>2. BatchOK' /\ StackOK' /\ CqOK'
    BY <1>1 DEF Start, BatchOK, BatchOnlyInLoops, StackOK, CqOK, AfterBatch
  <2> QED
    BY <1>1, <2>1, <2>2 DEF Start
<1>2. ASSUME NEW t \in Tasks, TaskThrows(t) PROVE Control'
  <2>1. tasks' = <<>> /\ stack' = <<>>
    BY <1>2 DEF TaskThrows
  <2>2. tasks' \in Seq(Items \cup {Garbage}) /\ stack' \in Seq(Items)
    BY <2>1
  <2>3. TypeOK'
    BY <1>2, <2>2 DEF TaskThrows, TypeOK, Items
  <2>4. BatchOK' /\ StackOK' /\ CqOK'
    BY <1>2 DEF TaskThrows, BatchOK, BatchOnlyInLoops, StackOK, CqOK, AfterBatch
  <2> QED
    BY <1>2, <2>3, <2>4 DEF TaskThrows
<1>3. CASE RequestStop
  <2>1. TypeOK'
    BY <1>3 DEF RequestStop, TypeOK
  <2> QED
    BY <1>3, <2>1 DEF RequestStop
<1>4. CASE RequestTokenStop
  <2>1. TypeOK'
    BY <1>4 DEF RequestTokenStop, TypeOK
  <2> QED
    BY <1>4, <2>1 DEF RequestTokenStop
<1> QED
  BY <1>1, <1>2, <1>3, <1>4

\* Completions.
LEMMA KernelControl == Control /\ (TimerFires \/ \E c \in Coros : Complete(c)) => Control'
<1> SUFFICES ASSUME Control, TimerFires \/ \E c \in Coros : Complete(c) PROVE Control'
  OBVIOUS
<1> USE ArgFrame, BatchFrame, StackFrame DEF Control, ring, remote, queues, stops
<1>0. cq \in Seq(Coros \cup {Null}) /\ timers \in 0 .. MaxTimers
  BY DEF TypeOK
<1>1. ASSUME NEW x \in Coros \cup {Null}
      PROVE  Append(cq, x) \in Seq(Coros \cup {Null}) /\ Append(cq, x) # <<>>
  BY <1>0
<1>2. CASE TimerFires
  <2>1. cq' \in Seq(Coros \cup {Null}) /\ cq' # <<>>
    BY <1>1, <1>2 DEF TimerFires
  <2>2. timers' \in 0 .. MaxTimers
    <3>1. timers > 0 /\ timers' = timers - 1
      BY <1>2 DEF TimerFires
    <3> QED
      BY <1>0, <3>1, RingAssumption
  <2>3. TypeOK'
    BY <1>2, <2>1, <2>2 DEF TimerFires, TypeOK
  <2>4. CqOK'
    BY <2>1 DEF CqOK
  <2> QED
    BY <1>2, <2>3, <2>4 DEF TimerFires
<1>3. ASSUME NEW c \in Coros, Complete(c) PROVE Control'
  <2>1. cq' \in Seq(Coros \cup {Null}) /\ cq' # <<>>
    BY <1>1, <1>3 DEF Complete
  <2>2. TypeOK'
    BY <1>3, <2>1 DEF Complete, TypeOK
  <2>3. CqOK'
    BY <2>1 DEF CqOK
  <2> QED
    BY <1>3, <2>2, <2>3 DEF Complete
<1> QED
  BY <1>2, <1>3

\* Steps of the other threads.
LEMMA RemoteControl ==
    ASSUME Control, NEW r \in Remotes, RemoteStep(r)
    PROVE  Control'
<1> USE BatchFrame, CqFrame, StackFrame DEF Control, ring, remote, queues, stops
<1>1. ASSUME NEW c \in Coros, RemoteCoSpawn(r, c) PROVE Control'
  <2>1. TypeOK'
    BY <1>1 DEF RemoteCoSpawn, TypeOK, Items
  <2>2. ArgOK'
    BY <1>1 DEF RemoteCoSpawn, ArgOK, TypeOK
  <2> QED
    BY <1>1, <2>1, <2>2 DEF RemoteCoSpawn
<1>2. ASSUME NEW t \in Tasks, RemotePost(r, t) PROVE Control'
  <2>1. TypeOK'
    BY <1>2 DEF RemotePost, TypeOK, Items
  <2>2. ArgOK'
    BY <1>2 DEF RemotePost, ArgOK, TypeOK
  <2> QED
    BY <1>2, <2>1, <2>2 DEF RemotePost
<1>3. CASE RemotePush(r)
  <2>1. /\ m_remote_spawn \in Seq(Coros) /\ arg[r] \in Coros
        /\ m_remote_spawn' = Append(m_remote_spawn, arg[r])
    BY <1>3 DEF RemotePush, TypeOK, ArgOK
  <2>2. m_remote_spawn' \in Seq(Coros)
    BY <2>1
  <2>3. TypeOK'
    BY <1>3, <2>2 DEF RemotePush, TypeOK
  <2>4. ArgOK'
    BY <1>3 DEF RemotePush, ArgOK, TypeOK
  <2> QED
    BY <1>3, <2>3, <2>4 DEF RemotePush
<1>4. CASE RemoteConstruct(r)
  <2>1. torn' \in [Remotes -> BOOLEAN]
    BY <1>4 DEF RemoteConstruct, TypeOK, InsertingTask
  <2>2. TypeOK'
    BY <1>4, <2>1 DEF RemoteConstruct, TypeOK
  <2>3. ArgOK'
    BY <1>4 DEF RemoteConstruct, ArgOK, TypeOK
  <2> QED
    BY <1>4, <2>2, <2>3 DEF RemoteConstruct
<1>5. CASE RemoteAdvance(r)
  <2>1. /\ m_remote_tasks \in Seq(Tasks \cup {Garbage}) /\ arg[r] \in Tasks
        /\ \/ m_remote_tasks' = Append(m_remote_tasks, arg[r])
           \/ m_remote_tasks' = Append(m_remote_tasks, Garbage)
           \/ m_remote_tasks' = m_remote_tasks
    BY <1>5 DEF RemoteAdvance, AfterEmplace, TypeOK, ArgOK, Tasks
  <2>2. m_remote_tasks' \in Seq(Tasks \cup {Garbage})
    BY <2>1
  <2>3. TypeOK'
    BY <1>5, <2>2 DEF RemoteAdvance, TypeOK
  <2>4. ArgOK'
    BY <1>5 DEF RemoteAdvance, ArgOK, TypeOK
  <2> QED
    BY <1>5, <2>3, <2>4 DEF RemoteAdvance
<1> QED
  BY <1>1, <1>2, <1>3, <1>4, <1>5 DEF RemoteStep, RemoteReturns

\* Every step keeps the control facts.
LEMMA ControlStep == Control /\ [Next]_vars => Control'
<1>1. Control /\ Step => Control'
  BY UserControl, LoopControl, OuterControl, KernelControl, RemoteControl DEF Step
<1>2. ASSUME Control, UNCHANGED vars PROVE Control'
  <2> USE <1>2, ArgFrame, BatchFrame, CqFrame, StackFrame
      DEF Control, vars, ring, remote, queues, stops
  <2>1. TypeOK'
    BY DEF TypeOK
  <2> QED
    BY <2>1
<1> QED
  BY <1>1, <1>2 DEF Next


-----------------------------------------------------------------------------
(* Holders. *)

Places == {"fresh", "call", "spawn", "remote", "local", "batch", "stack", "sq",
           "kernel", "cq"}

\* What Held says of each place, now and after a step.
LEMMA HeldNow ==
    /\ DOMAIN Held = Places
    /\ Held["fresh"] = fresh /\ Held["call"] = Range(arg)
    /\ Held["spawn"] = Range(m_remote_spawn) /\ Held["remote"] = Range(m_remote_tasks)
    /\ Held["local"] = Range(m_local_tasks) /\ Held["batch"] = Range(tasks)
    /\ Held["stack"] = Range(stack) /\ Held["sq"] = Range(sq)
    /\ Held["kernel"] = inflight /\ Held["cq"] = Range(PendingCq)
BY DEF Held, Places

LEMMA HeldNext ==
    /\ DOMAIN Held' = Places
    /\ Held'["fresh"] = fresh' /\ Held'["call"] = Range(arg')
    /\ Held'["spawn"] = Range(m_remote_spawn') /\ Held'["remote"] = Range(m_remote_tasks')
    /\ Held'["local"] = Range(m_local_tasks') /\ Held'["batch"] = Range(tasks')
    /\ Held'["stack"] = Range(stack') /\ Held'["sq"] = Range(sq')
    /\ Held'["kernel"] = inflight' /\ Held'["cq"] = Range(PendingCq')
BY DEF Held, Places

\* The items of X go from place a to place b.  Those of K do not disappear.
Flow(a, b, X, K) ==
    /\ \A y \in X : y \in Held[a]
    /\ \A y \in Items, p \in Places :
           y \in Held'[p] => \/ p = a /\ y \in Held[a] /\ y \notin X
                             \/ p = b /\ (y \in Held[b] \/ y \in X)
                             \/ p \notin {a, b} /\ y \in Held[p]
    /\ \A y \in K, p \in Places :
           y \in Held[p] => y \in Held'[p] \/ (p = a /\ y \in X /\ y \in Held'[b])

\* A flow, place by place.
LEMMA FlowFrom ==
    ASSUME NEW a \in Places, NEW b \in Places, a # b,
           NEW X \in SUBSET Items, X \subseteq Held[a],
           \A y \in Items : y \in Held'[a] <=> y \in Held[a] /\ y \notin X,
           \A y \in Items : y \in Held'[b] <=> y \in Held[b] \/ y \in X,
           \A p \in Places \ {a, b} : Held'[p] = Held[p]
    PROVE  Flow(a, b, X, Items)
BY DEF Flow

\* The items of K that have a holder have one after the step.
Kept(K) ==
    \A y \in K : (\E p \in Places : y \in Held[p]) => \E p \in Places : y \in Held'[p]

\* A flow between two places keeps one holder per item, and the items of K.
LEMMA FlowKeeps ==
    ASSUME OneHolder, NEW a \in Places, NEW b \in Places, a # b, NEW X,
           NEW K \in SUBSET Items, Flow(a, b, X, K)
    PROVE  OneHolder' /\ Kept(K)
<1>1. ASSUME NEW y \in Items, NEW p \in Places, NEW s \in Places, p # s
      PROVE  ~(y \in Held[p] /\ y \in Held[s])
  BY <1>1, HeldNow DEF OneHolder
<1>2. ASSUME NEW y \in Items, NEW p \in Places, NEW s \in Places, p # s
      PROVE  ~(y \in Held'[p] /\ y \in Held'[s])
  BY <1>1, <1>2 DEF Flow
<1>3. OneHolder'
  BY <1>2, HeldNext DEF OneHolder
<1>4. ASSUME NEW y \in K, NEW p \in Places, y \in Held[p]
      PROVE  \E s \in Places : y \in Held'[s]
  BY <1>4 DEF Flow
<1> QED
  BY <1>3, <1>4 DEF Kept

\* A step that leaves the contents of every place alone.
LEMMA StandStill ==
    ASSUME OneHolder,
           \A y \in Items, p \in Places : y \in Held'[p] <=> y \in Held[p]
    PROVE  OneHolder' /\ Kept(Items)
<1>1. Flow("fresh", "call", {}, Items)
  BY DEF Flow
<1> QED
  BY <1>1, FlowKeeps DEF Places

-----------------------------------------------------------------------------
(* What each step does to the holders. *)

\* the step keeps one holder per item, and the items of K
Moves(K) == NeverTwice' /\ Kept(K)

\* An item in one place is in no other.
LEMMA Apart ==
    ASSUME OneHolder, NEW y \in Items, NEW p \in Places, NEW s \in Places,
           y \in Held[p], p # s
    PROVE  y \notin Held[s]
BY HeldNow DEF OneHolder

\* Steps of user code on the loop thread.
LEMMA UserHolders == Control /\ NeverTwice /\ UserStep => Moves(Items)
<1> SUFFICES ASSUME Control, NeverTwice, UserStep PROVE Moves(Items)
  OBVIOUS
<1> USE DEF Moves, NeverTwice, ring, remote, queues, stops
<1>1. ASSUME NEW t \in Tasks, Post(t) PROVE Moves(Items)
  <2>1. /\ m_local_tasks \in Seq(Tasks) /\ t \in Items /\ t \in fresh
        /\ m_local_tasks' = Append(m_local_tasks, t) /\ fresh' = fresh \ {t}
    BY <1>1 DEF Control, TypeOK, Post, Items
  <2>2. t \notin Range(m_local_tasks)
    BY <2>1, Apart, HeldNow DEF Places
  <2>3. /\ Range(m_local_tasks') = Range(m_local_tasks) \cup {t}
        /\ NoRepeat(m_local_tasks')
    BY <2>1, <2>2, AppendPlace DEF NoRepeats
  <2>4. PendingCq' = PendingCq
    BY <1>1 DEF Post, PendingCq
  <2>5. Flow("fresh", "local", {t}, Items)
    <3>1. {t} \in SUBSET Items /\ {t} \subseteq Held["fresh"]
      BY <1>1, <2>1, <2>3, <2>4, HeldNow, HeldNext DEF Post, Items
    <3>2. /\ \A y \in Items : y \in Held'["fresh"] <=> y \in Held["fresh"] /\ y \notin {t}
          /\ \A y \in Items : y \in Held'["local"] <=> y \in Held["local"] \/ y \in {t}
      BY <1>1, <2>1, <2>3, <2>4, HeldNow, HeldNext DEF Post
    <3>3. \A p \in Places \ {"fresh", "local"} : Held'[p] = Held[p]
      BY <1>1, <2>1, <2>3, <2>4, HeldNow, HeldNext DEF Post, Places
    <3> QED
      BY <3>1, <3>2, <3>3, FlowFrom DEF Places
  <2>6. NoRepeats'
    BY <1>1, <2>3, <2>4 DEF Post, NoRepeats
  <2> QED
    BY <2>5, <2>6, FlowKeeps DEF Places
<1>2. ASSUME NEW x \in Items, RunNow(x) PROVE Moves(Items)
  <2>1. /\ stack \in Seq(Items) /\ x \in fresh
        /\ stack' = Append(stack, x) /\ fresh' = fresh \ {x}
    BY <1>2 DEF Control, TypeOK, RunNow, Push
  <2>2. x \notin Range(stack)
    BY <2>1, Apart, HeldNow DEF Places
  <2>3. Range(stack') = Range(stack) \cup {x} /\ NoRepeat(stack')
    BY <2>1, <2>2, AppendPlace DEF NoRepeats
  <2>4. PendingCq' = PendingCq
    BY <1>2 DEF RunNow, PendingCq
  <2>5. Flow("fresh", "stack", {x}, Items)
    <3>1. {x} \in SUBSET Items /\ {x} \subseteq Held["fresh"]
      BY <1>2, <2>1, <2>3, <2>4, HeldNow, HeldNext DEF RunNow, Items
    <3>2. /\ \A y \in Items : y \in Held'["fresh"] <=> y \in Held["fresh"] /\ y \notin {x}
          /\ \A y \in Items : y \in Held'["stack"] <=> y \in Held["stack"] \/ y \in {x}
      BY <1>2, <2>1, <2>3, <2>4, HeldNow, HeldNext DEF RunNow
    <3>3. \A p \in Places \ {"fresh", "stack"} : Held'[p] = Held[p]
      BY <1>2, <2>1, <2>3, <2>4, HeldNow, HeldNext DEF RunNow, Places
    <3> QED
      BY <3>1, <3>2, <3>3, FlowFrom DEF Places
  <2>6. NoRepeats'
    BY <1>2, <2>3, <2>4 DEF RunNow, NoRepeats
  <2> QED
    BY <2>5, <2>6, FlowKeeps DEF Places
<1>3. ASSUME NEW x \in Items, Return(x) PROVE Moves(Items)
  <2>1. TypeOK /\ stack # <<>> /\ x = Top /\ stack' = Pop /\ fresh' = fresh \cup {x}
    BY <1>3 DEF Control, Return
  <2>2. /\ Range(stack) = Range(stack') \cup {x} /\ x \notin Range(stack')
        /\ NoRepeat(stack')
    BY <2>1, PopPlace DEF NoRepeats
  <2>3. PendingCq' = PendingCq
    BY <1>3 DEF Return, PendingCq
  <2>4. Flow("stack", "fresh", {x}, Items)
    <3>1. {x} \in SUBSET Items /\ {x} \subseteq Held["stack"]
      BY <1>3, <2>1, <2>2, <2>3, HeldNow, HeldNext DEF Return, Items
    <3>2. /\ \A y \in Items : y \in Held'["stack"] <=> y \in Held["stack"] /\ y \notin {x}
          /\ \A y \in Items : y \in Held'["fresh"] <=> y \in Held["fresh"] \/ y \in {x}
      BY <1>3, <2>1, <2>2, <2>3, HeldNow, HeldNext DEF Return
    <3>3. \A p \in Places \ {"stack", "fresh"} : Held'[p] = Held[p]
      BY <1>3, <2>1, <2>2, <2>3, HeldNow, HeldNext DEF Return, Places
    <3> QED
      BY <3>1, <3>2, <3>3, FlowFrom DEF Places
  <2>5. NoRepeats'
    BY <1>3, <2>2, <2>3 DEF Return, NoRepeats
  <2> QED
    BY <2>4, <2>5, FlowKeeps DEF Places
<1>4. ASSUME NEW c \in Coros, AwaitIo(c) PROVE Moves(Items)
  <2>0. PendingCq' = PendingCq
    BY <1>4 DEF AwaitIo, PendingCq
  <2>1. CASE SqFull
    <3>1. \A y \in Items, p \in Places : y \in Held'[p] <=> y \in Held[p]
      BY <1>4, <2>0, <2>1, HeldNow, HeldNext DEF AwaitIo, Places
    <3>2. NoRepeats'
      BY <1>4, <2>0, <2>1 DEF AwaitIo, NoRepeats
    <3> QED
      BY <3>1, <3>2, StandStill
  <2>2. CASE ~SqFull
    <3>1. /\ TypeOK /\ stack # <<>> /\ c = Top /\ stack' = Pop
          /\ sq \in Seq(Coros) /\ sq' = Append(sq, c) /\ c \in Items
      BY <1>4, <2>2 DEF Control, TypeOK, AwaitIo, Items
    <3>2. /\ Range(stack) = Range(stack') \cup {c} /\ c \notin Range(stack')
          /\ NoRepeat(stack')
      BY <3>1, PopPlace DEF NoRepeats
    <3>3. c \notin Range(sq)
      BY <3>1, <3>2, Apart, HeldNow DEF Places
    <3>4. Range(sq') = Range(sq) \cup {c} /\ NoRepeat(sq')
      BY <3>1, <3>3, AppendPlace DEF NoRepeats
    <3>5. Flow("stack", "sq", {c}, Items)
      <4>1. {c} \in SUBSET Items /\ {c} \subseteq Held["stack"]
        BY <1>4, <2>0, <3>1, <3>2, <3>4, HeldNow, HeldNext DEF AwaitIo, Items
      <4>2. /\ \A y \in Items : y \in Held'["stack"] <=> y \in Held["stack"] /\ y \notin {c}
            /\ \A y \in Items : y \in Held'["sq"] <=> y \in Held["sq"] \/ y \in {c}
        BY <1>4, <2>0, <3>1, <3>2, <3>4, HeldNow, HeldNext DEF AwaitIo
      <4>3. \A p \in Places \ {"stack", "sq"} : Held'[p] = Held[p]
        BY <1>4, <2>0, <3>1, <3>2, <3>4, HeldNow, HeldNext DEF AwaitIo, Places
      <4> QED
        BY <4>1, <4>2, <4>3, FlowFrom DEF Places
    <3>6. NoRepeats'
      BY <1>4, <2>0, <3>2, <3>4 DEF AwaitIo, NoRepeats
    <3> QED
      BY <3>5, <3>6, FlowKeeps DEF Places
  <2> QED
    BY <2>1, <2>2
<1> QED
  BY <1>1, <1>2, <1>3, <1>4 DEF UserStep

\* Steps of the loop that move nothing.
LEMMA QuietHolders ==
    ASSUME Control, NeverTwice,
           \/ Check \/ CqeSeen \/ CqeDone \/ SpawnCheck \/ RemoteCheck \/ WaitReturns
           \/ \E m \in Modes : Start(m)
           \/ RequestStop \/ RequestTokenStop
    PROVE  Moves(Items)
<1> USE DEF Moves, NeverTwice, ring, remote, queues, stops
<1>1. /\ PendingCq' = PendingCq
      /\ UNCHANGED <<tasks, stack, fresh, sq, inflight, arg, queues>>
  BY Zenon DEF Check, CqeSeen, CqeDone, SpawnCheck, RemoteCheck, WaitReturns, Start,
         RequestStop, RequestTokenStop, PendingCq
<1>2. \A y \in Items, p \in Places : y \in Held'[p] <=> y \in Held[p]
  BY <1>1, HeldNow, HeldNext DEF Places
<1>3. NoRepeats'
  BY <1>1 DEF NoRepeats
<1> QED
  BY <1>2, <1>3, StandStill

\* A completion resumes its coroutine.
LEMMA ResumeHolders == Control /\ NeverTwice /\ ResumeCqe => Moves(Items)
<1> SUFFICES ASSUME Control, NeverTwice, ResumeCqe PROVE Moves(Items)
  OBVIOUS
<1> USE DEF Moves, NeverTwice, ring, remote, queues, stops
<1>1. /\ cq \in Seq(Coros \cup {Null}) /\ cq # <<>> /\ stack \in Seq(Items)
      /\ PendingCq = cq /\ PendingCq' = Tail(cq)
  BY DEF Control, TypeOK, ResumeCqe, PendingCq
<1>2. /\ Head(cq) \in Coros \cup {Null} /\ Head(cq) \in Range(cq)
      /\ Range(cq) = Range(PendingCq') \cup {Head(cq)}
      /\ NoRepeat(PendingCq')
      /\ Head(cq) \in Items => Head(cq) \notin Range(PendingCq')
  BY <1>1, TailPlace DEF NoRepeats
<1>3. CASE Head(cq) = Null
  <2>1. stack' = stack /\ Head(cq) \notin Items
    BY <1>3, ItemsAssumption DEF ResumeCqe
  <2>2. \A y \in Items, p \in Places : y \in Held'[p] <=> y \in Held[p]
    <3>1. \A p \in Places \ {"cq"} : Held'[p] = Held[p]
      BY <2>1, HeldNow, HeldNext DEF ResumeCqe, Places
    <3>2. Held["cq"] = Range(PendingCq) /\ Held'["cq"] = Range(PendingCq')
      BY HeldNow, HeldNext
    <3> QED
      BY <1>1, <1>2, <2>1, <3>1, <3>2
  <2>3. NoRepeats'
    BY <1>2, <2>1 DEF ResumeCqe, NoRepeats
  <2> QED
    BY <2>2, <2>3, StandStill
<1>4. CASE Head(cq) # Null
  <2>1. Head(cq) \in Items /\ stack' = Append(stack, Head(cq))
    BY <1>2, <1>4 DEF ResumeCqe, Push, Items
  <2>2. Head(cq) \notin Range(stack)
    BY <1>1, <1>2, <2>1, Apart, HeldNow DEF Places
  <2>3. Range(stack') = Range(stack) \cup {Head(cq)} /\ NoRepeat(stack')
    BY <1>1, <2>1, <2>2, AppendPlace DEF NoRepeats
  <2>4. Flow("cq", "stack", {Head(cq)}, Items)
    <3>1. {Head(cq)} \in SUBSET Items /\ {Head(cq)} \subseteq Held["cq"]
      BY <1>1, <1>2, <2>1, <2>3, HeldNow, HeldNext DEF ResumeCqe, Items
    <3>2. /\ \A y \in Items : y \in Held'["cq"] <=> y \in Held["cq"] /\ y \notin {Head(cq)}
          /\ \A y \in Items : y \in Held'["stack"] <=> y \in Held["stack"] \/ y \in {Head(cq)}
      BY <1>1, <1>2, <2>1, <2>3, HeldNow, HeldNext DEF ResumeCqe
    <3>3. \A p \in Places \ {"cq", "stack"} : Held'[p] = Held[p]
      BY <1>1, <1>2, <2>1, <2>3, HeldNow, HeldNext DEF ResumeCqe, Places
    <3> QED
      BY <3>1, <3>2, <3>3, FlowFrom DEF Places
  <2>5. NoRepeats'
    BY <1>2, <2>3 DEF ResumeCqe, NoRepeats
  <2> QED
    BY <2>4, <2>5, FlowKeeps DEF Places
<1> QED
  BY <1>3, <1>4

\* A swap moves a whole queue into the batch.
LEMMA SwapHolders ==
    ASSUME Control, NeverTwice, SpawnSwap \/ RemoteSwap \/ LocalSwap
    PROVE  Moves(Items)
<1> USE DEF Moves, NeverTwice, ring, remote, queues, stops
<1>1. tasks = <<>> /\ PendingCq' = PendingCq
  BY DEF Control, BatchOK, BatchOnlyInLoops, AfterBatch, PendingCq, SpawnSwap,
         RemoteSwap, LocalSwap
<1>2. CASE SpawnSwap
  <2>1. Flow("spawn", "batch", Range(m_remote_spawn), Items)
    <3>1. /\ Held["batch"] = {} /\ Held'["batch"] = Held["spawn"]
          /\ Held["spawn"] = Range(m_remote_spawn) /\ Held'["spawn"] = {}
      BY <1>1, <1>2, EmptyPlace, HeldNow, HeldNext DEF SpawnSwap
    <3>2. \A p \in Places \ {"spawn", "batch"} : Held'[p] = Held[p]
      BY <1>1, <1>2, HeldNow, HeldNext DEF SpawnSwap, Places
    <3> QED
      BY <3>1, <3>2 DEF Flow
  <2>2. NoRepeats'
    BY <1>1, <1>2, EmptyPlace DEF SpawnSwap, NoRepeats
  <2> QED
    BY <2>1, <2>2, FlowKeeps DEF Places
<1>3. CASE RemoteSwap
  <2>1. Flow("remote", "batch", Range(m_remote_tasks), Items)
    <3>1. /\ Held["batch"] = {} /\ Held'["batch"] = Held["remote"]
          /\ Held["remote"] = Range(m_remote_tasks) /\ Held'["remote"] = {}
      BY <1>1, <1>3, EmptyPlace, HeldNow, HeldNext DEF RemoteSwap
    <3>2. \A p \in Places \ {"remote", "batch"} : Held'[p] = Held[p]
      BY <1>1, <1>3, HeldNow, HeldNext DEF RemoteSwap, Places
    <3> QED
      BY <3>1, <3>2 DEF Flow
  <2>2. NoRepeats'
    BY <1>1, <1>3, EmptyPlace DEF RemoteSwap, NoRepeats
  <2> QED
    BY <2>1, <2>2, FlowKeeps DEF Places
<1>4. CASE LocalSwap
  <2>1. Flow("local", "batch", Range(m_local_tasks), Items)
    <3>1. /\ Held["batch"] = {} /\ Held'["batch"] = Held["local"]
          /\ Held["local"] = Range(m_local_tasks) /\ Held'["local"] = {}
      BY <1>1, <1>4, EmptyPlace, HeldNow, HeldNext DEF LocalSwap
    <3>2. \A p \in Places \ {"local", "batch"} : Held'[p] = Held[p]
      BY <1>1, <1>4, HeldNow, HeldNext DEF LocalSwap, Places
    <3> QED
      BY <3>1, <3>2 DEF Flow
  <2>2. NoRepeats'
    BY <1>1, <1>4, EmptyPlace DEF LocalSwap, NoRepeats
  <2> QED
    BY <2>1, <2>2, FlowKeeps DEF Places
<1> QED
  BY <1>2, <1>3, <1>4

\* A task of the batch is run.
LEMMA BatchHolders == Control /\ NeverTwice /\ RunBatch => Moves(Items)
<1> SUFFICES ASSUME Control, NeverTwice, RunBatch PROVE Moves(Items)
  OBVIOUS
<1> USE DEF Moves, NeverTwice, ring, remote, queues, stops
<1>1. PendingCq' = PendingCq
  <2>1. pc \in {"spawn_run", "remote_run", "local_run"} /\ cq' = cq
    BY DEF RunBatch, AfterBatch
  <2>2. pc' \in {pc, AfterBatch[pc]}
    BY DEF RunBatch
  <2>3. AfterBatch[pc] # "cqe_seen"
    BY <2>1 DEF AfterBatch
  <2> QED
    BY <2>1, <2>2, <2>3 DEF PendingCq
<1>2. CASE tasks = <<>> \/ Head(tasks) = Garbage
  <2>1. UNCHANGED <<tasks, stack>>
    BY <1>2 DEF RunBatch
  <2>2. \A y \in Items, p \in Places : y \in Held'[p] <=> y \in Held[p]
    BY <1>1, <2>1, HeldNow, HeldNext DEF RunBatch, Places
  <2>3. NoRepeats'
    BY <1>1, <2>1 DEF RunBatch, NoRepeats
  <2> QED
    BY <2>2, <2>3, StandStill
<1>3. CASE tasks # <<>> /\ Head(tasks) # Garbage
  <2> DEFINE x == Head(tasks)
  <2>1. /\ tasks \in Seq(Items \cup {Garbage}) /\ stack \in Seq(Items)
        /\ stack' = Append(stack, x) /\ tasks' = Tail(tasks)
    BY <1>3 DEF Control, TypeOK, RunBatch, Push
  <2>2. /\ x \in Items /\ x \in Range(tasks) /\ x \notin Range(tasks')
        /\ Range(tasks) = Range(tasks') \cup {x} /\ NoRepeat(tasks')
    BY <1>3, <2>1, TailPlace DEF NoRepeats
  <2> HIDE DEF x
  <2>3. x \notin Range(stack)
    BY <2>2, Apart, HeldNow DEF Places
  <2>4. Range(stack') = Range(stack) \cup {x} /\ NoRepeat(stack')
    BY <2>1, <2>2, <2>3, AppendPlace DEF NoRepeats
  <2>5. Flow("batch", "stack", {x}, Items)
    <3>1. \A p \in Places \ {"batch", "stack"} : Held'[p] = Held[p]
      BY <1>1, HeldNow, HeldNext DEF RunBatch, Places
    <3>2. /\ \A y \in Items : y \in Held'["batch"] <=> y \in Held["batch"] /\ y \notin {x}
          /\ \A y \in Items : y \in Held'["stack"] <=> y \in Held["stack"] \/ y \in {x}
          /\ {x} \in SUBSET Items /\ {x} \subseteq Held["batch"]
      BY <2>2, <2>4, HeldNow, HeldNext
    <3> QED
      BY <3>1, <3>2, FlowFrom DEF Places
  <2>6. NoRepeats'
    BY <1>1, <2>2, <2>4 DEF RunBatch, NoRepeats
  <2> QED
    BY <2>5, <2>6, FlowKeeps DEF Places
<1> QED
  BY <1>2, <1>3

\* An exception leaves run(): the rest of the batch, which holds tasks only, is
\* gone, and everything else stays held.
LEMMA ThrowHolders ==
    ASSUME Control, NeverTwice, NEW t \in Tasks, TaskThrows(t)
    PROVE  Moves(Items \ Range(tasks)) /\ Coros \cap Range(tasks) = {}
<1> USE DEF Moves, NeverTwice, ring, remote, queues, stops
<1>1. PendingCq' = PendingCq
  BY DEF TaskThrows, PendingCq
<1>2. Range(stack) = {t} /\ t \in Items
  BY DEF TaskThrows, Range, Items
<1>3. tasks \in Seq(Tasks \cup {Garbage})
  <2>1. CASE pc = "remote_run"
    BY <2>1 DEF Control, BatchOK
  <2>2. CASE pc = "local_run"
    BY <2>2, SeqMonotonic, Tasks \subseteq Tasks \cup {Garbage} DEF Control, BatchOK
  <2> QED
    BY <2>1, <2>2 DEF TaskThrows
<1>4. \A c \in Coros : c \notin Range(tasks)
  <2>1. Range(tasks) \subseteq Tasks \cup {Garbage}
    BY <1>3, RangeOfSeq
  <2> QED
    BY <2>1, ItemsAssumption DEF Items
<1>5. Flow("stack", "fresh", {t}, Items \ Range(tasks))
  <2>1. /\ Held["stack"] = {t} /\ Held'["stack"] = {} /\ Held'["batch"] = {}
        /\ Held'["fresh"] = Held["fresh"] \cup {t}
    BY <1>2, EmptyPlace, HeldNow, HeldNext DEF TaskThrows
  <2>2. \A p \in Places \ {"stack", "fresh", "batch"} : Held'[p] = Held[p]
    BY <1>1, HeldNow, HeldNext DEF TaskThrows, Places
  <2>3. Held["batch"] = Range(tasks)
    BY HeldNow
  <2> QED
    BY <2>1, <2>2, <2>3 DEF Flow
<1>6. NoRepeats'
  BY <1>1, EmptyPlace DEF TaskThrows, NoRepeats
<1> QED
  BY <1>4, <1>5, <1>6, FlowKeeps DEF Places

\* Submitting moves every filled entry to the kernel.
LEMMA SubmitHolders ==
    ASSUME Control, NeverTwice, SubmitAndWait \/ PollSubmit
    PROVE  Moves(Items)
<1> USE DEF Moves, NeverTwice, ring, remote, queues, stops
<1>1. /\ PendingCq' = PendingCq
      /\ UNCHANGED <<tasks, stack, fresh, arg, queues>>
  BY DEF SubmitAndWait, PollSubmit, PendingCq
<1>2. CASE SubmitAndWait /\ SqFull
  <2>1. \A y \in Items, p \in Places : y \in Held'[p] <=> y \in Held[p]
    BY <1>1, <1>2, HeldNow, HeldNext DEF SubmitAndWait, Places
  <2>2. NoRepeats'
    BY <1>1, <1>2 DEF SubmitAndWait, NoRepeats
  <2> QED
    BY <2>1, <2>2, StandStill
<1>3. CASE PollSubmit \/ ~SqFull
  <2>1. inflight' = inflight \cup Range(sq) /\ sq' = <<>>
    BY <1>3 DEF SubmitAndWait, PollSubmit
  <2>2. Flow("sq", "kernel", Range(sq), Items)
    <3>1. /\ Held["sq"] = Range(sq) /\ Held'["sq"] = {}
          /\ Held'["kernel"] = Held["kernel"] \cup Range(sq)
      BY <2>1, EmptyPlace, HeldNow, HeldNext
    <3>2. \A p \in Places \ {"sq", "kernel"} : Held'[p] = Held[p]
      BY <1>1, HeldNow, HeldNext DEF Places
    <3> QED
      BY <3>1, <3>2 DEF Flow
  <2>3. NoRepeats'
    BY <1>1, <2>1, EmptyPlace DEF NoRepeats
  <2> QED
    BY <2>2, <2>3, FlowKeeps DEF Places
<1> QED
  BY <1>2, <1>3

\* Completions.
LEMMA KernelHolders ==
    ASSUME Control, NeverTwice, TimerFires \/ \E c \in Coros : Complete(c)
    PROVE  Moves(Items)
<1> USE DEF Moves, NeverTwice, ring, remote, queues, stops
<1>1. cq \in Seq(Coros \cup {Null}) /\ (pc = "cqe_seen" => cq # <<>>)
  BY DEF Control, TypeOK, CqOK
<1>2. PendingCq \in Seq(Coros \cup {Null})
  BY <1>1, HeadTailProperties DEF PendingCq
<1>3. ASSUME NEW x, cq' = Append(cq, x), pc' = pc
      PROVE  PendingCq' = Append(PendingCq, x)
  BY <1>1, <1>3, HeadTailAppend DEF PendingCq
<1>4. CASE TimerFires
  <2>1. PendingCq' = Append(PendingCq, Null)
    BY <1>3, <1>4 DEF TimerFires
  <2>2. Range(PendingCq') = Range(PendingCq) \cup {Null} /\ Null \notin Items
    BY <1>2, <2>1, AppendPlace, ItemsAssumption
  <2>3. NoRepeat(PendingCq')
    BY <1>2, <2>1, <2>2, AppendGarbage DEF NoRepeats
  <2>4. \A y \in Items, p \in Places : y \in Held'[p] <=> y \in Held[p]
    <3>1. \A p \in Places \ {"cq"} : Held'[p] = Held[p]
      BY <1>4, HeldNow, HeldNext DEF TimerFires, Places
    <3>2. \A y \in Items : y \in Held'["cq"] <=> y \in Held["cq"]
      BY <2>2, HeldNow, HeldNext
    <3> QED
      BY <3>1, <3>2
  <2>5. NoRepeats'
    BY <1>4, <2>3 DEF TimerFires, NoRepeats
  <2> QED
    BY <2>4, <2>5, StandStill
<1>5. ASSUME NEW c \in Coros, Complete(c) PROVE Moves(Items)
  <2>1. /\ PendingCq' = Append(PendingCq, c) /\ c \in inflight /\ c \in Items
        /\ inflight' = inflight \ {c}
    BY <1>3, <1>5 DEF Complete, Items
  <2>2. c \notin Range(PendingCq)
    BY <2>1, Apart, HeldNow DEF Places
  <2>3. Range(PendingCq') = Range(PendingCq) \cup {c} /\ NoRepeat(PendingCq')
    BY <1>2, <2>1, <2>2, AppendPlace DEF NoRepeats
  <2>4. Flow("kernel", "cq", {c}, Items)
    <3>1. {c} \in SUBSET Items /\ {c} \subseteq Held["kernel"]
      BY <1>5, <2>1, <2>3, HeldNow, HeldNext DEF Complete, Items
    <3>2. /\ \A y \in Items : y \in Held'["kernel"] <=> y \in Held["kernel"] /\ y \notin {c}
          /\ \A y \in Items : y \in Held'["cq"] <=> y \in Held["cq"] \/ y \in {c}
      BY <2>1, <2>3, HeldNow, HeldNext
    <3>3. \A p \in Places \ {"kernel", "cq"} : Held'[p] = Held[p]
      BY <1>5, <2>1, <2>3, HeldNow, HeldNext DEF Complete, Places
    <3> QED
      BY <3>1, <3>2, <3>3, FlowFrom DEF Places
  <2>5. NoRepeats'
    BY <1>5, <2>3 DEF Complete, NoRepeats
  <2> QED
    BY <2>4, <2>5, FlowKeeps DEF Places
<1> QED
  BY <1>4, <1>5

\* A remote thread's argument leaves fresh when its call begins ...
LEMMA CallBegins ==
    ASSUME Control, NeverTwice, NEW r \in Remotes, NEW x \in Items, x \in fresh,
           rpc[r] = "idle", fresh' = fresh \ {x}, arg' = [arg EXCEPT ![r] = x],
           UNCHANGED <<pc, cq, tasks, stack, sq, inflight, queues>>
    PROVE  Moves(Items)
<1> USE DEF Moves, NeverTwice, queues
<1>1. PendingCq' = PendingCq
  BY DEF PendingCq
<1>2. /\ arg \in [Remotes -> Items \cup {Null}] /\ arg[r] = Null /\ Null \notin Items
      /\ arg' \in [Remotes -> Items \cup {Null}] /\ arg'[r] = x
      /\ \A s \in Remotes \ {r} : arg'[s] = arg[s]
  <2>1. arg \in [Remotes -> Items \cup {Null}] /\ arg[r] = Null
    BY DEF Control, TypeOK, ArgOK
  <2> QED
    BY <2>1, ItemsAssumption
<1>3. x \notin Range(arg)
  BY Apart, HeldNow DEF Places
<1>4. \A y \in Items : y \in Range(arg') <=> y \in Range(arg) \/ y = x
  BY <1>2 DEF Range
<1>5. NoRepeat(arg')
  <2> SUFFICES ASSUME NEW i \in Remotes, NEW j \in Remotes, arg'[i] = arg'[j],
                      arg'[i] \in Items
               PROVE  i = j
    BY <1>2 DEF NoRepeat
  <2> QED
    BY <1>2, <1>3 DEF NoRepeats, NoRepeat, Range
<1>6. Flow("fresh", "call", {x}, Items)
  <2>1. \A p \in Places \ {"fresh", "call"} : Held'[p] = Held[p]
    BY <1>1, HeldNow, HeldNext DEF Places
  <2>2. \A y \in Items : y \in Held'["fresh"] <=> y \in Held["fresh"] /\ y \notin {x}
    BY HeldNow, HeldNext
  <2>3. \A y \in Items : y \in Held'["call"] <=> y \in Held["call"] \/ y \in {x}
    BY <1>4, HeldNow, HeldNext, Zenon
  <2>4. {x} \in SUBSET Items /\ {x} \subseteq Held["fresh"]
    BY HeldNow
  <2> QED
    BY <2>1, <2>2, <2>3, <2>4, FlowFrom DEF Places
<1>7. NoRepeats'
  BY <1>1, <1>5 DEF NoRepeats
<1> QED
  BY <1>6, <1>7, FlowKeeps DEF Places

\* ... and the call's argument is given up when it ends.
LEMMA ArgEnds ==
    ASSUME Control, NeverTwice, NEW r \in Remotes, rpc[r] # "idle",
           arg' = [arg EXCEPT ![r] = Null]
    PROVE  /\ arg[r] \in Items /\ arg[r] \in Range(arg) /\ NoRepeat(arg')
           /\ \A y \in Items : y \in Range(arg') <=> y \in Range(arg) /\ y # arg[r]
<1> USE DEF Moves, NeverTwice, NoRepeats
<1>1. /\ arg \in [Remotes -> Items \cup {Null}] /\ Null \notin Items
      /\ arg' \in [Remotes -> Items \cup {Null}] /\ arg'[r] = Null
      /\ \A s \in Remotes \ {r} : arg'[s] = arg[s]
  BY ItemsAssumption DEF Control, TypeOK
<1>2. arg[r] \in Items
  BY DEF Control, TypeOK, ArgOK, Items, Tasks
<1>3. arg[r] \in Range(arg)
  BY <1>1 DEF Range
<1>4. NoRepeat(arg')
  BY <1>1 DEF NoRepeat
<1>5. ASSUME NEW y \in Items, y \in Range(arg') PROVE y \in Range(arg) /\ y # arg[r]
  <2>1. PICK s \in Remotes : arg'[s] = y
    BY <1>1, <1>5 DEF Range
  <2>2. s # r /\ arg[s] = y
    BY <1>1, <2>1
  <2> QED
    BY <1>1, <1>2, <2>2 DEF Range, NoRepeat
<1>6. ASSUME NEW y \in Items, y \in Range(arg), y # arg[r] PROVE y \in Range(arg')
  <2>1. PICK s \in Remotes : arg[s] = y
    BY <1>1, <1>6 DEF Range
  <2> QED
    BY <1>1, <1>6, <2>1 DEF Range
<1> QED
  BY <1>2, <1>3, <1>4, <1>5, <1>6, Zenon

\* emplace_back ends.  Only one that another thread's access overlapped can drop
\* the task it was called with.
LEMMA AdvanceHolders ==
    ASSUME Control, NeverTwice, NEW r \in Remotes, RemoteAdvance(r)
    PROVE  Moves({y \in Items : ~(torn[r] /\ y = arg[r])})
<1> USE DEF Moves, NeverTwice, ring, remote, queues, stops
<1> DEFINE x == arg[r]
           K == {y \in Items : ~(torn[r] /\ y = x)}
<1>0. PendingCq' = PendingCq /\ rpc[r] # "idle" /\ arg' = [arg EXCEPT ![r] = Null]
  BY DEF RemoteAdvance, PendingCq
<1>1. /\ x \in Items /\ x \in Range(arg) /\ NoRepeat(arg')
      /\ \A y \in Items : y \in Range(arg') <=> y \in Range(arg) /\ y # x
  BY <1>0, ArgEnds, Zenon
<1>2. /\ m_remote_tasks \in Seq(Tasks \cup {Garbage}) /\ x \in Tasks
      /\ \/ m_remote_tasks' = Append(m_remote_tasks, x)
         \/ m_remote_tasks' = Append(m_remote_tasks, Garbage)
         \/ m_remote_tasks' = m_remote_tasks
      /\ ~torn[r] => m_remote_tasks' = Append(m_remote_tasks, x)
  BY DEF RemoteAdvance, AfterEmplace, Control, TypeOK, ArgOK, Tasks
<1> HIDE DEF x
<1>3. x \notin Range(m_remote_tasks) /\ NoRepeat(m_remote_tasks)
  BY <1>1, Apart, HeldNow DEF Places, NoRepeats
<1>4. /\ Range(m_remote_tasks') \subseteq Range(m_remote_tasks) \cup {x, Garbage}
      /\ Range(m_remote_tasks) \subseteq Range(m_remote_tasks')
      /\ NoRepeat(m_remote_tasks')
      /\ ~torn[r] => x \in Range(m_remote_tasks')
  <2>1. CASE m_remote_tasks' = Append(m_remote_tasks, x)
    BY <1>2, <1>3, <2>1, AppendPlace
  <2>2. CASE torn[r] /\ m_remote_tasks' = Append(m_remote_tasks, Garbage)
    BY <1>2, <1>3, <2>2, AppendPlace, AppendGarbage, ItemsAssumption
  <2>3. CASE torn[r] /\ m_remote_tasks' = m_remote_tasks
    BY <1>3, <2>3
  <2> QED
    BY <1>2, <2>1, <2>2, <2>3
<1>5. \A p \in Places \ {"call", "remote"} : Held'[p] = Held[p]
  BY <1>0, HeldNow, HeldNext DEF RemoteAdvance, Places
<1>6. Flow("call", "remote", {x}, K)
  <2>1. ASSUME NEW y \in Items, y \in Held'["remote"] PROVE y \in Held["remote"] \/ y = x
    BY <1>4, <2>1, ItemsAssumption, HeldNow, HeldNext
  <2>2. ASSUME NEW y \in K, y \in Held["call"]
        PROVE  y \in Held'["call"] \/ y \in Held'["remote"]
    BY <1>1, <1>4, <2>2, HeldNow, HeldNext
  <2>3. ASSUME NEW y \in Items, y \in Held["remote"] PROVE y \in Held'["remote"]
    BY <1>4, <2>3, HeldNow, HeldNext
  <2> QED
    BY <1>1, <1>5, <2>1, <2>2, <2>3, HeldNow, HeldNext DEF Flow
<1>7. NoRepeats'
  BY <1>0, <1>1, <1>4 DEF RemoteAdvance, NoRepeats
<1>8. K \in SUBSET Items
  OBVIOUS
<1> HIDE DEF K
<1>9. Moves(K)
  BY <1>6, <1>7, <1>8, FlowKeeps DEF Places
<1> QED
  BY <1>9 DEF K, x

\* The other steps of the other threads.
LEMMA RemoteHolders ==
    ASSUME Control, NeverTwice, NEW r \in Remotes, RemoteStep(r), ~RemoteAdvance(r)
    PROVE  Moves(Items)
<1> USE DEF ring, remote, queues, stops
<1>1. ASSUME NEW c \in Coros, RemoteCoSpawn(r, c) PROVE Moves(Items)
  BY <1>1, CallBegins, Zenon DEF RemoteCoSpawn, Items
<1>2. ASSUME NEW t \in Tasks, RemotePost(r, t) PROVE Moves(Items)
  BY <1>2, CallBegins, Zenon DEF RemotePost, Items
<1> USE DEF Moves, NeverTwice
<1>3. CASE RemotePush(r)
  <2> DEFINE x == arg[r]
  <2>0. PendingCq' = PendingCq /\ rpc[r] # "idle" /\ arg' = [arg EXCEPT ![r] = Null]
    BY <1>3 DEF RemotePush, PendingCq
  <2>1. /\ x \in Items /\ x \in Range(arg) /\ NoRepeat(arg')
        /\ \A y \in Items : y \in Range(arg') <=> y \in Range(arg) /\ y # x
    BY <2>0, ArgEnds, Zenon
  <2>2. /\ m_remote_spawn \in Seq(Coros) /\ x \in Coros
        /\ m_remote_spawn' = Append(m_remote_spawn, x)
    BY <1>3 DEF RemotePush, Control, TypeOK, ArgOK
  <2> HIDE DEF x
  <2>3. x \notin Range(m_remote_spawn)
    BY <2>1, Apart, HeldNow DEF Places
  <2>4. /\ Range(m_remote_spawn') = Range(m_remote_spawn) \cup {x}
        /\ NoRepeat(m_remote_spawn')
    BY <2>2, <2>3, AppendPlace DEF NoRepeats
  <2>5. Flow("call", "spawn", {x}, Items)
    <3>1. \A p \in Places \ {"call", "spawn"} : Held'[p] = Held[p]
      BY <1>3, <2>0, HeldNow, HeldNext DEF RemotePush, Places
    <3>2. /\ \A y \in Items : y \in Held'["call"] <=> y \in Held["call"] /\ y \notin {x}
          /\ \A y \in Items : y \in Held'["spawn"] <=> y \in Held["spawn"] \/ y \in {x}
          /\ {x} \in SUBSET Items /\ {x} \subseteq Held["call"]
      BY <2>1, <2>4, HeldNow, HeldNext
    <3> QED
      BY <3>1, <3>2, FlowFrom DEF Places
  <2>6. NoRepeats'
    BY <1>3, <2>0, <2>1, <2>4 DEF RemotePush, NoRepeats
  <2> QED
    BY <2>5, <2>6, FlowKeeps DEF Places
<1>4. CASE RemoteConstruct(r)
  <2>1. /\ PendingCq' = PendingCq
        /\ UNCHANGED <<tasks, stack, fresh, sq, inflight, arg, queues>>
    BY <1>4 DEF RemoteConstruct, PendingCq
  <2>2. \A y \in Items, p \in Places : y \in Held'[p] <=> y \in Held[p]
    BY <2>1, HeldNow, HeldNext DEF Places
  <2>3. NoRepeats'
    BY <2>1 DEF NoRepeats
  <2> QED
    BY <2>2, <2>3, StandStill
<1> QED
  BY <1>1, <1>2, <1>3, <1>4 DEF RemoteStep, RemoteReturns

\* The two ways to drop an item: the exception of a task destroys the rest of
\* the batch, and an emplace_back that was overlapped ends without its element.
Drops(y) ==
    \/ (\E t \in Tasks : TaskThrows(t)) /\ y \in Range(tasks)
    \/ \E r \in Remotes : RemoteAdvance(r) /\ torn[r] /\ y = arg[r]

\* What is dropped is a task, never a coroutine.
LEMMA OnlyTasksDrop ==
    ASSUME Control, NeverTwice, NEW c \in Coros
    PROVE  ~Drops(c)
<1>1. ASSUME NEW t \in Tasks, TaskThrows(t) PROVE c \notin Range(tasks)
  BY <1>1, ThrowHolders
<1>2. ASSUME NEW r \in Remotes, RemoteAdvance(r) PROVE c # arg[r]
  BY <1>2, ItemsAssumption DEF RemoteAdvance, Control, ArgOK, Tasks
<1> QED
  BY <1>1, <1>2 DEF Drops

\* Every step keeps one holder per item, and everything held that it does not drop.
LEMMA HoldersStep ==
    ASSUME Control, NeverTwice, [Next]_vars
    PROVE  Moves({y \in Items : ~Drops(y)})
<1> DEFINE K == {y \in Items : ~Drops(y)}
<1> SUFFICES Moves(K)
  OBVIOUS
<1>0. ASSUME NEW J \in SUBSET Items, Moves(J), K \subseteq J PROVE Moves(K)
  BY <1>0 DEF Moves, Kept
<1>1. CASE LoopStep
  BY <1>0, <1>1, QuietHolders, ResumeHolders, SwapHolders, BatchHolders, SubmitHolders
     DEF LoopStep
<1>2. ASSUME NEW t \in Tasks, TaskThrows(t) PROVE Moves(K)
  <2>1. K \subseteq Items \ Range(tasks)
    BY <1>2 DEF Drops
  <2> QED
    BY <1>0, <1>2, <2>1, ThrowHolders
<1>3. ASSUME NEW r \in Remotes, RemoteAdvance(r) PROVE Moves(K)
  <2> DEFINE J == {y \in Items : ~(torn[r] /\ y = arg[r])}
  <2>1. K \subseteq J /\ J \in SUBSET Items
    BY <1>3 DEF Drops
  <2>2. Moves(J)
    BY <1>3, AdvanceHolders
  <2> HIDE DEF J, K
  <2> QED
    BY <1>0, <2>1, <2>2
<1>4. ASSUME NEW r \in Remotes, RemoteStep(r), ~RemoteAdvance(r) PROVE Moves(K)
  BY <1>0, <1>4, RemoteHolders
<1>5. CASE Step /\ ~LoopStep /\ ~(\E t \in Tasks : TaskThrows(t))
           /\ ~(\E r \in Remotes : RemoteStep(r))
  BY <1>0, <1>5, UserHolders, QuietHolders, KernelHolders DEF Step
<1>6. CASE UNCHANGED vars
  <2>1. /\ PendingCq' = PendingCq
        /\ UNCHANGED <<tasks, stack, fresh, sq, inflight, arg, queues>>
    BY <1>6 DEF vars, ring, remote, queues, stops, PendingCq
  <2>2. \A y \in Items, p \in Places : y \in Held'[p] <=> y \in Held[p]
    BY <2>1, HeldNow, HeldNext DEF Places, queues
  <2>3. NoRepeats'
    BY <2>1 DEF NoRepeats, queues, NeverTwice
  <2>4. Moves(Items)
    BY <2>2, <2>3, StandStill DEF Moves, NeverTwice
  <2> QED
    BY <1>0, <2>4
<1> HIDE DEF K
<1>7. CASE Step
  BY <1>1, <1>2, <1>3, <1>4, <1>5, <1>7, Zenon
<1> QED
  BY <1>6, <1>7 DEF Next
=============================================================================
