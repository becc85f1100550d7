---------------------------- MODULE FutureProofs ----------------------------
(***************************************************************************)
(* Proofs about Future and SyncWait, for chains of every depth.            *)
(***************************************************************************)
EXTENDS SyncWait, TLAPS

\* The initial states of a chain of lazy coroutines satisfy the invariant.
LEMMA InitIInv == Init => IInv
<1> SUFFICES ASSUME Init PROVE IInv
  OBVIOUS
<1> USE DepthAssumption DEF Init, Coroutines, Futures
<1>1. TypeOK
  BY DEF TypeOK, States, Outcomes, Null
<1>2. ~first[0] /\ st[0] = "active" /\ st[Depth] \in {"active", "lazy"}
  OBVIOUS
<1>3. ASSUME NEW k \in Futures PROVE Link(k)
  <2>1. /\ k \in Coroutines /\ k - 1 \in Coroutines
        /\ st[k] = "lazy" /\ st[k - 1] \in {"active", "lazy"}
        /\ ~first[k] /\ got[k - 1] = "none" /\ m_result[k] = "none" /\ ~m_state[k]
    BY <1>3
  <2> QED
    BY <2>1 DEF Link, Awaiting, Unfinished
<1> QED
  BY <1>1, <1>2, <1>3 DEF IInv, Awaiting

\* Types are preserved by every step of a coroutine.
LEMMA TypeStep ==
    ASSUME IInv, NEW k \in Coroutines, Step(k)
    PROVE  TypeOK'
<1> USE DepthAssumption DEF IInv, TypeOK, Coroutines, Futures, States, Outcomes, Null
<1>1. CASE Await(k)
  BY <1>1 DEF Await
<1>2. CASE Suspend(k)
  BY <1>2 DEF Suspend, GivesBack
<1>3. CASE OpDone(k)
  BY <1>3 DEF OpDone
<1>4. CASE StoreContinuation(k)
  BY <1>4 DEF StoreContinuation
<1>5. CASE ExchangeAwaiter(k)
  <2>1. k + 1 \in Futures
    BY <1>5 DEF ExchangeAwaiter, Awaiting
  <2>2. CASE m_state[k + 1]
    BY <1>5, <2>1, <2>2 DEF ExchangeAwaiter
  <2>3. CASE ~m_state[k + 1]
    BY <1>5, <2>1, <2>3 DEF ExchangeAwaiter, GivesBack
  <2> QED
    BY <2>2, <2>3
<1>6. ASSUME NEW r \in Outcomes, Finish(k, r) PROVE TypeOK'
  BY <1>6 DEF Finish
<1>7. CASE ExchangeFinal(k)
  BY <1>7 DEF ExchangeFinal, GivesBack
<1>8. CASE ResumeContinuation(k)
  BY <1>8 DEF ResumeContinuation, Link
<1>9. CASE Destroy(k)
  BY <1>9 DEF Destroy
<1> QED
  BY <1>1, <1>2, <1>3, <1>4, <1>5, <1>6, <1>7, <1>8, <1>9 DEF Step

\* The relation between the two sides of each promise is preserved by every
\* step of a coroutine: its own, the one it awaits and the one awaiting it.
LEMMA LinkStep ==
    ASSUME IInv, NEW k \in Coroutines, Step(k), NEW j \in Futures
    PROVE  Link(j)'
<1> USE DepthAssumption DEF IInv, TypeOK, Coroutines, Futures, States, Outcomes,
        Awaiting, Unfinished
<1>0. Link(j) /\ j - 1 \in Coroutines /\ j \in Coroutines
  OBVIOUS
<1>1. CASE Await(k)
  <2>1. k + 1 \in Futures /\ Link(k + 1)
    BY <1>1 DEF Await
  <2>2. CASE j = k + 1
    BY <1>1, <2>1, <2>2 DEF Await, Link
  <2>3. CASE j = k
    BY <1>0, <1>1, <2>1, <2>3 DEF Await, Link
  <2>4. CASE j \notin {k, k + 1}
    BY <1>0, <1>1, <2>1, <2>4 DEF Await, Link
  <2> QED
    BY <2>2, <2>3, <2>4
<1>2. CASE Suspend(k)
  <2>1. CASE j = k
    BY <1>0, <1>2, <2>1 DEF Suspend, GivesBack, Link
  <2>2. CASE j # k /\ first[k]
    <3>1. k \in Futures /\ Link(k)
      BY <2>2
    <3>2. CASE j = k - 1
      BY <1>0, <1>2, <2>2, <3>1, <3>2 DEF Suspend, GivesBack, Link
    <3>3. CASE j # k - 1
      BY <1>0, <1>2, <2>2, <3>1, <3>3 DEF Suspend, GivesBack, Link
    <3> QED
      BY <3>2, <3>3
  <2>3. CASE j # k /\ ~first[k]
    BY <1>0, <1>2, <2>3 DEF Suspend, GivesBack, Link
  <2> QED
    BY <2>1, <2>2, <2>3
<1>3. CASE OpDone(k)
  BY <1>0, <1>3 DEF OpDone, Link
<1>4. CASE StoreContinuation(k)
  BY <1>0, <1>4 DEF StoreContinuation, Link
<1>5. CASE ExchangeAwaiter(k)
  <2>1. k + 1 \in Futures
    BY <1>5 DEF ExchangeAwaiter
  <2>2. CASE m_state[k + 1]
    BY <1>0, <1>5, <2>1, <2>2 DEF ExchangeAwaiter, Link
  <2>3. CASE ~m_state[k + 1]
    BY <1>0, <1>5, <2>1, <2>3 DEF ExchangeAwaiter, GivesBack, Link
  <2> QED
    BY <2>2, <2>3
<1>6. ASSUME NEW r \in Outcomes, Finish(k, r) PROVE Link(j)'
  BY <1>0, <1>6 DEF Finish, Link
<1>7. CASE ExchangeFinal(k)
  <2>1. Link(k) /\ k \in Futures
    BY <1>7 DEF ExchangeFinal
  <2>2. CASE m_state[k]
    BY <1>0, <1>7, <2>1, <2>2 DEF ExchangeFinal, Link
  <2>3. CASE ~m_state[k] /\ j = k
    BY <1>7, <2>1, <2>3 DEF ExchangeFinal, GivesBack, Link
  <2>4. CASE ~m_state[k] /\ j # k
    BY <1>0, <1>7, <2>1, <2>4 DEF ExchangeFinal, GivesBack, Link
  <2> QED
    BY <2>2, <2>3, <2>4
<1>8. CASE ResumeContinuation(k)
  <2>1. Link(k) /\ m_continuation[k] = k - 1 /\ st[k - 1] = "parked"
    BY <1>8 DEF ResumeContinuation, Link
  <2>2. /\ k \in Futures /\ k - 1 \in Coroutines
        /\ st' = [st EXCEPT ![k] = "final", ![k - 1] = "active"]
        /\ got' = [got EXCEPT ![k - 1] = m_result[k]]
        /\ UNCHANGED <<first, m_state, m_continuation, m_result>>
    BY <1>8, <2>1 DEF ResumeContinuation
  <2>3. CASE j = k
    BY <1>0, <1>8, <2>1, <2>2, <2>3 DEF ResumeContinuation, Link
  <2>4. CASE j = k - 1
    BY <1>0, <2>1, <2>2, <2>4 DEF Link
  <2>5. CASE j = k + 1
    BY <1>0, <1>8, <2>1, <2>2, <2>5 DEF ResumeContinuation, Link
  <2>6. CASE j \notin {k - 1, k, k + 1}
    BY <1>0, <2>1, <2>2, <2>6 DEF Link
  <2> QED
    BY <2>3, <2>4, <2>5, <2>6
<1>9. CASE Destroy(k)
  BY <1>0, <1>9 DEF Destroy, Link
<1> QED
  BY <1>1, <1>2, <1>3, <1>4, <1>5, <1>6, <1>7, <1>8, <1>9 DEF Step

\* The two ends of the chain: nobody awaits coroutine 0, and the last one awaits
\* no future.
LEMMA EndsStep ==
    ASSUME IInv, NEW k \in Coroutines, Step(k)
    PROVE  /\ ~first'[0] /\ st'[0] \notin {"lazy", "return", "wake", "dead"}
           /\ st'[Depth] \notin Awaiting
<1> USE DepthAssumption DEF IInv, TypeOK, Coroutines, Futures, States, Outcomes,
        Awaiting
<1>1. CASE Await(k)
  BY <1>1 DEF Await
<1>2. CASE Suspend(k)
  BY <1>2 DEF Suspend, GivesBack
<1>3. CASE OpDone(k)
  BY <1>3 DEF OpDone
<1>4. CASE StoreContinuation(k)
  BY <1>4 DEF StoreContinuation
<1>5. CASE ExchangeAwaiter(k)
  <2>1. k # Depth
    BY <1>5 DEF ExchangeAwaiter
  <2>2. CASE m_state[k + 1]
    BY <1>5, <2>1, <2>2 DEF ExchangeAwaiter
  <2>3. CASE ~m_state[k + 1]
    BY <1>5, <2>1, <2>3 DEF ExchangeAwaiter, GivesBack
  <2> QED
    BY <2>2, <2>3
<1>6. ASSUME NEW r \in Outcomes, Finish(k, r)
      PROVE  /\ ~first'[0] /\ st'[0] \notin {"lazy", "return", "wake", "dead"}
             /\ st'[Depth] \notin Awaiting
  BY <1>6 DEF Finish
<1>7. CASE ExchangeFinal(k)
  BY <1>7 DEF ExchangeFinal, GivesBack
<1>8. CASE ResumeContinuation(k)
  <2>1. m_continuation[k] = k - 1
    BY <1>8 DEF ResumeContinuation, Link
  <2> QED
    BY <1>8, <2>1 DEF ResumeContinuation
<1>9. CASE Destroy(k)
  BY <1>9 DEF Destroy
<1> QED
  BY <1>1, <1>2, <1>3, <1>4, <1>5, <1>6, <1>7, <1>8, <1>9 DEF Step

\* Every step preserves the invariant.
LEMMA NextIInv == IInv /\ [Next]_vars => IInv'
<1> SUFFICES ASSUME IInv, [Next]_vars PROVE IInv'
  OBVIOUS
<1>1. ASSUME NEW k \in Coroutines, Step(k) PROVE IInv'
  BY <1>1, TypeStep, LinkStep, EndsStep DEF IInv, Futures
<1>2. CASE FinishRoot
  <2> USE <1>2, DepthAssumption DEF FinishRoot, IInv, TypeOK, Coroutines, Futures
  <2>1. TypeOK'
    BY DEF States
  <2>2. ~first'[0] /\ st'[0] = "final" /\ st'[Depth] \notin Awaiting
    BY DEF Awaiting
  <2>3. ASSUME NEW j \in Futures PROVE Link(j)'
    <3>1. Link(j) /\ j \in Coroutines /\ j - 1 \in Coroutines
      BY <2>3
    <3> QED
      BY <3>1 DEF Link, Awaiting, Unfinished
  <2> QED
    BY <2>1, <2>2, <2>3
<1>3. CASE UNCHANGED vars
  BY <1>3 DEF vars, IInv, TypeOK, Link
<1> QED
  BY <1>1, <1>2, <1>3 DEF Next, Done

\* The relation between the two sides of every promise always holds.
THEOREM HandshakeInvariant == Spec => []IInv
BY InitIInv, NextIInv, PTL DEF Spec

\* The type invariant of the chain.
THEOREM TypeCorrect == Spec => []TypeOK
<1>1. IInv => TypeOK
  BY DEF IInv
<1> QED
  BY <1>1, HandshakeInvariant, PTL

\* The two exchanges of m_state let exactly one side continue the awaiter: it is
\* resumed only while suspended, it never waits for a coroutine that has
\* finished, and it gets the result of one that is over.
THEOREM HandshakeCorrect == Spec => []HandshakeSafe
<1>1. IInv => ResumesOnlySuspended
  BY DEF IInv, Link, ResumesOnlySuspended
<1>2. IInv => NoLostWakeup
  BY DEF IInv, Link, NoLostWakeup, Awaiting
<1>3. IInv => ResultBeforeResume
  BY DEF IInv, Link, ResultBeforeResume
<1>4. IInv => HandshakeSafe
  BY <1>1, <1>2, <1>3 DEF HandshakeSafe
<1> QED
  BY <1>4, HandshakeInvariant, PTL

\* A coroutine is destroyed at rest, and its promise is not touched afterwards.
LEMMA FrameKept ==
    ASSUME IInv, NEW k \in Coroutines, Step(k), NEW j \in Futures
    PROVE  FrameStep(j)
<1> USE DepthAssumption DEF IInv, TypeOK, Coroutines, Futures
<1>0. Link(j) /\ (k \in Futures => Link(k)) /\ (k + 1 \in Futures => Link(k + 1))
  OBVIOUS
<1>1. CASE Await(k)
  BY <1>1 DEF Await, FrameStep
<1>a. ASSUME NEW s \in {"op", "parked", "final"}, GivesBack(k, s), st[k] # "dead",
             UNCHANGED <<m_continuation, m_result>>,
             j # k => m_state'[j] = m_state[j] \/ st[j] # "dead"
      PROVE  FrameStep(j)
  <2>1. first[k] => k \in Futures /\ st[k - 1] = "await"
    BY DEF Link
  <2>2. st'[j] = IF j = k THEN s ELSE IF first[k] /\ j = k - 1 THEN "back" ELSE st[j]
    BY <1>a DEF GivesBack
  <2> QED
    BY <1>a, <2>1, <2>2 DEF FrameStep
<1>2. CASE Suspend(k)
  BY <1>2, <1>a DEF Suspend
<1>3. CASE OpDone(k)
  BY <1>3 DEF OpDone, FrameStep
<1>4. CASE StoreContinuation(k)
  <2>1. st[k] = "back" /\ k + 1 \in Futures /\ k + 1 - 1 = k /\ Link(k + 1)
    BY <1>0, <1>4 DEF StoreContinuation, Awaiting
  <2>2. st[k + 1] # "dead"
    BY <2>1 DEF Link, Awaiting
  <2> QED
    BY <1>4, <2>1, <2>2 DEF StoreContinuation, FrameStep
<1>5. CASE ExchangeAwaiter(k)
  <2>1. st[k] = "stored" /\ k + 1 \in Futures /\ k + 1 - 1 = k /\ Link(k + 1)
    BY <1>0, <1>5 DEF ExchangeAwaiter, Awaiting
  <2>2. st[k + 1] # "dead"
    BY <2>1 DEF Link, Awaiting
  <2>3. /\ m_state' = [m_state EXCEPT ![k + 1] = TRUE]
        /\ UNCHANGED <<m_continuation, m_result>>
        /\ st' = [st EXCEPT ![k] = "active"] \/ GivesBack(k, "parked")
    BY <1>5 DEF ExchangeAwaiter
  <2>4. j # k + 1 => m_state'[j] = m_state[j]
    BY <2>3
  <2>5. CASE st' = [st EXCEPT ![k] = "active"]
    <3>1. st'[j] = IF j = k THEN "active" ELSE st[j]
      BY <2>5
    <3>2. /\ st[j] = "dead" => j # k /\ m_state'[j] = m_state[j]
          /\ m_continuation'[j] = m_continuation[j] /\ m_result'[j] = m_result[j]
      BY <2>1, <2>2, <2>3, <2>4
    <3> QED
      BY <3>1, <3>2 DEF FrameStep
  <2>6. CASE GivesBack(k, "parked")
    <3>1. j # k => m_state'[j] = m_state[j] \/ st[j] # "dead"
      BY <2>2, <2>4
    <3>2. st[k] # "dead"
      BY <2>1
    <3> QED
      BY <1>a, <2>3, <2>6, <3>1, <3>2
  <2> QED
    BY <2>3, <2>5, <2>6
<1>6. ASSUME NEW r \in Outcomes, Finish(k, r) PROVE FrameStep(j)
  BY <1>6 DEF Finish, FrameStep
<1>7. CASE ExchangeFinal(k)
  <2>1. /\ st[k] = "return" /\ k \in Futures
        /\ m_state' = [m_state EXCEPT ![k] = TRUE]
        /\ UNCHANGED <<m_continuation, m_result>>
        /\ st' = [st EXCEPT ![k] = "wake"] \/ GivesBack(k, "final")
    BY <1>7 DEF ExchangeFinal
  <2>2. j # k => m_state'[j] = m_state[j]
    BY <2>1
  <2>3. CASE st' = [st EXCEPT ![k] = "wake"]
    <3>1. st'[j] = IF j = k THEN "wake" ELSE st[j]
      BY <2>3
    <3>2. /\ st[j] = "dead" => j # k /\ m_state'[j] = m_state[j]
          /\ m_continuation'[j] = m_continuation[j] /\ m_result'[j] = m_result[j]
      BY <2>1, <2>2
    <3> QED
      BY <3>1, <3>2 DEF FrameStep
  <2>4. CASE GivesBack(k, "final")
    <3>1. j # k => m_state'[j] = m_state[j] \/ st[j] # "dead"
      BY <2>2
    <3>2. st[k] # "dead"
      BY <2>1
    <3> QED
      BY <1>a, <2>1, <2>4, <3>1, <3>2
  <2> QED
    BY <2>1, <2>3, <2>4
<1>8. CASE ResumeContinuation(k)
  BY <1>0, <1>8 DEF ResumeContinuation, Link, FrameStep
<1>9. CASE Destroy(k)
  BY <1>0, <1>9 DEF Destroy, Link, FrameStep
<1> QED
  BY <1>1, <1>2, <1>3, <1>4, <1>5, <1>6, <1>7, <1>8, <1>9 DEF Step

\* No side of the handshake touches the promise of a destroyed coroutine.
THEOREM PromiseAlive == Spec => NoUseAfterDestroy
<1>1. ASSUME IInv, [Next]_vars PROVE [\A k \in Futures : FrameStep(k)]_vars
  <2>1. CASE FinishRoot
    BY <1>1, <2>1, DepthAssumption DEF FinishRoot, FrameStep, IInv, TypeOK, Coroutines, Futures
  <2> QED
    BY <1>1, <2>1, FrameKept DEF Next, Done
<1> QED
  BY <1>1, HandshakeInvariant, PTL DEF Spec, NoUseAfterDestroy

-----------------------------------------------------------------------------
(* Refinement of AsyncCall. *)

Mapped == <<[k \in Futures |-> Phase(k)], m_result, [k \in Futures |-> got[k - 1]]>>

\* A step that moves no outcome, and starts or frees no coroutine that is seen
\* as pending or idle, is a stutter of the call.
LEMMA StutterStep ==
    ASSUME UNCHANGED <<got, m_result>>,
           \A j \in Futures : (st'[j] \in {"lazy", "dead"}) <=> (st[j] \in {"lazy", "dead"})
    PROVE  Mapped' = Mapped
<1>1. \A j \in Futures : Phase(j)' = Phase(j)
  BY DEF Phase
<1> QED
  BY <1>1 DEF Mapped

\* A step after which the outcome of c, and nothing else, is seen as delivered.
LEMMA DeliverStep ==
    ASSUME NEW c \in Futures, Phase(c) = "complete", m_result' = m_result,
           \A j \in Futures : Phase(j)' = IF j = c THEN "delivered" ELSE Phase(j),
           \A j \in Futures : got'[j - 1] = IF j = c THEN m_result[j] ELSE got[j - 1]
    PROVE  Call!Deliver(c)
<1>1. [j \in Futures |-> Phase(j)]' = [[j \in Futures |-> Phase(j)] EXCEPT ![c] = "delivered"]
  OBVIOUS
<1>2. [j \in Futures |-> got[j - 1]]'
      = [[j \in Futures |-> got[j - 1]] EXCEPT ![c] = m_result[c]]
  OBVIOUS
<1> QED
  BY <1>1, <1>2 DEF Call!Deliver

\* The call of coroutine k + 1 by coroutine k: await, finish and the two ways of
\* delivering the outcome are Invoke, Complete and Deliver.
LEMMA CallStep ==
    ASSUME IInv, NEW k \in Coroutines, Step(k)
    PROVE  Call!Next \/ Mapped' = Mapped
<1> USE DepthAssumption DEF IInv, TypeOK, Coroutines, Futures, States, Outcomes
<1>1. CASE Await(k)
  <2>1. k + 1 \in Futures /\ Link(k + 1) /\ k + 1 - 1 = k
    BY <1>1 DEF Await
  <2>2. \A j \in Futures : Phase(j)' = IF j = k + 1 THEN "pending" ELSE Phase(j)
    BY <1>1, <2>1 DEF Await, Phase, Link
  <2>3. Phase(k + 1) = "idle"
    BY <1>1, <2>1 DEF Await, Phase, Link
  <2>4. Call!Invoke(k + 1)
    BY <1>1, <2>1, <2>2, <2>3 DEF Await, Call!Invoke
  <2> QED
    BY <2>1, <2>4 DEF Call!Next
<1>2. CASE Suspend(k)
  BY <1>2, StutterStep DEF Suspend, GivesBack, Link
<1>3. CASE OpDone(k)
  BY <1>3, StutterStep DEF OpDone
<1>4. CASE StoreContinuation(k)
  BY <1>4, StutterStep DEF StoreContinuation
<1>5. CASE ExchangeAwaiter(k)
  <2>1. k + 1 \in Futures /\ Link(k + 1) /\ k + 1 - 1 = k
    BY <1>5 DEF ExchangeAwaiter, Awaiting
  <2>2. CASE ~m_state[k + 1]
    <3>1. first[k] => k \in Futures /\ st[k - 1] = "await"
      BY DEF Link
    <3>2. st[k] = "stored" /\ GivesBack(k, "parked") /\ UNCHANGED <<got, m_result>>
      BY <1>5, <2>2 DEF ExchangeAwaiter
    <3> QED
      BY <3>1, <3>2, StutterStep DEF GivesBack
  <2>3. CASE m_state[k + 1]
    <3>1. st[k + 1] = "final" /\ got[k] = "none" /\ m_result[k + 1] # "none"
      BY <1>5, <2>1, <2>3 DEF ExchangeAwaiter, Link, Awaiting
    <3>2. /\ st' = [st EXCEPT ![k] = "active"]
          /\ got' = [got EXCEPT ![k] = m_result[k + 1]] /\ m_result' = m_result
      BY <1>5, <2>3 DEF ExchangeAwaiter
    <3>3. Phase(k + 1) = "complete"
      BY <2>1, <3>1 DEF Phase
    <3>4. \A j \in Futures : Phase(j)' = IF j = k + 1 THEN "delivered" ELSE Phase(j)
      BY <1>5, <2>1, <3>1, <3>2 DEF ExchangeAwaiter, Phase
    <3>5. \A j \in Futures : got'[j - 1] = IF j = k + 1 THEN m_result[j] ELSE got[j - 1]
      BY <2>1, <3>2
    <3>6. Call!Deliver(k + 1)
      BY <2>1, <3>2, <3>3, <3>4, <3>5, DeliverStep
    <3> QED
      BY <2>1, <3>6 DEF Call!Next
  <2> QED
    BY <2>2, <2>3
<1>6. ASSUME NEW r \in Outcomes, Finish(k, r) PROVE Call!Next
  <2>1. k \in Futures /\ Link(k) /\ got[k - 1] = "none" /\ m_result[k] = "none"
    BY <1>6 DEF Finish, Link, Unfinished
  <2>2. Phase(k) = "pending"
    BY <1>6, <2>1 DEF Finish, Phase
  <2>3. \A j \in Futures : Phase(j)' = IF j = k THEN "complete" ELSE Phase(j)
    BY <1>6, <2>1 DEF Finish, Phase
  <2>4. Call!Complete(k, r)
    BY <1>6, <2>1, <2>2, <2>3 DEF Finish, Call!Complete
  <2> QED
    BY <2>1, <2>4 DEF Call!Next
<1>7. CASE ExchangeFinal(k)
  BY <1>7, StutterStep DEF ExchangeFinal, GivesBack, Link
<1>8. CASE ResumeContinuation(k)
  <2>1. /\ k \in Futures /\ Link(k) /\ m_continuation[k] = k - 1
        /\ k - 1 \in Coroutines
        /\ got[k - 1] = "none" /\ m_result[k] # "none"
    BY <1>8 DEF ResumeContinuation, Link, Awaiting
  <2>2. /\ st' = [st EXCEPT ![k] = "final", ![k - 1] = "active"]
        /\ got' = [got EXCEPT ![k - 1] = m_result[k]] /\ m_result' = m_result
    BY <1>8, <2>1 DEF ResumeContinuation
  <2>3. Phase(k) = "complete"
    BY <2>1 DEF Phase
  <2>4. st[k - 1] = "parked" /\ st[k] = "wake"
    BY <1>8, <2>1 DEF ResumeContinuation, Link
  <2>5. \A j \in Futures : got'[j - 1] = IF j = k THEN m_result[j] ELSE got[j - 1]
    BY <2>1, <2>2
  <2>6. \A j \in Futures : Phase(j)' = IF j = k THEN "delivered" ELSE Phase(j)
    BY <2>1, <2>2, <2>4, <2>5 DEF Phase
  <2>7. Call!Deliver(k)
    BY <2>1, <2>2, <2>3, <2>5, <2>6, DeliverStep
  <2> QED
    BY <2>1, <2>7 DEF Call!Next
<1>9. CASE Destroy(k)
  <2>1. k \in Futures /\ Link(k)
    BY <1>9 DEF Destroy
  <2>2. \A j \in Futures : Phase(j)' = Phase(j)
    BY <1>9, <2>1 DEF Destroy, Phase, Link
  <2> QED
    BY <1>9, <2>2 DEF Destroy, Mapped
<1> QED
  BY <1>1, <1>2, <1>3, <1>4, <1>5, <1>6, <1>7, <1>8, <1>9 DEF Step

\* co_await of a future is a call: the handshake implements AsyncCall.
THEOREM AwaitRefinesCall == Spec => AwaitIsACall
<1>1. Init => Call!Init
  <2> SUFFICES ASSUME Init PROVE Call!Init
    OBVIOUS
  <2>1. \A k \in Futures : /\ k \in Coroutines /\ k - 1 \in Coroutines /\ k # 0
    BY DepthAssumption DEF Coroutines, Futures
  <2>2. \A k \in Futures : got[k - 1] = "none" /\ m_result[k] = "none" /\ st[k] = "lazy"
    BY <2>1 DEF Init
  <2>3. \A k \in Futures : Phase(k) = "idle"
    BY <2>2 DEF Phase
  <2>4. m_result = [k \in Futures |-> "none"]
    BY DEF Init
  <2> QED
    BY <2>2, <2>3, <2>4 DEF Call!Init
<1>2. IInv /\ [Next]_vars => [Call!Next]_Mapped
  <2> SUFFICES ASSUME IInv, [Next]_vars PROVE Call!Next \/ Mapped' = Mapped
    OBVIOUS
  <2>1. CASE FinishRoot
    BY <2>1, StutterStep, DepthAssumption DEF FinishRoot, IInv, TypeOK, Coroutines, Futures
  <2>2. CASE UNCHANGED vars
    BY <2>2, StutterStep DEF vars
  <2> QED
    BY <2>1, <2>2, CallStep DEF Next, Done
<1> QED
  BY <1>1, <1>2, HandshakeInvariant, PTL DEF Spec, AwaitIsACall, Call!Spec, Mapped
-----------------------------------------------------------------------------
(* sync_wait.  Its steps are steps of the chain, or leave it alone, so what   *)
(* is shown above of every promise holds under it; and the flag, the callback *)
(* and the caller move in step.                                              *)

\* The chain below sync_wait is a chain of futures: a step of the caller or of
\* notice_fin changes no coroutine.
THEOREM RunsTheChain == SyncSpec => Spec
<1>1. SyncInit => Init
  BY DEF SyncInit
<1>2. [SyncNext]_swvars => [Next]_vars
  <2> SUFFICES ASSUME [SyncNext]_swvars PROVE [Next]_vars
    OBVIOUS
  <2>1. CASE ChainStep
    BY <2>1 DEF ChainStep, Next
  <2>2. CASE \E r \in Outcomes : TaskEnds(r)
    BY <2>2 DEF TaskEnds, Next
  <2>3. CASE NoticeExchange \/ NoticeNotify \/ WaitFlag \/ SleepEnds \/ Get
    BY <2>3 DEF NoticeExchange, NoticeNotify, WaitFlag, SleepEnds, Get
  <2>4. CASE SyncDone \/ UNCHANGED swvars
    BY <2>4 DEF SyncDone, swvars
  <2> QED
    BY <2>1, <2>2, <2>3, <2>4 DEF SyncNext
<1> QED
  BY <1>1, <1>2, PTL DEF SyncSpec, Spec

-----------------------------------------------------------------------------
(* The inductive invariant: how far the task has ended, by where its callback *)
(* is.                                                                       *)

SyncTypeOK ==
    /\ wpc \in {"start", "wait", "asleep", "get", "returned"}
    /\ cb \in {"set", "notify", "done"}
    /\ flag \in BOOLEAN
    /\ home \in {"promise", "frame"}
    /\ result \in Outcomes \cup {"none"}

SyncIInv ==
    /\ SyncTypeOK
    /\ st[0] = "final" <=> result # "none"
    /\ result # "none" /\ Depth > 0 => result = m_result[1]
    /\ cb # "set" => st[0] = "final"
    /\ flag <=> cb # "set"
    /\ wpc = "asleep" => cb # "done"
    /\ wpc \in {"get", "returned"} => flag
    /\ wpc = "returned" /\ (home = "promise" \/ result = "exception") => read = result

\* at the start the chain runs, nothing is set and the waiter has not looked
LEMMA SyncInitIInv == SyncInit => SyncIInv
<1> SUFFICES ASSUME SyncInit PROVE SyncIInv
  OBVIOUS
<1>1. st[0] = "active"
  BY DepthAssumption DEF SyncInit, Init, Coroutines
<1> QED
  BY <1>1 DEF SyncInit, SyncIInv, SyncTypeOK

\* The root coroutine ends in FinishRoot alone, and stays ended; the coroutine it
\* awaited had ended before, and its outcome stays.
LEMMA RootEnds ==
    ASSUME IInv, NEW k \in Coroutines, Step(k)
    PROVE  /\ st'[0] = "final" <=> st[0] = "final"
           /\ st[0] = "final" /\ Depth > 0 => m_result'[1] = m_result[1]
<1> USE DepthAssumption DEF Coroutines, Futures
<1>1. /\ st \in [Coroutines -> States]
      /\ k # 0 => st[k - 1] # "final" \/ ~first[k]
      /\ st[0] # "wake" /\ ~first[0]
      /\ m_result \in [Futures -> Outcomes \cup {"none"}]
      /\ st[0] = "final" /\ Depth > 0 => st[1] # "active"
  BY DEF IInv, TypeOK, Link, Awaiting, Unfinished
<1>2. CASE Await(k) \/ OpDone(k) \/ StoreContinuation(k) \/ Destroy(k)
  BY <1>1, <1>2 DEF Await, OpDone, StoreContinuation, Destroy
<1>3. CASE Suspend(k)
  BY <1>1, <1>3 DEF Suspend, GivesBack
<1>4. CASE ExchangeAwaiter(k)
  BY <1>1, <1>4 DEF ExchangeAwaiter, GivesBack
<1>5. CASE \E r \in Outcomes : Finish(k, r)
  BY <1>1, <1>5 DEF Finish
<1>6. CASE ExchangeFinal(k)
  BY <1>1, <1>6 DEF ExchangeFinal, GivesBack
<1>7. CASE ResumeContinuation(k)
  <2>1. m_continuation[k] = k - 1 /\ st[k - 1] = "parked"
    BY <1>7 DEF ResumeContinuation, IInv, Link
  <2> QED
    BY <1>1, <1>7, <2>1 DEF ResumeContinuation
<1> QED
  BY <1>2, <1>3, <1>4, <1>5, <1>6, <1>7 DEF Step

\* the chain, the notice and the waiter keep it
LEMMA SyncNextIInv == IInv /\ SyncIInv /\ [SyncNext]_swvars => SyncIInv'
<1> SUFFICES ASSUME IInv, SyncIInv, [SyncNext]_swvars PROVE SyncIInv'
  OBVIOUS
<1>1. CASE ChainStep
  <2> PICK k \in Coroutines : Step(k)
    BY <1>1 DEF ChainStep
  <2>1. /\ st'[0] = "final" <=> st[0] = "final"
        /\ st[0] = "final" /\ Depth > 0 => m_result'[1] = m_result[1]
    BY RootEnds
  <2>2. wpc' = wpc \/ (wpc = "start" /\ wpc' = "wait")
    BY <1>1 DEF ChainStep
  <2> QED
    BY <1>1, <2>1, <2>2 DEF ChainStep, SyncIInv, SyncTypeOK
<1>2. ASSUME NEW r \in Outcomes, TaskEnds(r) PROVE SyncIInv'
  <2>1. st[0] = "active" /\ st'[0] = "final"
    BY <1>2, DepthAssumption DEF TaskEnds, FinishRoot, IInv, TypeOK, Coroutines
  <2>2. result' = r /\ r # "none" /\ UNCHANGED <<wpc, flag, cb, read, home>>
    BY <1>2 DEF TaskEnds, caller, Outcomes
  <2>3. Depth > 0 => r = m_result[1] /\ m_result' = m_result
    BY <1>2, DepthAssumption DEF TaskEnds, FinishRoot, IInv, Link, Futures, Outcomes
  <2> QED
    BY <1>2, <2>1, <2>2, <2>3 DEF SyncIInv, SyncTypeOK
<1>3. CASE NoticeExchange
  BY <1>3 DEF NoticeExchange, vars, SyncIInv, SyncTypeOK
<1>4. CASE NoticeNotify
  BY <1>4 DEF NoticeNotify, vars, SyncIInv, SyncTypeOK
<1>5. CASE WaitFlag \/ SleepEnds
  BY <1>5 DEF WaitFlag, SleepEnds, vars, SyncIInv, SyncTypeOK
<1>6. CASE Get
  <2>1. home = "promise" \/ result = "exception" => read' = result
    BY <1>6 DEF Get, SyncIInv, SyncTypeOK
  <2> QED
    BY <1>6, <2>1 DEF Get, vars, SyncIInv, SyncTypeOK
<1>7. CASE SyncDone \/ UNCHANGED swvars
  BY <1>7 DEF SyncDone, swvars, vars, caller, SyncIInv, SyncTypeOK
<1> QED
  BY <1>1, <1>2, <1>3, <1>4, <1>5, <1>6, <1>7 DEF SyncNext

\* The flag, the callback and the caller of sync_wait keep in step with the
\* coroutine they wait for.
THEOREM SyncInvariant == SyncSpec => []SyncIInv
<1>1. Spec => []IInv
  BY HandshakeInvariant
<1> QED
  BY <1>1, RunsTheChain, SyncInitIInv, SyncNextIInv, PTL DEF SyncSpec

\* sync_wait returns what its task ended with, however many futures the task
\* awaits and whichever threads resume them.
THEOREM OutcomeReturned == SyncSpec => []ReturnsOutcome
<1>1. SyncIInv => ReturnsOutcome
  BY DEF SyncIInv, SyncTypeOK, ReturnsOutcome
<1> QED
  BY <1>1, SyncInvariant, PTL

\* A caller asleep in atomic_wait has not been passed over by notice_fin.
THEOREM SleeperKnown == SyncSpec => []SleeperNotified
<1>1. SyncIInv => SleeperNotified
  BY DEF SyncIInv, SleeperNotified
<1> QED
  BY <1>1, SyncInvariant, PTL
=============================================================================
