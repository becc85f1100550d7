------------------------------- MODULE Future -------------------------------
(***************************************************************************)
(* include/future.hpp: a chain of coroutines in which coroutine k awaits   *)
(* the future of coroutine k + 1.  Coroutine 0 is the one co_spawn starts  *)
(* (a oneway_task); 1 .. Depth are future<T> coroutines.                   *)
(*                                                                         *)
(* The awaiting side runs basic_awaiter::await_suspend: resume the awaited *)
(* coroutine, and when that call returns, store the continuation and       *)
(* exchange m_state.  The awaited side may by then have moved to another   *)
(* thread (schedule(), an operation completed elsewhere) and may be in     *)
(* final_awaiter::await_suspend, which exchanges m_state too.  Every step  *)
(* below is one access of the shared promise; no assumption is made on     *)
(* which thread takes it.                                                  *)
(***************************************************************************)
EXTENDS Integers

CONSTANT Depth

ASSUME DepthAssumption == Depth \in Nat

Coroutines == 0 .. Depth
Futures == 1 .. Depth
Null == -1
Outcomes == {"value", "exception"}

VARIABLES
    st,              \* where each coroutine is
    first,           \* k was resumed by await_suspend of k - 1, which waits for
                     \* the resume() call to return
    got,             \* what await_resume of k + 1 gave to k
    m_state,         \* of each future's promise
    m_continuation,
    m_result

vars == <<st, first, got, m_state, m_continuation, m_result>>

(* st[k]:                                                                   *)
(*  lazy     suspended at initial_suspend     active   the body is running  *)
(*  await    inside m_handle.resume()         back     resume() returned    *)
(*  stored   m_continuation written           parked   suspended by co_await*)
(*  op       suspended on some other operation, which will resume it        *)
(*  return   body over, at final_suspend      wake     saw the continuation *)
(*  final    nothing left to run              dead     frame destroyed      *)
Init ==
    /\ st = [k \in Coroutines |-> IF k = 0 THEN "active" ELSE "lazy"]
    /\ first = [k \in Coroutines |-> FALSE]
    /\ got = [k \in Coroutines |-> "none"]
    /\ m_state = [k \in Futures |-> FALSE]
    /\ m_continuation = [k \in Futures |-> Null]
    /\ m_result = [k \in Futures |-> "none"]

\* coroutine k goes to `where` and gives its thread back to whoever resumed it:
\* in its first activation that is await_suspend of k - 1
GivesBack(k, where) ==
    /\ st' = [j \in Coroutines |->
                 IF j = k THEN where
                 ELSE IF first[k] /\ j = k - 1 THEN "back" ELSE st[j]]
    /\ first' = [first EXCEPT ![k] = FALSE]

\* co_await of a future that was not started: await_ready is false, and
\* await_suspend begins with m_handle.resume()
Await(k) ==
    /\ st[k] = "active" /\ k + 1 \in Futures /\ st[k + 1] = "lazy"
    /\ st' = [st EXCEPT ![k] = "await", ![k + 1] = "active"]
    /\ first' = [first EXCEPT ![k + 1] = TRUE]
    /\ UNCHANGED <<got, m_state, m_continuation, m_result>>

\* the body awaits something else: an operation of the ring, schedule(), ...
Suspend(k) ==
    /\ st[k] = "active"
    /\ GivesBack(k, "op")
    /\ UNCHANGED <<got, m_state, m_continuation, m_result>>

\* ... and is resumed, by any thread
OpDone(k) ==
    /\ st[k] = "op"
    /\ st' = [st EXCEPT ![k] = "active"]
    /\ UNCHANGED <<first, got, m_state, m_continuation, m_result>>

\* set_continuation, first statement
StoreContinuation(k) ==
    /\ st[k] = "back"
    /\ m_continuation' = [m_continuation EXCEPT ![k + 1] = k]
    /\ st' = [st EXCEPT ![k] = "stored"]
    /\ UNCHANGED <<first, got, m_state, m_result>>

\* mutant: going on as soon as there is a result, not when the coroutine is over
ExchangeAwaiterEager(k) ==
    /\ st[k] = "stored"
    /\ m_state' = [m_state EXCEPT ![k + 1] = TRUE]
    /\ IF m_result[k + 1] # "none"
       THEN /\ st' = [st EXCEPT ![k] = "active"]
            /\ got' = [got EXCEPT ![k] = m_result[k + 1]]
            /\ UNCHANGED first
       ELSE GivesBack(k, "parked") /\ UNCHANGED got
    /\ UNCHANGED <<m_continuation, m_result>>

\* set_continuation, the exchange: await_suspend returns true and k stays
\* suspended, or false and k goes on with await_resume
ExchangeAwaiter(k) ==
    /\ st[k] = "stored"
    /\ m_state' = [m_state EXCEPT ![k + 1] = TRUE]
    /\ IF m_state[k + 1]
       THEN /\ st' = [st EXCEPT ![k] = "active"]
            /\ got' = [got EXCEPT ![k] = m_result[k + 1]]
            /\ UNCHANGED first
       ELSE GivesBack(k, "parked") /\ UNCHANGED got
    /\ UNCHANGED <<m_continuation, m_result>>

\* return_value / return_void / unhandled_exception
Finish(k, r) ==
    /\ k \in Futures /\ st[k] = "active"
    /\ m_result' = [m_result EXCEPT ![k] = r]
    /\ st' = [st EXCEPT ![k] = "return"]
    /\ UNCHANGED <<first, got, m_state, m_continuation>>

\* the oneway_task of co_spawn ends; nobody awaits it
FinishRoot ==
    /\ st[0] = "active"
    /\ st' = [st EXCEPT ![0] = "final"]
    /\ UNCHANGED <<first, got, m_state, m_continuation, m_result>>

\* mutant: final_awaiter resumes whatever the old state was
ExchangeFinalAlways(k) ==
    /\ k \in Futures /\ st[k] = "return"
    /\ m_state' = [m_state EXCEPT ![k] = TRUE]
    /\ st' = [st EXCEPT ![k] = "wake"]
    /\ UNCHANGED <<first, got, m_continuation, m_result>>

\* final_awaiter::await_suspend, the exchange
ExchangeFinal(k) ==
    /\ k \in Futures /\ st[k] = "return"
    /\ m_state' = [m_state EXCEPT ![k] = TRUE]
    /\ IF m_state[k]
       THEN st' = [st EXCEPT ![k] = "wake"] /\ UNCHANGED first
       ELSE GivesBack(k, "final")
    /\ UNCHANGED <<got, m_continuation, m_result>>

\* mutant: await_resume forgets the exception
ResumeContinuationNoThrow(k) ==
    /\ k \in Futures /\ st[k] = "wake"
    /\ LET p == m_continuation[k] IN
       /\ st' = [st EXCEPT ![k] = "final", ![p] = "active"]
       /\ got' = [got EXCEPT ![p] = "value"]
    /\ UNCHANGED <<first, m_state, m_continuation, m_result>>

\* final_awaiter::await_suspend, m_continuation.resume(); the awaiting
\* coroutine goes on with await_resume, and nothing follows the call
ResumeContinuation(k) ==
    /\ k \in Futures /\ st[k] = "wake"
    /\ LET p == m_continuation[k] IN
       /\ st' = [st EXCEPT ![k] = "final", ![p] = "active"]
       /\ got' = [got EXCEPT ![p] = m_result[k]]
    /\ UNCHANGED <<first, m_state, m_continuation, m_result>>

\* ~future: the future object is a local or a temporary of the coroutine that
\* created it, and goes out of scope unused or once it has been awaited
Destroy(k) ==
    /\ k \in Futures /\ st[k - 1] = "active" /\ st[k] # "dead"
    /\ st[k] = "lazy" \/ got[k - 1] # "none"
    /\ st' = [st EXCEPT ![k] = "dead"]
    /\ UNCHANGED <<first, got, m_state, m_continuation, m_result>>

Step(k) ==
    \/ Await(k) \/ Suspend(k) \/ OpDone(k)
    \/ StoreContinuation(k) \/ ExchangeAwaiter(k)
    \/ \E r \in Outcomes : Finish(k, r)
    \/ ExchangeFinal(k) \/ ResumeContinuation(k) \/ Destroy(k)

Done == st[0] = "final" /\ UNCHANGED vars

Next == (\E k \in Coroutines : Step(k)) \/ FinishRoot \/ Done

Spec == Init /\ [][Next]_vars

\* the steps of the two sides of a co_await, which are on some thread
Handshake(k) ==
    \/ StoreContinuation(k) \/ ExchangeAwaiter(k)
    \/ ExchangeFinal(k) \/ ResumeContinuation(k)

-----------------------------------------------------------------------------
(* Properties. *)

States == {"lazy", "active", "await", "back", "stored", "parked", "op",
           "return", "wake", "final", "dead"}

TypeOK ==
    /\ st \in [Coroutines -> States]
    /\ first \in [Coroutines -> BOOLEAN]
    /\ got \in [Coroutines -> Outcomes \cup {"none"}]
    /\ m_state \in [Futures -> BOOLEAN]
    /\ m_continuation \in [Futures -> Coroutines \cup {Null}]
    /\ m_result \in [Futures -> Outcomes \cup {"none"}]

\* final_awaiter resumes exactly the coroutine that awaits, and only when it is
\* suspended: never one whose await_suspend is still running on another thread,
\* never one that already went on (future.hpp:29-31, 41-44).
ResumesOnlySuspended ==
    \A k \in Futures :
        st[k] = "wake" => m_continuation[k] = k - 1 /\ st[k - 1] = "parked"

\* no lost wake-up: whoever loses the race of the two exchanges leaves the
\* resumption to the other, so a suspended awaiter has a coroutine that still
\* runs and will see its continuation (future.hpp:29, 43).
NoLostWakeup ==
    \A k \in Futures :
        st[k - 1] = "parked" => st[k] \notin {"lazy", "final", "dead"}

\* when co_await gives a result, the awaited coroutine has stored it and has
\* nothing left to run, so the future may be destroyed at once
\* (future.hpp:144-148, 165-171).
ResultBeforeResume ==
    \A k \in Futures :
        got[k - 1] # "none" => got[k - 1] = m_result[k] /\ st[k] \in {"final", "dead"}

\* The two exchanges of m_state order the two sides of a co_await, on whatever
\* threads they run: exactly one of them goes on for the other, after the result
\* is there, and never while the other still runs (future.hpp:28-44, 144-171).
HandshakeSafe == ResumesOnlySuspended /\ NoLostWakeup /\ ResultBeforeResume

\* A frame is destroyed only while its coroutine is suspended for good, and
\* nothing touches the promise afterwards: neither side of the handshake is
\* still between its resume() and its exchange (future.hpp:28-30, 134-135, 144).
FrameStep(k) ==
    /\ st[k] # "dead" /\ st'[k] = "dead" => st[k] \in {"lazy", "final"}
    /\ st[k] = "dead" => /\ st'[k] = "dead"
                         /\ m_state'[k] = m_state[k]
                         /\ m_continuation'[k] = m_continuation[k]
                         /\ m_result'[k] = m_result[k]

NoUseAfterDestroy == [][\A k \in Futures : FrameStep(k)]_vars

Phase(k) ==
    IF got[k - 1] # "none" THEN "delivered"
    ELSE IF m_result[k] # "none" THEN "complete"
    ELSE IF st[k] \in {"lazy", "dead"} THEN "idle" ELSE "pending"

\* The two-exchange handshake implements a call (AsyncCall).
Call == INSTANCE AsyncCall WITH Calls <- Futures,
    phase <- [k \in Futures |-> Phase(k)],
    outcome <- m_result,
    delivered <- [k \in Futures |-> got[k - 1]]

AwaitIsACall == Call!Spec

-----------------------------------------------------------------------------
(* The inductive invariant: how far the awaiting side p = k - 1 and the       *)
(* awaited side k of one promise can be apart.                               *)

Awaiting == {"await", "back", "stored", "parked"}
Unfinished == {"active", "await", "back", "stored", "parked", "op"}

Link(k) ==
    LET p == k - 1 IN
    /\ first[k] <=> st[p] = "await"
    /\ st[p] \in Awaiting => got[p] = "none" /\ st[k] \notin {"lazy", "dead"}
    /\ st[p] = "await" => ~m_state[k] /\ st[k] \notin {"parked", "op", "final"}
    /\ st[p] \in {"back", "stored"} => (m_state[k] <=> st[k] = "final")
    /\ st[p] \in {"stored", "parked"} => m_continuation[k] = p
    /\ st[p] = "parked" => m_state[k] /\ st[k] # "final"
    /\ st[k] = "wake" => st[p] = "parked"
    /\ st[k] \in Unfinished \cup {"return", "wake"} => st[p] \in Awaiting
    /\ st[k] \in Unfinished \cup {"lazy"} => m_result[k] = "none"
    /\ st[k] \in {"return", "wake", "final"} => m_result[k] # "none"
    /\ st[k] = "final" => st[p] \in {"back", "stored"} \/ got[p] # "none"
    /\ got[p] # "none" => got[p] = m_result[k] /\ st[k] \in {"final", "dead"}
    /\ st[k] = "dead" => (got[p] # "none" <=> m_result[k] # "none")
    /\ st[k] = "lazy" => got[p] = "none" /\ ~m_state[k]

IInv ==
    /\ TypeOK
    /\ ~first[0] /\ st[0] \notin {"lazy", "return", "wake", "dead"}
    /\ st[Depth] \notin Awaiting
    /\ \A k \in Futures : Link(k)
=============================================================================
