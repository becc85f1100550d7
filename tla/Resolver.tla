------------------------------ MODULE Resolver ------------------------------
(***************************************************************************)
(* include/http/resolver.hpp: coroutines hand name queries to a thread     *)
(* that drives c-ares, which answers through query_callback.               *)
(*                                                                         *)
(* Who takes steps:                                                        *)
(*  - the loop threads: async_query_awaiter::await_suspend of a query, and *)
(*    the task query_callback posted, which resumes the coroutine;         *)
(*  - the resolver thread, `tpc` its place in the loop of init();          *)
(*  - the thread that runs the destructor of the static instance, `dpc`.   *)
(*                                                                         *)
(* A query stands for the coroutine that awaits it; when it goes on, its   *)
(* name stands for the next query, so that the traffic is endless.         *)
(***************************************************************************)
EXTENDS Integers, Sequences, FiniteSets, Functions

CONSTANTS
    Queries,
    Modulus       \* of m_pending_cnt, an unsigned integer

Unlocked == "unlocked"

ASSUME QueriesAssumption == IsFiniteSet(Queries) /\ Unlocked \notin Queries
ASSUME ModulusAssumption == Modulus \in Nat /\ Modulus > Cardinality(Queries) + 2

VARIABLES
    sub,            \* control of await_suspend of each query
    m_mut,          \* the query in the critical section, or Unlocked
    m_query_list,
    qlist,          \* the batch the thread swapped out
    active,         \* queries c-ares works on
    posted,         \* queries whose resumption is posted to their io_context
    m_pending_cnt,
    tpc,            \* control of the resolver thread
    ret,            \* where query_callback returns to
    stop,           \* stop_requested() of the jthread's token
    dpc,            \* control of ~async_resolver
    crashed         \* the thread used what the destructor had destroyed

vars == <<sub, m_mut, m_query_list, qlist, active, posted, m_pending_cnt,
          tpc, ret, stop, dpc, crashed>>
submitter == <<sub, m_mut, m_query_list>>
dtor == <<stop, dpc>>

\* the first async_query builds the static instance, which starts the thread
Init ==
    /\ sub = [q \in Queries |-> "fresh"]
    /\ m_mut = Unlocked /\ m_query_list = <<>> /\ qlist = <<>>
    /\ active = {} /\ posted = {}
    /\ m_pending_cnt = 0
    /\ tpc = "loop" /\ ret = "get"
    /\ stop = FALSE /\ dpc = "alive" /\ crashed = FALSE

-----------------------------------------------------------------------------
(* The coroutines. *)

\* await_suspend takes the lock ...
Submit(q) ==
    /\ sub[q] = "fresh" /\ m_mut = Unlocked /\ dpc = "alive"
    /\ m_mut' = q /\ sub' = [sub EXCEPT ![q] = "push"]
    /\ UNCHANGED <<m_query_list, qlist, active, posted, m_pending_cnt, tpc, ret,
                   dtor, crashed>>

\* ... inserts and releases it ...
PushQuery(q) ==
    /\ sub[q] = "push"
    /\ m_query_list' = Append(m_query_list, q)
    /\ m_mut' = Unlocked /\ sub' = [sub EXCEPT ![q] = "wake"]
    /\ UNCHANGED <<qlist, active, posted, m_pending_cnt, tpc, ret, dtor, crashed>>

\* mutant: a flag instead of a count
TryWakeupStores(q) ==
    /\ sub[q] = "wake"
    /\ m_pending_cnt' = 1
    /\ sub' = [sub EXCEPT ![q] = "suspended"]
    /\ UNCHANGED <<m_mut, m_query_list, qlist, active, posted, tpc, ret, dtor, crashed>>

\* ... and wakes the thread: fetch_add and notify_one
TryWakeup(q) ==
    /\ sub[q] = "wake"
    /\ m_pending_cnt' = (m_pending_cnt + 1) % Modulus
    /\ sub' = [sub EXCEPT ![q] = "suspended"]
    /\ UNCHANGED <<m_mut, m_query_list, qlist, active, posted, tpc, ret, dtor, crashed>>

\* the posted task runs on the thread that ran await_suspend, so after it
Resume(q) ==
    /\ q \in posted /\ sub[q] = "suspended"
    /\ posted' = posted \ {q} /\ sub' = [sub EXCEPT ![q] = "fresh"]
    /\ UNCHANGED <<m_mut, m_query_list, qlist, active, m_pending_cnt, tpc, ret,
                   dtor, crashed>>

-----------------------------------------------------------------------------
(* The resolver thread. *)

LoopCheck ==
    /\ tpc = "loop"
    /\ tpc' = IF stop THEN "exited" ELSE "check"
    /\ UNCHANGED <<submitter, qlist, active, posted, m_pending_cnt, ret, dtor, crashed>>

\* empty() without the lock: it may answer either way while a query is inserted
ListCheck ==
    /\ tpc = "check"
    /\ \/ (m_query_list = <<>> \/ m_mut # Unlocked) /\ tpc' = "get"
       \/ (m_query_list # <<>> \/ m_mut # Unlocked) /\ tpc' = "swap"
    /\ UNCHANGED <<submitter, qlist, active, posted, m_pending_cnt, ret, dtor, crashed>>

\* mutant: the list is copied, not swapped
ListCopy ==
    /\ tpc = "swap" /\ m_mut = Unlocked
    /\ qlist' = m_query_list
    /\ tpc' = "get"
    /\ UNCHANGED <<submitter, active, posted, m_pending_cnt, ret, dtor, crashed>>

ListSwap ==
    /\ tpc = "swap" /\ m_mut = Unlocked
    /\ qlist' = m_query_list /\ m_query_list' = qlist
    /\ tpc' = "get"
    /\ UNCHANGED <<sub, m_mut, active, posted, m_pending_cnt, ret, dtor, crashed>>

\* query_callback, called by c-ares on this thread: post() ...
Callback(q, from) ==
    /\ posted' = posted \cup {q}
    /\ tpc' = "callback" /\ ret' = from

\* ... and fetch_sub
CallbackReturns ==
    /\ tpc = "callback"
    /\ m_pending_cnt' = (m_pending_cnt - 1) % Modulus
    /\ tpc' = ret
    /\ UNCHANGED <<submitter, qlist, active, posted, ret, dtor, crashed>>

\* ares_getaddrinfo answers an address literal, a name of the hosts file or an
\* error at once, and begins a query otherwise
GetAddrInfo ==
    /\ tpc = "get" /\ qlist # <<>>
    /\ qlist' = Tail(qlist)
    /\ \/ Callback(Head(qlist), "get") /\ UNCHANGED active
       \/ active' = active \cup {Head(qlist)} /\ UNCHANGED <<posted, tpc, ret>>
    /\ UNCHANGED <<submitter, m_pending_cnt, dtor, crashed>>

\* ares_fds gives no descriptor when c-ares has no query to work on: break
AresFds ==
    /\ tpc = "get" /\ qlist = <<>>
    /\ tpc' = IF active = {} THEN "exited" ELSE "process"
    /\ UNCHANGED <<submitter, qlist, active, posted, m_pending_cnt, ret, dtor, crashed>>

\* ares_process, after select: some queries are answered, or time out ...
Answer(q) ==
    /\ tpc = "process" /\ q \in active
    /\ active' = active \ {q}
    /\ Callback(q, "process")
    /\ UNCHANGED <<submitter, qlist, m_pending_cnt, dtor, crashed>>

\* ... and it returns
ProcessReturns ==
    /\ tpc = "process"
    /\ tpc' = "pending"
    /\ UNCHANGED <<submitter, qlist, active, posted, m_pending_cnt, ret, dtor, crashed>>

PendingCheck ==
    /\ tpc = "pending"
    /\ tpc' = IF m_pending_cnt = 0 THEN "wait" ELSE "loop"
    /\ UNCHANGED <<submitter, qlist, active, posted, m_pending_cnt, ret, dtor, crashed>>

\* atomic_wait(&m_pending_cnt, 0) returns when the value is another
WaitReturns ==
    /\ tpc = "wait" /\ m_pending_cnt # 0
    /\ tpc' = "loop"
    /\ UNCHANGED <<submitter, qlist, active, posted, m_pending_cnt, ret, dtor, crashed>>

-----------------------------------------------------------------------------
(* ~async_resolver, when the program ends. *)

DtorRequestStop ==
    /\ dpc = "alive"
    /\ stop' = TRUE /\ dpc' = "wakeup"
    /\ UNCHANGED <<submitter, qlist, active, posted, m_pending_cnt, tpc, ret, crashed>>

\* mutant: notify_one without fetch_add
DtorOnlyNotifies ==
    /\ dpc = "wakeup"
    /\ dpc' = "destroy"
    /\ UNCHANGED <<submitter, qlist, active, posted, m_pending_cnt, tpc, ret, stop, crashed>>

DtorWakeup ==
    /\ dpc = "wakeup"
    /\ m_pending_cnt' = (m_pending_cnt + 1) % Modulus
    /\ dpc' = "destroy"
    /\ UNCHANGED <<submitter, qlist, active, posted, tpc, ret, stop, crashed>>

\* ares_destroy answers what is active, on this thread, with ARES_EDESTRUCTION
AresDestroy ==
    /\ dpc = "destroy"
    /\ posted' = posted \cup active /\ active' = {}
    /\ m_pending_cnt' = (m_pending_cnt - Cardinality(active)) % Modulus
    /\ dpc' = "join"
    /\ UNCHANGED <<submitter, qlist, tpc, ret, stop, crashed>>

\* ~jthread, after the members declared behind it are gone
Join ==
    /\ dpc = "join" /\ tpc = "exited"
    /\ dpc' = "gone"
    /\ UNCHANGED <<submitter, qlist, active, posted, m_pending_cnt, tpc, ret,
                   stop, crashed>>

\* the thread is still in its loop: what it does with the destroyed channel,
\* list and mutex is undefined.  It goes on as before, or the process ends.
UseDestroyed ==
    /\ dpc = "join" /\ tpc # "exited"
    /\ crashed' = TRUE
    /\ UNCHANGED <<submitter, qlist, active, posted, m_pending_cnt, tpc, ret, dtor>>

-----------------------------------------------------------------------------
SubmitStep(q) == PushQuery(q) \/ TryWakeup(q)

ThreadStep ==
    \/ LoopCheck \/ ListCheck \/ ListSwap \/ GetAddrInfo \/ CallbackReturns
    \/ AresFds \/ ProcessReturns \/ PendingCheck \/ WaitReturns

DtorStep == DtorWakeup \/ AresDestroy \/ Join

Step ==
    \/ \E q \in Queries : Submit(q) \/ SubmitStep(q) \/ Resume(q) \/ Answer(q)
    \/ ThreadStep
    \/ DtorRequestStop \/ DtorStep \/ UseDestroyed

Over == (crashed \/ dpc = "gone") /\ UNCHANGED vars

Next == (~crashed /\ Step) \/ Over

(* Fairness: threads inside a call go on, and c-ares answers or times out    *)
(* each query it keeps being given time for.  Nobody has to submit, and the  *)
(* program need not end.                                                     *)
Fairness ==
    /\ WF_vars(~crashed /\ ThreadStep)
    /\ WF_vars(~crashed /\ DtorStep)
    /\ \A q \in Queries : /\ WF_vars(~crashed /\ SubmitStep(q))
                          /\ SF_vars(~crashed /\ Answer(q))

Spec == Init /\ [][Next]_vars
FairSpec == Spec /\ Fairness

-----------------------------------------------------------------------------
(* Properties. *)

Unanswered == Range(m_query_list) \cup Range(qlist) \cup active

\* queries whose await_suspend has still to count them
Late == {q \in Queries : sub[q] = "wake"}

TypeOK ==
    /\ sub \in [Queries -> {"fresh", "push", "wake", "suspended"}]
    /\ m_mut \in Queries \cup {Unlocked}
    /\ m_query_list \in Seq(Queries) /\ qlist \in Seq(Queries)
    /\ active \subseteq Queries /\ posted \subseteq Queries
    /\ m_pending_cnt \in 0 .. Modulus - 1
    /\ tpc \in {"loop", "check", "swap", "get", "callback", "process", "pending",
                "wait", "exited"}
    /\ ret \in {"get", "process"}
    /\ stop \in BOOLEAN /\ crashed \in BOOLEAN
    /\ dpc \in {"alive", "wakeup", "destroy", "join", "gone"}

\* a query that was handed over is in exactly one place until its coroutine
\* goes on: the list, the thread's batch, c-ares, or the io_context it is posted
\* to.  It is neither lost in the unlocked empty() and the swap, nor answered
\* twice (resolver.hpp:113-121, 131-142, 157-166).
HeldOnce ==
    /\ Cardinality(Unanswered) = Len(m_query_list) + Len(qlist) + Cardinality(active)
    /\ Unanswered \cap posted = {}
    /\ Unanswered \cup posted = {q \in Queries : sub[q] \in {"wake", "suspended"}}

\* m_pending_cnt counts the queries to be answered, less those not yet counted
\* because fetch_add follows the insertion: a query answered first takes the
\* counter below zero for a while.  The destructor's wake-up is never taken back
\* (resolver.hpp:120, 141, 186-189).
PendingExact ==
    m_pending_cnt = (Cardinality(Unanswered) - Cardinality(Late)
                     + (IF tpc = "callback" THEN 1 ELSE 0)
                     + (IF dpc \in {"destroy", "join", "gone"} THEN 1 ELSE 0)) % Modulus

\* Every query handed over is in one place and is counted once, through the
\* unlocked empty(), the swap, the callback that answers before the count, and
\* the destructor's wake-up (resolver.hpp:113-121, 131-142, 157-166, 186-189).
QueriesAccounted == TypeOK /\ HeldOnce /\ PendingExact

\* The thread sleeps while a query is to be answered only if a caller is about
\* to count its own query, which wakes it (resolver.hpp:178-181).
SleepsOnlyWhenIdle ==
    tpc = "wait" /\ m_pending_cnt = 0 /\ Unanswered # {} => Late # {}

\* A query handed over is answered, unless the thread has left its loop.
QueryAnswered ==
    \A q \in Queries :
        (q \in Unanswered) ~> (q \in posted \/ tpc = "exited" \/ crashed)

\* The destructor gets the thread out of its loop, also out of atomic_wait: the
\* wake-up is not cancelled by answers (resolver.hpp:85-86).
ShutdownEndsThread == stop ~> (tpc = "exited" \/ crashed)

\* "try blocking if finish all query" (resolver.hpp:178): the thread ends only
\* when it is asked to.
BlocksWhenIdle == tpc = "exited" => stop
=============================================================================
