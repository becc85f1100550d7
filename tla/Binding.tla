------------------------------ MODULE Binding ------------------------------
(***************************************************************************)
(* Which thread runs which io_context: bind_this_thread, its scope_guard,  *)
(* and the assertion at the head of every loop (include/io_context.hpp).   *)
(***************************************************************************)
CONSTANTS Threads, Contexts

VARIABLES
    this_thread_context,   \* thread_local
    m_thid,                \* the thread that bound the context last
    guards,                \* scope_guards a thread holds, bound of the model: one each
    loops,                 \* the contexts whose loop a thread is in
    rebound                \* contexts bound while another thread was in their loop

bvars == <<this_thread_context, m_thid, guards, loops, rebound>>

Nobody == "nobody"

BInit ==
    /\ this_thread_context = [t \in Threads |-> Nobody]
    /\ m_thid = [c \in Contexts |-> Nobody]
    /\ guards = [t \in Threads |-> FALSE]
    /\ loops = [t \in Threads |-> {}] /\ rebound = {}

\* from main or, once a loop is running, from a task of it
Bind(t, c) ==
    /\ m_thid' = [m_thid EXCEPT ![c] = t]
    /\ this_thread_context' = [this_thread_context EXCEPT ![t] = c]
    /\ guards' = [guards EXCEPT ![t] = TRUE]
    /\ rebound' = IF \E u \in Threads \ {t} : c \in loops[u] THEN rebound \cup {c} ELSE rebound
    /\ UNCHANGED loops

\* a guard's end of scope
Unbind(t) ==
    /\ guards[t]
    /\ this_thread_context' = [this_thread_context EXCEPT ![t] = Nobody]
    /\ guards' = [guards EXCEPT ![t] = FALSE]
    /\ UNCHANGED <<m_thid, loops, rebound>>

\* mutant: the thread id is not compared
AssertBindOnThread(t, c) == this_thread_context[t] = c

assert_bind(t, c) == this_thread_context[t] = c /\ m_thid[c] = t

\* run() or poll(); it throws when the assertion fails
Run(t, c) ==
    /\ assert_bind(t, c)
    /\ loops' = [loops EXCEPT ![t] = @ \cup {c}]
    /\ UNCHANGED <<this_thread_context, m_thid, guards, rebound>>

\* the loop ends
Return(t, c) ==
    /\ c \in loops[t]
    /\ loops' = [loops EXCEPT ![t] = @ \ {c}]
    /\ rebound' = IF \E u \in Threads \ {t} : c \in loops[u] THEN rebound ELSE rebound \ {c}
    /\ UNCHANGED <<this_thread_context, m_thid, guards>>

BNext ==
    \E t \in Threads :
        Unbind(t) \/ \E c \in Contexts : Bind(t, c) \/ Run(t, c) \/ Return(t, c)

BSpec == BInit /\ [][BNext]_bvars

-----------------------------------------------------------------------------
\* "io_context cannot invoke run() on multi-threads" (io_context.hpp:246): two
\* threads are in the loop of one context only if the second bound it while the
\* first was running, which overwrites m_thid; however the binds and the runs
\* come before that, the assertion stops one of the two.
OneLoopPerContext ==
    \A c \in Contexts \ rebound : \A t, u \in Threads :
        c \in loops[t] /\ c \in loops[u] => t = u
=============================================================================
