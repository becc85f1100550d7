------------------------------ MODULE Generator ------------------------------
(***************************************************************************)
(* include/generator.hpp: one coroutine that yields, the generator object  *)
(* that owns it and moves, and a user who begins it, walks its iterator    *)
(* up to the end, and may begin it again.                                  *)
(***************************************************************************)
EXTENDS Integers

CONSTANTS
    Owners,      \* generator objects, the first of which is 0
    MaxYields    \* bound of the model: values a coroutine yields

ASSUME GeneratorAssumption == 0 \in Owners

VARIABLES
    body,        \* the coroutine: how many values it yields, how it ends
    at,          \* the value it is suspended at, 0 before the first
    done,        \* it is suspended for good
    owner,       \* whose m_handle it is, -1 once destroyed
    m_init_begin,
    iter,        \* the user holds an iterator
    begun,       \* times begin() has resumed the coroutine
    thrown,      \* times its exception has reached the user
    overrun,     \* it was resumed after its end
    late         \* the generator was moved after begin()

gvars == <<body, at, done, owner, m_init_begin, iter, begun, thrown, overrun, late>>

GInit ==
    /\ body \in [yields : 0 .. MaxYields, throws : BOOLEAN]
    /\ at = 0 /\ done = FALSE /\ owner = 0
    /\ m_init_begin = [g \in Owners |-> FALSE]
    /\ iter = FALSE /\ begun = 0 /\ thrown = 0
    /\ overrun = FALSE /\ late = FALSE

\* m_handle.resume(), then try_rethrow(); resuming a finished coroutine is
\* undefined, and is only recorded
ResumeAndRethrow ==
    /\ overrun' = (overrun \/ done)
    /\ done' = (done \/ at = body.yields)
    /\ at' = IF done' THEN at ELSE at + 1
    /\ thrown' = IF done' /\ body.throws THEN thrown + 1 ELSE thrown
    /\ UNCHANGED <<body, owner, late>>

\* mutant: m_init_begin is set once nothing was thrown
BeginSetsLast ==
    /\ owner # -1
    /\ IF m_init_begin[owner]
       THEN iter' = TRUE /\ UNCHANGED <<body, at, done, owner, m_init_begin, begun,
                                        thrown, overrun, late>>
       ELSE /\ ResumeAndRethrow /\ begun' = begun + 1
            /\ iter' = (iter \/ thrown' = thrown)
            /\ m_init_begin' = [m_init_begin EXCEPT ![owner] = thrown' = thrown]

Begin ==
    /\ owner # -1 /\ begun < MaxYields + 2
    /\ IF m_init_begin[owner]
       THEN iter' = TRUE /\ UNCHANGED <<body, at, done, owner, m_init_begin, begun,
                                        thrown, overrun, late>>
       ELSE /\ ResumeAndRethrow /\ begun' = begun + 1
            /\ iter' = (iter \/ thrown' = thrown)
            /\ m_init_begin' = [m_init_begin EXCEPT ![owner] = TRUE]

\* operator++ on an iterator that is not the end
Increment ==
    /\ owner # -1 /\ iter /\ ~done
    /\ ResumeAndRethrow
    /\ UNCHANGED <<m_init_begin, iter, begun>>

\* generator(generator &&): the handle, and not the flag
Move(g) ==
    /\ owner # -1 /\ g # owner /\ ~m_init_begin[g]
    /\ owner' = g /\ late' = (late \/ m_init_begin[owner])
    /\ UNCHANGED <<body, at, done, m_init_begin, iter, begun, thrown, overrun>>

\* ~generator of the owner; iterators into it are not used any more
Drop ==
    /\ owner # -1 /\ owner' = -1 /\ iter' = FALSE
    /\ UNCHANGED <<body, at, done, m_init_begin, begun, thrown, overrun, late>>

GNext == Begin \/ Increment \/ (\E g \in Owners : Move(g)) \/ Drop

GSpec == GInit /\ [][GNext]_gvars

-----------------------------------------------------------------------------
\* However often a generator is begun, only the first begin() advances it, a
\* finished coroutine is never resumed, and its exception is delivered once,
\* whether it is begin() or ++ that meets it; a generator moved after begin()
\* is outside, because the flag is not moved (generator.hpp:93-97, 120-138).
YieldsInOrder ==
    ~late => /\ begun <= 1 /\ ~overrun
             /\ thrown = IF done /\ body.throws THEN 1 ELSE 0
=============================================================================
