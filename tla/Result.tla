------------------------------- MODULE Result -------------------------------
(***************************************************************************)
(* include/common/result_type.hpp: a value or an error in a union, and the *)
(* flag that says which.  `live` is the member that was really constructed *)
(* last, "none" outside the object's life.                                 *)
(***************************************************************************)
CONSTANT Results

VARIABLES
    live,        \* the member of the union that exists
    m_iserr,
    crossed      \* results given the other kind by set_value or set_error

rvars == <<live, m_iserr, crossed>>

RInit ==
    /\ live = [r \in Results |-> "none"] /\ m_iserr = [r \in Results |-> FALSE]
    /\ crossed = {}

\* the member the flag names, which is the one that is read, moved or destroyed
Tagged(r) == IF m_iserr[r] THEN "error" ELSE "value"

\* result(Value) and result(error<E> &&)
Make(r, what) ==
    /\ live[r] = "none"
    /\ live' = [live EXCEPT ![r] = what]
    /\ m_iserr' = [m_iserr EXCEPT ![r] = what = "error"]
    /\ UNCHANGED crossed

\* mutant: the flag keeps its default
TakeOverUntagged(r, o) ==
    /\ m_iserr' = [m_iserr EXCEPT ![r] = FALSE]
    /\ live' = [live EXCEPT ![r] = Tagged(o)]

\* result(result &&): the flag, and the member it names
TakeOver(r, o) ==
    /\ m_iserr' = [m_iserr EXCEPT ![r] = m_iserr[o]]
    /\ live' = [live EXCEPT ![r] = Tagged(o)]

MoveMake(r, o) ==
    /\ live[r] = "none" /\ live[o] # "none"
    /\ TakeOver(r, o) /\ UNCHANGED crossed

\* operator=(result &&): nothing for itself; else destroy and take over
MoveTo(r, o) ==
    /\ live[r] # "none" /\ live[o] # "none" /\ r # o
    /\ TakeOver(r, o) /\ crossed' = crossed \ {r}

\* map: the error is passed on, or the value mapped, into a new result
MapTo(r, o) == live[o] # "none" /\ Make(r, Tagged(o))

\* set_value and set_error destroy by the flag and leave it as it is
Set(r, what) ==
    /\ live[r] # "none"
    /\ live' = [live EXCEPT ![r] = what]
    /\ crossed' = IF what = Tagged(r) THEN crossed \ {r} ELSE crossed \cup {r}
    /\ UNCHANGED m_iserr

Destruct(r) ==
    /\ live[r] # "none"
    /\ live' = [live EXCEPT ![r] = "none"]
    /\ m_iserr' = [m_iserr EXCEPT ![r] = FALSE]
    /\ crossed' = crossed \ {r}

RNext ==
    \E r \in Results :
        \/ \E what \in {"value", "error"} : Make(r, what) \/ Set(r, what)
        \/ \E o \in Results : MoveMake(r, o) \/ MoveTo(r, o) \/ MapTo(r, o)
        \/ Destruct(r)

RSpec == RInit /\ [][RNext]_rvars

-----------------------------------------------------------------------------
\* Through any chain of moves, assignments and maps the flag names the member
\* that exists, so that what is destroyed is what was constructed; the two
\* setters break it only for the result whose kind they change, which keep
\* the old flag (result_type.hpp:45-75, 118-126).
TagExact ==
    \A r \in Results : live[r] # "none" /\ r \notin crossed => live[r] = Tagged(r)
=============================================================================
