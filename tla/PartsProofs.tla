----------------------------- MODULE PartsProofs -----------------------------
(***************************************************************************)
(* The generator, the result union and the binding of threads, for any     *)
(* number of objects, threads and contexts.                                *)
(***************************************************************************)
EXTENDS Generator, Result, Binding, TLAPS

\* The flag of the owner tells whether the coroutine has been begun, and one that
\* has not been begun has no iterator and has not ended.
GInv ==
    /\ body \in [yields : 0 .. MaxYields, throws : BOOLEAN]
    /\ owner \in Owners \cup {-1}
    /\ m_init_begin \in [Owners -> BOOLEAN]
    /\ done \in BOOLEAN /\ late \in BOOLEAN /\ overrun \in BOOLEAN /\ iter \in BOOLEAN
    /\ ~late => /\ begun \in {0, 1} /\ ~overrun
                /\ owner # -1 => (m_init_begin[owner] <=> begun = 1)
                /\ begun = 0 => ~done /\ ~iter
                /\ thrown = IF done /\ body.throws THEN 1 ELSE 0

\* the first resumption, or one after it, of a coroutine that has not ended
LEMMA ResumeDelivers ==
    ASSUME GInv, ResumeAndRethrow, ~late, ~done
    PROVE  /\ done' \in BOOLEAN /\ ~overrun' /\ overrun' \in BOOLEAN
           /\ thrown = 0 /\ thrown' = IF done' /\ body.throws THEN 1 ELSE 0
           /\ UNCHANGED <<body, owner, late>>
BY DEF GInv, ResumeAndRethrow

\* every operation of the generator keeps the invariant
LEMMA GeneratorStep ==
    ASSUME GInv, GNext
    PROVE  GInv'
<1>1. CASE Begin
  <2>1. owner # -1 /\ owner \in Owners
    BY <1>1 DEF GInv, Begin
  <2>2. CASE m_init_begin[owner]
    BY <1>1, <2>1, <2>2 DEF GInv, Begin
  <2>3. CASE ~m_init_begin[owner]
    <3>1. /\ ResumeAndRethrow /\ begun' = begun + 1
          /\ iter' = (iter \/ thrown' = thrown)
          /\ m_init_begin' = [m_init_begin EXCEPT ![owner] = TRUE]
      BY <1>1, <2>3 DEF Begin
    <3>2. CASE late
      BY <2>1, <3>1, <3>2 DEF GInv, ResumeAndRethrow
    <3>3. CASE ~late
      <4>1. begun = 0 /\ ~done
        BY <2>1, <2>3, <3>3 DEF GInv
      <4> QED
        BY <2>1, <3>1, <3>3, <4>1, ResumeDelivers DEF GInv
    <3> QED
      BY <3>2, <3>3
  <2> QED
    BY <2>2, <2>3
<1>2. CASE Increment
  <2>1. /\ owner # -1 /\ iter /\ ~done
        /\ ResumeAndRethrow /\ UNCHANGED <<m_init_begin, iter, begun>>
    BY <1>2 DEF Increment
  <2>2. CASE late
    BY <2>1, <2>2 DEF GInv, ResumeAndRethrow
  <2>3. CASE ~late
    BY <2>1, <2>3, ResumeDelivers DEF GInv
  <2> QED
    BY <2>2, <2>3
<1>3. CASE \E g \in Owners : Move(g)
  BY <1>3 DEF GInv, Move
<1>4. CASE Drop
  BY <1>4 DEF GInv, Drop
<1> QED
  BY <1>1, <1>2, <1>3, <1>4 DEF GNext

\* Only the first begin() advances a generator, and its exception is delivered
\* once, for any number of generator objects and of values (generator.hpp:129-138).
THEOREM GeneratorInOrder == GSpec => []YieldsInOrder
<1>1. GInit => GInv
  <2>1. SUFFICES ASSUME GInit PROVE GInv
    OBVIOUS
  <2>2. /\ owner = 0 /\ 0 \in Owners /\ owner \in Owners \cup {-1}
        /\ m_init_begin \in [Owners -> BOOLEAN] /\ ~m_init_begin[owner]
    BY <2>1, GeneratorAssumption DEF GInit
  <2>3. /\ done = FALSE /\ late = FALSE /\ overrun = FALSE /\ iter = FALSE
        /\ begun = 0 /\ thrown = 0 /\ body \in [yields : 0 .. MaxYields, throws : BOOLEAN]
    BY <2>1 DEF GInit
  <2>4. begun \in {0, 1} /\ (m_init_begin[owner] <=> begun = 1)
    BY <2>2, <2>3
  <2>5. thrown = IF done /\ body.throws THEN 1 ELSE 0
    BY <2>3
  <2> QED
    BY <2>2, <2>3, <2>4, <2>5 DEF GInv
<1>2. GInv /\ [GNext]_gvars => GInv'
  <2>1. GInv /\ UNCHANGED gvars => GInv'
    BY DEF gvars, GInv
  <2> QED
    BY <2>1, GeneratorStep
<1>3. GInv => YieldsInOrder
  BY DEF GInv, YieldsInOrder
<1> QED
  BY <1>1, <1>2, <1>3, PTL DEF GSpec

-----------------------------------------------------------------------------
RTypeOK ==
    /\ live \in [Results -> {"none", "value", "error"}]
    /\ m_iserr \in [Results -> BOOLEAN]

\* every operation of a result keeps the flag exact
LEMMA ResultStep ==
    ASSUME RTypeOK, TagExact, RNext
    PROVE  RTypeOK' /\ TagExact'
<1> USE DEF RTypeOK, TagExact, Tagged
<1> PICK r \in Results :
        \/ \E what \in {"value", "error"} : Make(r, what) \/ Set(r, what)
        \/ \E o \in Results : MoveMake(r, o) \/ MoveTo(r, o) \/ MapTo(r, o)
        \/ Destruct(r)
  BY DEF RNext
<1>1. ASSUME NEW what \in {"value", "error"}, Make(r, what)
      PROVE  RTypeOK' /\ TagExact'
  BY <1>1 DEF Make
<1>2. ASSUME NEW what \in {"value", "error"}, Set(r, what)
      PROVE  RTypeOK' /\ TagExact'
  BY <1>2 DEF Set
<1>3. ASSUME NEW o \in Results, MoveMake(r, o) \/ MoveTo(r, o)
      PROVE  RTypeOK' /\ TagExact'
  BY <1>3 DEF MoveMake, MoveTo, TakeOver
<1>4. ASSUME NEW o \in Results, MapTo(r, o)
      PROVE  RTypeOK' /\ TagExact'
  BY <1>1, <1>4 DEF MapTo
<1>5. CASE Destruct(r)
  BY <1>5 DEF Destruct
<1> QED
  BY <1>1, <1>2, <1>3, <1>4, <1>5

\* What a result destroys is what it constructed, for any number of results
\* moved, assigned and mapped into each other (result_type.hpp:45-75).
THEOREM ResultTagged == RSpec => []TagExact
<1>1. RInit => RTypeOK /\ TagExact
  BY DEF RInit, RTypeOK, TagExact
<1>2. RTypeOK /\ TagExact /\ [RNext]_rvars => (RTypeOK /\ TagExact)'
  <2>1. RTypeOK /\ TagExact /\ UNCHANGED rvars => (RTypeOK /\ TagExact)'
    BY DEF rvars, RTypeOK, TagExact, Tagged
  <2> QED
    BY <2>1, ResultStep
<1> QED
  BY <1>1, <1>2, PTL DEF RSpec

-----------------------------------------------------------------------------
\* the thread in a loop is the one that bound the context last
BInv ==
    /\ m_thid \in [Contexts -> Threads \cup {Nobody}]
    /\ loops \in [Threads -> SUBSET Contexts]
    /\ \A c \in Contexts \ rebound : \A t \in Threads : c \in loops[t] => m_thid[c] = t

\* binding, leaving a guard's scope, entering and leaving a loop keep it
LEMMA BindingStep ==
    ASSUME BInv, BNext
    PROVE  BInv'
<1> USE DEF BInv
<1> PICK t \in Threads :
        Unbind(t) \/ \E c \in Contexts : Bind(t, c) \/ Run(t, c) \/ Return(t, c)
  BY DEF BNext
<1>1. CASE Unbind(t)
  BY <1>1 DEF Unbind
<1>2. ASSUME NEW c \in Contexts, Bind(t, c) PROVE BInv'
  BY <1>2 DEF Bind
<1>3. ASSUME NEW c \in Contexts, Run(t, c) PROVE BInv'
  BY <1>3 DEF Run, assert_bind
<1>4. ASSUME NEW c \in Contexts, Return(t, c) PROVE BInv'
  BY <1>4 DEF Return
<1> QED
  BY <1>1, <1>2, <1>3, <1>4

\* Any number of threads that bind and run any number of contexts: no two are in
\* one loop, unless it was bound to the second while it ran (io_context.hpp:237-248).
THEOREM LoopsExclusive == BSpec => []OneLoopPerContext
<1>1. BInit => BInv
  BY DEF BInit, BInv
<1>2. BInv /\ [BNext]_bvars => BInv'
  <2>1. BInv /\ UNCHANGED bvars => BInv'
    BY DEF bvars, BInv
  <2> QED
    BY <2>1, BindingStep
<1>3. BInv => OneLoopPerContext
  BY DEF BInv, OneLoopPerContext
<1> QED
  BY <1>1, <1>2, <1>3, PTL DEF BSpec
=============================================================================
