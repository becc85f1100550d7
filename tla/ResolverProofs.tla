--------------------------- MODULE ResolverProofs ---------------------------
(***************************************************************************)
(* What module Resolver checks on three queries, for any finite set of     *)
(* queries and any counter that is wide enough for them.                   *)
(*                                                                         *)
(* HeldOnce speaks of cardinalities.  The inductive invariant says it      *)
(* without them: no list holds a query twice and no two places share one   *)
(* (Apart).  The counter is then followed through Count, the number it     *)
(* would be if it did not wrap.                                            *)
(***************************************************************************)
EXTENDS Resolver, FiniteSetTheorems, SequenceTheorems, TLAPS

Submitted == {q \in Queries : sub[q] \in {"wake", "suspended"}}

\* no query is twice in a list or in two places
Apart ==
    /\ IsInjective(m_query_list) /\ IsInjective(qlist)
    /\ Range(m_query_list) \cap Range(qlist) = {}
    /\ (Range(m_query_list) \cup Range(qlist)) \cap active = {}
    /\ Unanswered \cap posted = {}
    /\ Unanswered \cup posted = Submitted

\* what m_pending_cnt counts
Count ==
    Cardinality(Unanswered) - Cardinality(Late)
    + (IF tpc = "callback" THEN 1 ELSE 0)
    + (IF dpc \in {"destroy", "join", "gone"} THEN 1 ELSE 0)

RInv == TypeOK /\ Apart /\ PendingExact

-----------------------------------------------------------------------------
(* Lists without repetition. *)

\* The number of elements of a list that holds none twice is its length.
LEMMA LengthOfList ==
    ASSUME NEW S, NEW s \in Seq(S), IsInjective(s)
    PROVE  IsFiniteSet(Range(s)) /\ Cardinality(Range(s)) = Len(s)
<1>1. Len(s) \in Nat /\ DOMAIN s = 1 .. Len(s) /\ s \in [1 .. Len(s) -> Range(s)]
  BY LenProperties DEF Range
<1>2. s \in Surjection(1 .. Len(s), Range(s)) /\ s \in Injection(1 .. Len(s), Range(s))
  BY <1>1 DEF Surjection, Injection, Range
<1>3. IsFiniteSet(1 .. Len(s)) /\ Cardinality(1 .. Len(s)) = Len(s)
  BY <1>1, FS_Interval
<1> QED
  BY <1>2, <1>3, FS_Surjection

\* Appending a new element.
LEMMA PushBack ==
    ASSUME NEW S, NEW s \in Seq(S), NEW e \in S, IsInjective(s), e \notin Range(s)
    PROVE  /\ Range(Append(s, e)) = Range(s) \cup {e}
           /\ IsInjective(Append(s, e))
<1> DEFINE t == Append(s, e)
<1>1. /\ Len(s) \in Nat /\ DOMAIN s = 1 .. Len(s)
      /\ t \in Seq(S) /\ Len(t) = Len(s) + 1 /\ DOMAIN t = 1 .. Len(s) + 1
      /\ t[Len(s) + 1] = e /\ \A i \in 1 .. Len(s) : t[i] = s[i]
  BY AppendProperties, LenProperties
<1> HIDE DEF t
<1>2. \A i \in 1 .. Len(s) : t[i] \in Range(s) /\ t[i] # e
  BY <1>1 DEF Range
<1>3. Range(t) = Range(s) \cup {e}
  BY <1>1 DEF Range
<1>4. IsInjective(t)
  BY <1>1, <1>2 DEF IsInjective
<1> QED
  BY <1>3, <1>4 DEF t

\* Removing the first element.
LEMMA PopFront ==
    ASSUME NEW S, NEW s \in Seq(S), s # <<>>, IsInjective(s)
    PROVE  /\ Head(s) \in Range(s) /\ Tail(s) \in Seq(S)
           /\ Range(Tail(s)) = Range(s) \ {Head(s)}
           /\ IsInjective(Tail(s))
<1> DEFINE t == Tail(s)
<1>1. /\ Len(s) \in Nat \ {0} /\ DOMAIN s = 1 .. Len(s)
      /\ t \in Seq(S) /\ DOMAIN t = 1 .. Len(s) - 1 /\ Head(s) = s[1]
      /\ \A i \in 1 .. Len(s) - 1 : t[i] = s[i + 1]
  BY HeadTailProperties, LenProperties, EmptySeq
<1> HIDE DEF t
<1>2. Range(t) = Range(s) \ {Head(s)}
  <2>1. ASSUME NEW i \in 1 .. Len(s) - 1
        PROVE  t[i] \in Range(s) \ {Head(s)}
    BY <1>1, <2>1 DEF Range, IsInjective
  <2>2. ASSUME NEW i \in 1 .. Len(s), s[i] # Head(s)
        PROVE  s[i] \in Range(t)
    <3>1. i - 1 \in 1 .. Len(s) - 1 /\ t[i - 1] = s[i]
      BY <1>1, <2>2
    <3> QED
      BY <1>1, <3>1 DEF Range
  <2> QED
    BY <1>1, <2>1, <2>2 DEF Range
<1>3. IsInjective(t)
  <2> SUFFICES ASSUME NEW i \in 1 .. Len(s) - 1, NEW j \in 1 .. Len(s) - 1, t[i] = t[j]
               PROVE  i = j
    BY <1>1 DEF IsInjective
  <2>1. i + 1 \in DOMAIN s /\ j + 1 \in DOMAIN s /\ s[i + 1] = s[j + 1]
    BY <1>1
  <2>2. i + 1 = j + 1
    BY <2>1 DEF IsInjective
  <2> QED
    BY <2>2
<1>4. Head(s) \in Range(s)
  BY <1>1 DEF Range
<1> QED
  BY <1>1, <1>2, <1>3, <1>4 DEF t

-----------------------------------------------------------------------------
(* The counter is unsigned: it counts modulo Modulus. *)

\* A remainder is determined by any quotient that leaves one.
LEMMA Remainder ==
    ASSUME NEW M \in Nat \ {0}, NEW q \in Int, NEW r \in 0 .. M - 1
    PROVE  (q * M + r) % M = r
  BY SMT

\* Adding to the wrapped counter is adding to the number and wrapping after.
LEMMA WrapAdd ==
    ASSUME NEW M \in Nat \ {0}, NEW a \in Int, NEW k \in Int
    PROVE  ((a % M) + k) % M = (a + k) % M
<1> DEFINE r == a % M
           q == a \div M
           s == (r + k) % M
           p == (r + k) \div M
<1>1. r \in Int /\ q \in Int /\ a = q * M + r
  BY SMT
<1>2. s \in 0 .. M - 1 /\ p \in Int /\ r + k = p * M + s
  BY <1>1, SMT
<1> HIDE DEF r, q, s, p
<1>3. a + k = (q + p) * M + s
  <2>1. a + k = q * M + (p * M + s)
    BY <1>1, <1>2, SMT
  <2> QED
    BY <1>1, <1>2, <2>1, SMT
<1>4. (a + k) % M = s
  <2>1. q + p \in Int
    BY <1>1, <1>2
  <2>2. \A z \in Int : (z * M + s) % M = s
    BY <1>2, Remainder
  <2> QED
    BY <1>3, <2>1, <2>2, Zenon
<1> QED
  BY <1>4 DEF s, r

-----------------------------------------------------------------------------
(* Consequences of the invariant. *)

\* Every set of queries is finite.
LEMMA QueriesFinite ==
    \A S \in SUBSET Queries :
        IsFiniteSet(S) /\ Cardinality(S) \in Nat /\ Cardinality(S) <= Cardinality(Queries)
  BY QueriesAssumption, FS_Subset, FS_CardinalityType

\* What is to be answered, and what is not yet counted, are sets of queries.
LEMMA PlacesAreQueries ==
    ASSUME TypeOK
    PROVE  /\ Unanswered \in SUBSET Queries /\ Late \in SUBSET Queries
           /\ Range(m_query_list) \in SUBSET Queries /\ Range(qlist) \in SUBSET Queries
           /\ Count \in Int
<1>1. Range(m_query_list) \in SUBSET Queries /\ Range(qlist) \in SUBSET Queries
  BY RangeOfSeq DEF TypeOK
<1>2. Unanswered \in SUBSET Queries /\ Late \in SUBSET Queries
  BY <1>1 DEF TypeOK, Unanswered, Late
<1>3. Cardinality(Unanswered) \in Nat /\ Cardinality(Late) \in Nat
  BY <1>2, QueriesFinite
<1> QED
  BY <1>1, <1>2, <1>3 DEF Count

\* Apart is HeldOnce without cardinalities.
LEMMA ApartIsHeldOnce == TypeOK /\ Apart => HeldOnce
<1> SUFFICES ASSUME TypeOK, Apart PROVE HeldOnce
  OBVIOUS
<1> DEFINE A == Range(m_query_list)
           B == Range(qlist)
<1>1. /\ IsFiniteSet(A) /\ Cardinality(A) = Len(m_query_list)
      /\ IsFiniteSet(B) /\ Cardinality(B) = Len(qlist)
      /\ IsFiniteSet(active)
  BY LengthOfList, QueriesFinite DEF TypeOK, Apart
<1>2. Len(m_query_list) \in Nat /\ Len(qlist) \in Nat /\ Cardinality(active) \in Nat
  BY LenProperties, QueriesFinite DEF TypeOK
<1>3. Cardinality(A \cap B) = 0 /\ Cardinality((A \cup B) \cap active) = 0
  <2>1. A \cap B = {} /\ (A \cup B) \cap active = {}
    BY DEF Apart
  <2> QED
    BY <2>1, FS_EmptySet, Zenon
<1>4. Unanswered = (A \cup B) \cup active
  BY DEF Unanswered
<1> HIDE DEF A, B
<1>5. IsFiniteSet(A \cup B) /\ Cardinality(A \cup B) = Cardinality(A) + Cardinality(B)
  <2>1. /\ IsFiniteSet(A \cup B)
        /\ Cardinality(A \cup B) = Cardinality(A) + Cardinality(B) - Cardinality(A \cap B)
    BY <1>1, FS_Union
  <2> QED
    BY <1>1, <1>2, <1>3, <2>1
<1>6. Cardinality(Unanswered) = Cardinality(A) + Cardinality(B) + Cardinality(active)
  <2>1. Cardinality((A \cup B) \cup active)
          = Cardinality(A \cup B) + Cardinality(active) - Cardinality((A \cup B) \cap active)
    BY <1>1, <1>5, FS_Union
  <2> QED
    BY <1>1, <1>2, <1>3, <1>4, <1>5, <2>1
<1> QED
  BY <1>1, <1>2, <1>6 DEF HeldOnce, Apart, Submitted

\* A step that adds k to the counter and to the number it stands for.
LEMMA CountStep ==
    ASSUME TypeOK, PendingExact, NEW k \in Int, Count' = Count + k,
           m_pending_cnt' = (m_pending_cnt + k) % Modulus
    PROVE  PendingExact'
<1>1. Count \in Int /\ Modulus \in Nat \ {0}
  BY PlacesAreQueries, ModulusAssumption, QueriesFinite
<1>2. m_pending_cnt = Count % Modulus
  BY DEF PendingExact, Count
<1>3. m_pending_cnt' = (Count + k) % Modulus
  BY <1>1, <1>2, WrapAdd
<1> QED
  BY <1>3 DEF PendingExact, Count

\* A step that leaves both alone.
LEMMA CountKept ==
    ASSUME PendingExact, Count' = Count, m_pending_cnt' = m_pending_cnt
    PROVE  PendingExact'
  BY DEF PendingExact, Count

-----------------------------------------------------------------------------
(* The inductive step. *)

\* The static instance is built with nothing to do.
LEMMA RInvInit == Init => RInv
<1> SUFFICES ASSUME Init PROVE RInv
  OBVIOUS
<1>1. TypeOK
  <2>1. m_pending_cnt \in 0 .. Modulus - 1
    BY ModulusAssumption, QueriesFinite DEF Init
  <2>2. sub \in [Queries -> {"fresh", "push", "wake", "suspended"}]
    BY DEF Init
  <2>3. m_query_list \in Seq(Queries) /\ qlist \in Seq(Queries)
    BY EmptySeq DEF Init
  <2> QED
    BY <2>1, <2>2, <2>3 DEF Init, TypeOK
<1>2. Unanswered = {} /\ Late = {}
  BY DEF Init, Unanswered, Late, Range
<1>3. Apart
  BY DEF Init, Apart, Submitted, IsInjective, Unanswered, Range
<1>4. Count = 0
  BY <1>2, FS_EmptySet DEF Init, Count
<1>5. 0 % Modulus = 0
  BY ModulusAssumption, QueriesFinite
<1>6. PendingExact
  BY <1>4, <1>5 DEF Init, PendingExact, Count
<1> QED
  BY <1>1, <1>3, <1>6 DEF RInv

\* What the types of the counter need.
LEMMA WrapType == \A a \in Int : a % Modulus \in 0 .. Modulus - 1
<1>1. Modulus \in Nat \ {0}
  BY ModulusAssumption, QueriesFinite
<1> QED
  BY <1>1

\* Steps that move no query and count nothing: the tests of the thread's loop,
\* taking the lock, and the destructor's other steps.
LEMMA QuietKeeps ==
    ASSUME RInv,
           \/ LoopCheck \/ ListCheck \/ AresFds \/ ProcessReturns \/ PendingCheck
           \/ WaitReturns \/ DtorRequestStop \/ Join \/ UseDestroyed
           \/ \E q \in Queries : Submit(q)
    PROVE  RInv'
<1> USE DEF RInv
<1>1. /\ UNCHANGED <<m_query_list, qlist, active, posted, m_pending_cnt>>
      /\ tpc = "callback" <=> tpc' = "callback"
      /\ dpc \in {"destroy", "join", "gone"} <=> dpc' \in {"destroy", "join", "gone"}
  BY DEF LoopCheck, ListCheck, AresFds, ProcessReturns, PendingCheck, WaitReturns,
         DtorRequestStop, Join, UseDestroyed, Submit, dtor, submitter
<1>2. TypeOK'
  BY DEF TypeOK, LoopCheck, ListCheck, AresFds, ProcessReturns, PendingCheck, WaitReturns,
         DtorRequestStop, Join, UseDestroyed, Submit, dtor, submitter
<1>3. Late' = Late /\ Submitted' = Submitted
  BY DEF TypeOK, LoopCheck, ListCheck, AresFds, ProcessReturns, PendingCheck, WaitReturns,
         DtorRequestStop, Join, UseDestroyed, Submit, dtor, submitter, Late, Submitted
<1>4. Unanswered' = Unanswered
  BY <1>1 DEF Unanswered
<1>5. Apart'
  BY <1>1, <1>3, <1>4 DEF Apart
<1>6. PendingExact'
  BY <1>1, <1>3, <1>4, CountKept DEF Count
<1> QED
  BY <1>2, <1>5, <1>6

\* PushQuery: the query enters the list and is late.  Nobody else holds it, its
\* coroutine being in await_suspend.
LEMMA PushKeeps ==
    ASSUME RInv, NEW q \in Queries, PushQuery(q)
    PROVE  RInv'
<1> USE DEF RInv
<1>1. q \notin Unanswered /\ q \notin posted /\ q \notin Late /\ q \notin Range(m_query_list)
  BY DEF PushQuery, Apart, Submitted, Late, Unanswered
<1>2. /\ Range(m_query_list') = Range(m_query_list) \cup {q}
      /\ IsInjective(m_query_list') /\ m_query_list' \in Seq(Queries)
  BY <1>1, PushBack, AppendProperties DEF PushQuery, TypeOK, Apart
<1>3. Unanswered' = Unanswered \cup {q}
  BY <1>2 DEF PushQuery, Unanswered
<1>4. Late' = Late \cup {q} /\ Submitted' = Submitted \cup {q}
  BY DEF PushQuery, Late, Submitted, TypeOK
<1>5. TypeOK'
  BY <1>2 DEF PushQuery, TypeOK, dtor
<1>6. Apart'
  BY <1>1, <1>2, <1>3, <1>4 DEF PushQuery, Apart, Unanswered
<1>7. Cardinality(Unanswered') = Cardinality(Unanswered) + 1
      /\ Cardinality(Late') = Cardinality(Late) + 1
  BY <1>1, <1>3, <1>4, PlacesAreQueries, QueriesFinite, FS_AddElement
<1>8. Cardinality(Unanswered) \in Nat /\ Cardinality(Late) \in Nat
  BY PlacesAreQueries, QueriesFinite
<1>9. Count' = Count
  BY <1>7, <1>8 DEF PushQuery, Count, dtor
<1> QED
  BY <1>5, <1>6, <1>9, CountKept DEF PushQuery

\* TryWakeup: the query is counted.
LEMMA WakeupKeeps ==
    ASSUME RInv, NEW q \in Queries, TryWakeup(q)
    PROVE  RInv'
<1> USE DEF RInv
<1>1. q \in Late /\ Late' = Late \ {q} /\ Submitted' = Submitted
  BY DEF TryWakeup, Late, Submitted, TypeOK
<1>2. Unanswered' = Unanswered
  BY DEF TryWakeup, Unanswered
<1>3. TypeOK'
  <2>1. m_pending_cnt' \in 0 .. Modulus - 1
    BY WrapType DEF TryWakeup, TypeOK
  <2> QED
    BY <2>1 DEF TryWakeup, TypeOK, dtor
<1>4. Apart'
  BY <1>1, <1>2 DEF TryWakeup, Apart
<1>5. Cardinality(Late') = Cardinality(Late) - 1
  BY <1>1, PlacesAreQueries, QueriesFinite, FS_RemoveElement
<1>6. Cardinality(Unanswered) \in Nat /\ Cardinality(Late) \in Nat
  BY PlacesAreQueries, QueriesFinite
<1>7. Count' = Count + 1
  BY <1>2, <1>5, <1>6 DEF TryWakeup, Count, dtor
<1> QED
  BY <1>3, <1>4, <1>7, CountStep DEF TryWakeup

\* Resume: the coroutine goes on, and its query is in no place any more.
LEMMA ResumeKeeps ==
    ASSUME RInv, NEW q \in Queries, Resume(q)
    PROVE  RInv'
<1> USE DEF RInv
<1>1. Late' = Late /\ Submitted' = Submitted \ {q} /\ q \in posted
  BY DEF Resume, Late, Submitted, TypeOK
<1>2. Unanswered' = Unanswered
  BY DEF Resume, Unanswered
<1>3. TypeOK'
  BY DEF Resume, TypeOK, dtor
<1>4. Apart'
  BY <1>1, <1>2 DEF Resume, Apart
<1>5. Count' = Count
  BY <1>1, <1>2 DEF Resume, Count, dtor
<1> QED
  BY <1>3, <1>4, <1>5, CountKept DEF Resume

\* ListSwap: what is in the two lists changes places.
LEMMA SwapKeeps ==
    ASSUME RInv, ListSwap
    PROVE  RInv'
<1> USE DEF RInv
<1>1. Unanswered' = Unanswered /\ Late' = Late /\ Submitted' = Submitted
  BY DEF ListSwap, Unanswered, Late, Submitted
<1>2. TypeOK'
  BY DEF ListSwap, TypeOK, dtor
<1>3. Apart'
  BY <1>1 DEF ListSwap, Apart
<1>4. Count' = Count
  BY <1>1 DEF ListSwap, Count, dtor
<1> QED
  BY <1>2, <1>3, <1>4, CountKept DEF ListSwap

\* CallbackReturns: the answer is taken from the counter.
LEMMA CallbackKeeps ==
    ASSUME RInv, CallbackReturns
    PROVE  RInv'
<1> USE DEF RInv
<1>1. Unanswered' = Unanswered /\ Late' = Late /\ Submitted' = Submitted
  BY DEF CallbackReturns, Unanswered, Late, Submitted, submitter
<1>2. TypeOK'
  <2>1. m_pending_cnt' \in 0 .. Modulus - 1
    BY WrapType DEF CallbackReturns, TypeOK
  <2> QED
    BY <2>1 DEF CallbackReturns, TypeOK, dtor, submitter
<1>3. Apart'
  BY <1>1 DEF CallbackReturns, Apart, submitter
<1>4. Cardinality(Unanswered) \in Nat /\ Cardinality(Late) \in Nat
  BY PlacesAreQueries, QueriesFinite
<1>5. Count' = Count + (-1)
  BY <1>1, <1>4 DEF CallbackReturns, Count, dtor, TypeOK
<1>6. m_pending_cnt' = (m_pending_cnt + (-1)) % Modulus
  BY DEF CallbackReturns, TypeOK
<1> QED
  BY <1>2, <1>3, <1>5, <1>6, CountStep

\* query_callback: the query leaves what is to be answered for the io_context it
\* is posted to, and the callback has still to count it.
LEMMA AnswerCounts ==
    ASSUME RInv, NEW q \in Unanswered, Unanswered' = Unanswered \ {q}, Late' = Late,
           tpc # "callback", tpc' = "callback", dpc' = dpc
    PROVE  Count' = Count
<1>1. IsFiniteSet(Unanswered) /\ Cardinality(Unanswered) \in Nat /\ Cardinality(Late) \in Nat
  BY PlacesAreQueries, QueriesFinite DEF RInv
<1>2. Cardinality(Unanswered') = Cardinality(Unanswered) - 1
  BY <1>1, FS_RemoveElement
<1> QED
  BY <1>1, <1>2 DEF Count

\* ares_getaddrinfo takes the first query of the batch.
LEMMA GetAddrInfoKeeps ==
    ASSUME RInv, GetAddrInfo
    PROVE  RInv'
<1> USE DEF RInv
<1> DEFINE h == Head(qlist)
<1>1. /\ h \in Range(qlist) /\ Range(qlist') = Range(qlist) \ {h}
      /\ IsInjective(qlist') /\ qlist' \in Seq(Queries)
  BY PopFront DEF GetAddrInfo, TypeOK, Apart
<1>2. h \in Queries /\ h \notin Range(m_query_list) /\ h \notin active /\ h \notin posted
      /\ h \in Unanswered
  BY <1>1, PlacesAreQueries DEF Apart, Unanswered
<1>3. Late' = Late /\ Submitted' = Submitted /\ m_query_list' = m_query_list /\ dpc' = dpc
      /\ m_pending_cnt' = m_pending_cnt
  BY DEF GetAddrInfo, Late, Submitted, submitter, dtor
<1>4. CASE Callback(h, "get") /\ UNCHANGED active
  <2>1. Unanswered' = Unanswered \ {h} /\ posted' = posted \cup {h}
    BY <1>1, <1>2, <1>3, <1>4 DEF Unanswered, Callback
  <2>2. TypeOK'
    BY <1>1, <1>2, <1>3, <1>4 DEF GetAddrInfo, Callback, TypeOK, submitter, dtor
  <2>3. Apart'
    BY <1>1, <1>2, <1>3, <1>4, <2>1 DEF Apart
  <2>4. Count' = Count
    BY <1>2, <1>3, <1>4, <2>1, AnswerCounts DEF GetAddrInfo, Callback
  <2> QED
    BY <1>3, <2>2, <2>3, <2>4, CountKept
<1>5. CASE active' = active \cup {h} /\ UNCHANGED <<posted, tpc, ret>>
  <2>1. Unanswered' = Unanswered
    BY <1>1, <1>2, <1>3, <1>5 DEF Unanswered
  <2>2. TypeOK'
    BY <1>1, <1>2, <1>3, <1>5 DEF GetAddrInfo, TypeOK, submitter, dtor
  <2>3. Apart'
    BY <1>1, <1>2, <1>3, <1>5, <2>1 DEF Apart
  <2>4. Count' = Count
    BY <1>3, <1>5, <2>1 DEF Count
  <2> QED
    BY <1>3, <2>2, <2>3, <2>4, CountKept
<1> QED
  BY <1>4, <1>5 DEF GetAddrInfo

\* ares_process answers a query it works on.
LEMMA AnswerKeeps ==
    ASSUME RInv, NEW q \in Queries, Answer(q)
    PROVE  RInv'
<1> USE DEF RInv
<1>1. Late' = Late /\ Submitted' = Submitted /\ m_query_list' = m_query_list
      /\ qlist' = qlist /\ dpc' = dpc /\ m_pending_cnt' = m_pending_cnt
  BY DEF Answer, Late, Submitted, submitter, dtor
<1>2. q \in Unanswered /\ q \notin posted
      /\ q \notin Range(m_query_list) /\ q \notin Range(qlist)
  BY DEF Answer, Unanswered, Apart
<1>3. Unanswered' = Unanswered \ {q} /\ posted' = posted \cup {q}
  BY <1>1, <1>2 DEF Answer, Unanswered, Callback
<1>4. TypeOK'
  BY DEF Answer, Callback, TypeOK, submitter, dtor
<1>5. Apart'
  BY <1>1, <1>2, <1>3 DEF Apart, Answer
<1>6. Count' = Count
  BY <1>1, <1>2, <1>3, AnswerCounts DEF Answer, Callback
<1> QED
  BY <1>1, <1>4, <1>5, <1>6, CountKept

\* The destructor's wake-up, and the answers ares_destroy gives.
LEMMA DtorKeeps ==
    ASSUME RInv, DtorWakeup \/ AresDestroy
    PROVE  RInv'
<1> USE DEF RInv
<1>1. Late' = Late /\ Submitted' = Submitted /\ m_query_list' = m_query_list
      /\ qlist' = qlist /\ tpc' = tpc
  BY DEF DtorWakeup, AresDestroy, Late, Submitted, submitter
<1>2. Cardinality(Unanswered) \in Nat /\ Cardinality(Late) \in Nat /\ Cardinality(active) \in Nat
      /\ IsFiniteSet(Unanswered)
  BY PlacesAreQueries, QueriesFinite DEF TypeOK
<1>3. TypeOK'
  <2>1. m_pending_cnt' \in 0 .. Modulus - 1
    <3>1. m_pending_cnt + 1 \in Int /\ m_pending_cnt - Cardinality(active) \in Int
      BY <1>2 DEF TypeOK
    <3> QED
      BY <3>1, WrapType DEF DtorWakeup, AresDestroy
  <2> QED
    BY <2>1 DEF DtorWakeup, AresDestroy, TypeOK, submitter, dtor
<1>4. CASE DtorWakeup
  <2>1. Unanswered' = Unanswered
    BY <1>4 DEF DtorWakeup, Unanswered, submitter
  <2>2. Apart'
    BY <1>1, <1>4, <2>1 DEF DtorWakeup, Apart
  <2>3. Count' = Count + 1
    BY <1>1, <1>2, <1>4, <2>1 DEF DtorWakeup, Count
  <2> QED
    BY <1>3, <1>4, <2>2, <2>3, CountStep DEF DtorWakeup
<1>5. CASE AresDestroy
  <2>1. Unanswered' = Unanswered \ active /\ Unanswered \cap active = active
    BY <1>1, <1>5 DEF AresDestroy, Unanswered, Apart
  <2>2. Apart'
    BY <1>1, <1>5, <2>1 DEF AresDestroy, Apart, Unanswered
  <2>3. Cardinality(Unanswered') = Cardinality(Unanswered) - Cardinality(active)
    <3>1. Cardinality(Unanswered \ active)
            = Cardinality(Unanswered) - Cardinality(Unanswered \cap active)
      BY <1>2, FS_Difference
    <3> QED
      BY <2>1, <3>1, Zenon
  <2>4. Count' = Count + (- Cardinality(active))
    BY <1>1, <1>2, <1>5, <2>3 DEF AresDestroy, Count
  <2>5. m_pending_cnt' = (m_pending_cnt + (- Cardinality(active))) % Modulus
    BY <1>2, <1>5 DEF AresDestroy, TypeOK
  <2> QED
    BY <1>2, <1>3, <2>2, <2>4, <2>5, CountStep
<1> QED
  BY <1>4, <1>5

\* The inductive invariant holds in every reachable state.
LEMMA RInvariant == Spec => []RInv
<1>1. ASSUME RInv, [Next]_vars PROVE RInv'
  <2>1. CASE UNCHANGED vars
    BY <1>1, <2>1 DEF vars, RInv, TypeOK, Apart, PendingExact, Unanswered, Late, Submitted
  <2>2. CASE Step
    BY <1>1, <2>2, QuietKeeps, PushKeeps, WakeupKeeps, ResumeKeeps, SwapKeeps, CallbackKeeps,
       GetAddrInfoKeeps, AnswerKeeps, DtorKeeps
       DEF Step, SubmitStep, ThreadStep, DtorStep
  <2> QED
    BY <1>1, <2>1, <2>2 DEF Next, Over
<1> QED
  BY <1>1, RInvInit, PTL DEF Spec

-----------------------------------------------------------------------------
(* The theorems. *)

\* For any number of queries: each is in one place and is counted once, through
\* the unlocked empty(), the swap, an answer that comes before the count, and
\* the destructor (resolver.hpp:113-121, 131-142, 157-166, 186-189).
THEOREM QueriesAreAccounted == Spec => []QueriesAccounted
<1>1. RInv => QueriesAccounted
  BY ApartIsHeldOnce DEF RInv, QueriesAccounted
<1> QED
  BY <1>1, RInvariant, PTL

\* The thread does not sleep on work: a counter of zero with queries to answer
\* means that a caller has still to count its query, because the counter is too
\* wide to wrap round to zero (resolver.hpp:178-181).
THEOREM SleepIsIdle == Spec => []SleepsOnlyWhenIdle
<1>1. RInv => SleepsOnlyWhenIdle
  <2> SUFFICES ASSUME RInv, tpc = "wait", m_pending_cnt = 0, Unanswered # {}, Late = {}
               PROVE  FALSE
    BY DEF SleepsOnlyWhenIdle
  <2>1. /\ Cardinality(Unanswered) \in Nat /\ Cardinality(Unanswered) # 0
        /\ Cardinality(Unanswered) <= Cardinality(Queries) /\ Cardinality(Late) = 0
    BY PlacesAreQueries, QueriesFinite, FS_EmptySet DEF RInv
  <2>2. Count \in 1 .. Modulus - 1 /\ Modulus \in Nat \ {0}
    <3>1. Cardinality(Queries) \in Nat /\ Modulus \in Nat /\ Modulus > Cardinality(Queries) + 2
      BY ModulusAssumption, QueriesFinite
    <3> QED
      BY <2>1, <3>1 DEF Count
  <2>3. m_pending_cnt = Count % Modulus
    BY DEF RInv, PendingExact, Count
  <2> HIDE DEF Count
  <2> QED
    BY <2>2, <2>3
<1> QED
  BY <1>1, RInvariant, PTL
=============================================================================
