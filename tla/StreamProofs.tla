---------------------------- MODULE StreamProofs ----------------------------
(***************************************************************************)
(* The stream buffer is a byte queue, for any size of its vector and any   *)
(* room asked for.                                                         *)
(***************************************************************************)
EXTENDS StreamBuffer, SequenceTheorems, TLAPS

-----------------------------------------------------------------------------
(* The operations on a buffer. *)

\* The part of a sequence after its first m and up to its first n elements.
LEMMA Slice ==
    ASSUME NEW S, NEW s \in Seq(S), NEW m \in Nat, NEW n \in Nat, m <= n, n <= Len(s)
    PROVE  /\ SubSeq(s, m + 1, n) \in Seq(S) /\ Len(SubSeq(s, m + 1, n)) = n - m
           /\ \A i \in 1 .. n - m : SubSeq(s, m + 1, n)[i] = s[m + i]
OBVIOUS

Cells == Bytes \cup {"zero"}

Buffers == [m_buf : Seq(Cells), gptr : Nat, egptr : Nat, pptr : Nat, epptr : Nat]

Good(u) == u \in Buffers /\ PtrsOK(u)

\* Three sequences joined, the first a prefix of m.
LEMMA Joined ==
    ASSUME NEW S, NEW x \in Seq(S), NEW s \in Seq(S), NEW z \in Seq(S), NEW m \in Seq(S),
           Len(x) + Len(s) + Len(z) = Len(m),
           \A i \in 1 .. Len(x) : x[i] = m[i]
    PROVE  /\ x \o s \o z \in Seq(S) /\ Len(x \o s \o z) = Len(m)
           /\ \A i \in 1 .. Len(x) : (x \o s \o z)[i] = m[i]
           /\ \A i \in 1 .. Len(s) : (x \o s \o z)[Len(x) + i] = s[i]
OBVIOUS

\* m with the part after its first p elements overwritten by s
Spliced(m, p, s) == SubSeq(m, 1, p) \o s \o SubSeq(m, p + Len(s) + 1, Len(m))

\* What overwriting changes and what it does not.
LEMMA Splice ==
    ASSUME NEW S, NEW m \in Seq(S), NEW s \in Seq(S), NEW p \in Nat, p + Len(s) <= Len(m)
    PROVE  /\ Spliced(m, p, s) \in Seq(S) /\ Len(Spliced(m, p, s)) = Len(m)
           /\ \A i \in 1 .. p : Spliced(m, p, s)[i] = m[i]
           /\ \A i \in 1 .. Len(s) : Spliced(m, p, s)[p + i] = s[i]
<1> DEFINE x == SubSeq(m, 1, p)
           z == SubSeq(m, p + Len(s) + 1, Len(m))
<1>1. x \in Seq(S) /\ Len(x) = p /\ \A i \in 1 .. Len(x) : x[i] = m[i]
  OBVIOUS
<1>2. z \in Seq(S) /\ Len(z) = Len(m) - (p + Len(s)) 
  OBVIOUS
<1>3. Spliced(m, p, s) = x \o s \o z
  BY DEF Spliced
<1> HIDE DEF x, z
<1>4. Len(x) + Len(s) + Len(z) = Len(m)
  BY <1>1, <1>2
<1>5. /\ x \o s \o z \in Seq(S) /\ Len(x \o s \o z) = Len(m)
      /\ \A i \in 1 .. Len(x) : (x \o s \o z)[i] = m[i]
      /\ \A i \in 1 .. Len(s) : (x \o s \o z)[Len(x) + i] = s[i]
  BY <1>1, <1>2, <1>4, Joined
<1> QED
  BY <1>1, <1>3, <1>5

\* v is the buffer with these fields
HasFields(v, m, g, e, p, ep) ==
    /\ v \in Buffers /\ v.m_buf = m
    /\ v.gptr = g /\ v.egptr = e /\ v.pptr = p /\ v.epptr = ep

\* Assignments to fields of a buffer: its cells.
LEMMA AssignCells ==
    ASSUME NEW u \in Buffers, NEW m \in Seq(Cells), NEW v, v = [u EXCEPT !.m_buf = m]
    PROVE  HasFields(v, m, u.gptr, u.egptr, u.pptr, u.epptr)
BY DEF HasFields, Buffers

\* The put pointer and the end of the get area.
LEMMA AssignPut ==
    ASSUME NEW u \in Buffers, NEW p \in Nat, NEW e \in Nat,
           NEW v, v = [u EXCEPT !.pptr = p, !.egptr = e]
    PROVE  HasFields(v, u.m_buf, u.gptr, e, p, u.epptr)
BY DEF HasFields, Buffers

\* The get area.
LEMMA AssignGet ==
    ASSUME NEW u \in Buffers, NEW e \in Nat, NEW g \in Nat,
           NEW v, v = [u EXCEPT !.egptr = e, !.gptr = g]
    PROVE  HasFields(v, u.m_buf, g, e, u.pptr, u.epptr)
BY DEF HasFields, Buffers

\* What resize() fills in.
LEMMA ZerosAreCells ==
    ASSUME NEW n \in Nat
    PROVE  Zeros(n) \in Seq(Cells) /\ Len(Zeros(n)) = n
<1>1. Zeros(n) \in [1 .. n -> Cells]
  BY DEF Zeros, Cells
<1> QED
  BY <1>1

\* A new buffer is good and empty.
LEMMA NewIsGood == Good(NewBuffer) /\ Size(NewBuffer) = 0 /\ Data(NewBuffer) = <<>>
<1>1. Zeros(BufSize) \in Seq(Cells) /\ Len(Zeros(BufSize)) = BufSize
  BY ZerosAreCells, BufSizeAssumption
<1>2. Good(NewBuffer) /\ Size(NewBuffer) = 0
  BY <1>1, BufSizeAssumption DEF NewBuffer, Good, Buffers, PtrsOK, Size
<1>3. Data(NewBuffer) = <<>>
  BY <1>1 DEF Data, NewBuffer
<1> QED
  BY <1>2, <1>3

\* data() cell by cell.
LEMMA DataIs ==
    ASSUME NEW u, Good(u)
    PROVE  /\ Data(u) \in Seq(Cells) /\ Size(u) \in Nat /\ Len(Data(u)) = Size(u)
           /\ \A i \in 1 .. Size(u) : Data(u)[i] = u.m_buf[u.gptr + i]
<1>1. /\ u.m_buf \in Seq(Cells) /\ u.gptr \in Nat /\ u.pptr \in Nat
      /\ u.gptr <= u.pptr /\ u.pptr <= Len(u.m_buf)
  BY DEF Good, Buffers, PtrsOK
<1>2. Size(u) \in Nat /\ Size(u) = u.pptr - u.gptr
  BY <1>1 DEF Size
<1>3. /\ Data(u) \in Seq(Cells) /\ Len(Data(u)) = u.pptr - u.gptr
      /\ \A i \in 1 .. u.pptr - u.gptr : Data(u)[i] = u.m_buf[u.gptr + i]
  BY <1>1, Slice, Zenon DEF Data
<1> QED
  BY <1>2, <1>3

\* Two buffers with the same cells between gptr and pptr.
LEMMA SameData ==
    ASSUME NEW u, Good(u), NEW v, Good(v), v.gptr = u.gptr, v.pptr = u.pptr,
           \A i \in 1 .. u.pptr : v.m_buf[i] = u.m_buf[i]
    PROVE  Data(v) = Data(u)
<1>1. u.gptr \in Nat /\ u.pptr \in Nat /\ u.gptr <= u.pptr /\ Size(v) = Size(u)
      /\ Size(u) = u.pptr - u.gptr
  BY DEF Good, Buffers, PtrsOK, Size
<1>2. ASSUME NEW i \in 1 .. Size(u) PROVE Data(v)[i] = Data(u)[i]
  <2>1. Data(u)[i] = u.m_buf[u.gptr + i] /\ Data(v)[i] = v.m_buf[v.gptr + i]
    BY <1>1, DataIs
  <2>2. u.gptr + i \in 1 .. u.pptr
    BY <1>1
  <2> QED
    BY <2>1, <2>2
<1>3. Data(u) \in Seq(Cells) /\ Data(v) \in Seq(Cells) /\ Len(Data(u)) = Len(Data(v))
      /\ Len(Data(u)) = Size(u)
  BY <1>1, DataIs
<1> QED
  BY <1>2, <1>3, SeqEqual

\* reserve(n): room for n more, everything else as before.
LEMMA ReserveKeeps ==
    ASSUME NEW u, Good(u), NEW n \in Nat
    PROVE  /\ Good(Reserve(u, n)) /\ Data(Reserve(u, n)) = Data(u)
           /\ Reserve(u, n).pptr = u.pptr /\ Reserve(u, n).gptr = u.gptr
           /\ u.pptr + n <= Reserve(u, n).epptr
<1> DEFINE v == Reserve(u, n)
<1>0. /\ u \in Buffers /\ u.m_buf \in Seq(Cells) /\ u.gptr \in Nat /\ u.egptr \in Nat
      /\ u.pptr \in Nat /\ u.epptr \in Nat
      /\ u.gptr <= u.egptr /\ u.egptr <= u.pptr /\ u.pptr <= u.epptr /\ u.epptr = Len(u.m_buf)
  BY DEF Good, Buffers, PtrsOK
<1>1. CASE u.epptr - u.pptr >= n
  BY <1>0, <1>1 DEF Reserve
<1>2. CASE ~(u.epptr - u.pptr >= n)
  <2> DEFINE k == u.pptr + n - u.epptr
             m == u.m_buf \o Zeros(k)
  <2>1. k \in Nat
    BY <1>0, <1>2
  <2>2. v = [m_buf |-> m, gptr |-> u.gptr, egptr |-> u.pptr, pptr |-> u.pptr,
             epptr |-> u.pptr + n]
    BY <1>0, <1>2 DEF Reserve, Buffers
  <2>3. m \in Seq(Cells) /\ Len(m) = u.epptr + k /\ \A i \in 1 .. u.epptr : m[i] = u.m_buf[i]
    <3>1. Zeros(k) \in Seq(Cells) /\ Len(Zeros(k)) = k
      BY <2>1, ZerosAreCells
    <3> HIDE DEF k
    <3>2. /\ m \in Seq(Cells) /\ Len(m) = Len(u.m_buf) + Len(Zeros(k))
          /\ \A i \in 1 .. Len(u.m_buf) + Len(Zeros(k)) :
                m[i] = IF i <= Len(u.m_buf) THEN u.m_buf[i] ELSE Zeros(k)[i - Len(u.m_buf)]
      BY <1>0, <3>1, ConcatProperties, Zenon
    <3> HIDE DEF m
    <3>3. \A i \in 1 .. u.epptr : i \in 1 .. Len(u.m_buf) + k /\ i <= Len(u.m_buf)
      BY <1>0, <2>1
    <3> QED
      BY <1>0, <3>1, <3>2, <3>3
  <2>4. u.epptr + k = u.pptr + n
    BY <1>0
  <2> HIDE DEF k, m, v
  <2>5. Good(v)
    BY <1>0, <2>2, <2>3, <2>4 DEF Good, Buffers, PtrsOK
  <2>6. \A i \in 1 .. u.pptr : v.m_buf[i] = u.m_buf[i]
    BY <1>0, <2>2, <2>3
  <2>7. Data(v) = Data(u)
    BY <2>2, <2>5, <2>6, SameData
  <2> QED
    BY <1>0, <2>2, <2>5, <2>7 DEF v
<1> QED
  BY <1>1, <1>2

\* The kernel fills the front of the room given out.
LEMMA FillKeeps ==
    ASSUME NEW u, Good(u), NEW s \in Seq(Cells), Len(s) <= u.epptr - u.pptr
    PROVE  /\ Good(Fill(u, s)) /\ Data(Fill(u, s)) = Data(u)
           /\ Fill(u, s).pptr = u.pptr /\ Fill(u, s).gptr = u.gptr
           /\ Fill(u, s).epptr = u.epptr /\ Fill(u, s).egptr = u.egptr
           /\ \A i \in 1 .. u.pptr : Fill(u, s).m_buf[i] = u.m_buf[i]
           /\ \A i \in 1 .. Len(s) : Fill(u, s).m_buf[u.pptr + i] = s[i]
<1> DEFINE v == Fill(u, s)
           m == Spliced(u.m_buf, u.pptr, s)
<1>0. /\ u \in Buffers /\ u.m_buf \in Seq(Cells) /\ u.gptr \in Nat /\ u.egptr \in Nat
      /\ u.pptr \in Nat /\ u.epptr \in Nat
      /\ u.gptr <= u.egptr /\ u.egptr <= u.pptr /\ u.pptr <= u.epptr /\ u.epptr = Len(u.m_buf)
      /\ Len(s) \in Nat /\ u.pptr + Len(s) <= Len(u.m_buf)
  BY DEF Good, Buffers, PtrsOK
<1>1. v = [u EXCEPT !.m_buf = m]
  BY DEF Fill, Spliced
<1>2. /\ m \in Seq(Cells) /\ Len(m) = Len(u.m_buf)
      /\ \A i \in 1 .. u.pptr : m[i] = u.m_buf[i]
      /\ \A i \in 1 .. Len(s) : m[u.pptr + i] = s[i]
  <2>1. u.pptr + Len(s) <= Len(u.m_buf) /\ u.pptr \in Nat /\ u.m_buf \in Seq(Cells)
    BY <1>0
  <2> QED
    BY <2>1, Splice
<1> HIDE DEF m, v
<1>3. HasFields(v, m, u.gptr, u.egptr, u.pptr, u.epptr)
  BY <1>0, <1>1, <1>2, AssignCells
<1>4. Good(v)
  BY <1>0, <1>2, <1>3 DEF Good, PtrsOK, HasFields
<1>5. Data(v) = Data(u)
  BY <1>2, <1>3, <1>4, SameData DEF HasFields
<1> QED
  BY <1>2, <1>3, <1>4, <1>5 DEF v, HasFields

\* commit(n): the put pointer moves over n cells, or as many as there are.
LEMMA CommitMoves ==
    ASSUME NEW u, Good(u), NEW n \in Nat
    PROVE  /\ Good(Commit(u, n)) /\ Commit(u, n).m_buf = u.m_buf
           /\ Commit(u, n).gptr = u.gptr /\ Commit(u, n).epptr = u.epptr
           /\ Commit(u, n).pptr = u.pptr + Least(n, u.epptr - u.pptr)
<1> DEFINE p == u.pptr + Least(n, u.epptr - u.pptr)
<1>0. /\ u \in Buffers /\ u.m_buf \in Seq(Cells) /\ u.gptr \in Nat /\ u.egptr \in Nat
      /\ u.pptr \in Nat /\ u.epptr \in Nat
      /\ u.gptr <= u.egptr /\ u.egptr <= u.pptr /\ u.pptr <= u.epptr /\ u.epptr = Len(u.m_buf)
  BY DEF Good, Buffers, PtrsOK
<1>1. p \in Nat /\ u.pptr <= p /\ p <= u.epptr
  BY <1>0 DEF Least
<1>2. Commit(u, n) = [u EXCEPT !.pptr = p, !.egptr = p]
  BY DEF Commit
<1> HIDE DEF p
<1>3. HasFields(Commit(u, n), u.m_buf, u.gptr, p, p, u.epptr)
  BY <1>0, <1>1, <1>2, AssignPut
<1> QED
  BY <1>0, <1>1, <1>3 DEF Good, PtrsOK, HasFields, p

\* A sequence that has two others behind one another is their concatenation.
LEMMA JoinIs ==
    ASSUME NEW S, NEW x \in Seq(S), NEW y \in Seq(S), NEW d \in Seq(S),
           Len(d) = Len(x) + Len(y),
           \A i \in 1 .. Len(x) : d[i] = x[i],
           \A i \in 1 .. Len(y) : d[Len(x) + i] = y[i]
    PROVE  d = x \o y
<1>1. /\ x \o y \in Seq(S) /\ Len(x \o y) = Len(x) + Len(y)
      /\ \A i \in 1 .. Len(x) : (x \o y)[i] = x[i]
      /\ \A i \in 1 .. Len(y) : (x \o y)[Len(x) + i] = y[i]
  OBVIOUS
<1> DEFINE j == x \o y
<1> HIDE DEF j
<1>2. ASSUME NEW i \in 1 .. Len(d) PROVE d[i] = j[i]
  <2>1. CASE i <= Len(x)
    BY <1>1, <2>1 DEF j
  <2>2. CASE ~(i <= Len(x))
    <3>1. i - Len(x) \in 1 .. Len(y) /\ Len(x) + (i - Len(x)) = i
      BY <2>2
    <3>2. d[Len(x) + (i - Len(x))] = y[i - Len(x)] /\ j[Len(x) + (i - Len(x))] = y[i - Len(x)]
      BY <1>1, <3>1 DEF j
    <3> QED
      BY <3>1, <3>2
  <2> QED
    BY <2>1, <2>2
<1>3. d = j
  BY <1>1, <1>2, SeqEqual DEF j
<1> QED
  BY <1>3 DEF j

\* The bytes the kernel filled in are data once they are committed, behind what
\* was there; committing more than was filled adds what the room contained.
LEMMA CommitFilled ==
    ASSUME NEW u, Good(u), NEW s \in Seq(Cells), Len(s) <= u.epptr - u.pptr, NEW n \in Nat,
           NEW v, v = Commit(Fill(u, s), n)
    PROVE  /\ Good(v) /\ v.gptr = u.gptr /\ v.epptr = u.epptr
           /\ v.pptr = u.pptr + Least(n, u.epptr - u.pptr)
           /\ \A i \in 1 .. Size(u) : Data(v)[i] = Data(u)[i]
           /\ n <= Len(s) => Data(v) = Data(u) \o SubSeq(s, 1, n)
<1> DEFINE w == Fill(u, s)
<1>0. /\ u.gptr \in Nat /\ u.pptr \in Nat /\ u.epptr \in Nat /\ u.gptr <= u.pptr
      /\ u.pptr <= u.epptr /\ Size(u) = u.pptr - u.gptr /\ Len(s) \in Nat
  BY DEF Good, Buffers, PtrsOK, Size
<1>1. /\ Good(w) /\ w.pptr = u.pptr /\ w.gptr = u.gptr /\ w.epptr = u.epptr
      /\ \A i \in 1 .. u.pptr : w.m_buf[i] = u.m_buf[i]
      /\ \A i \in 1 .. Len(s) : w.m_buf[u.pptr + i] = s[i]
  BY FillKeeps
<1> HIDE DEF w
<1>2. /\ Good(v) /\ v.m_buf = w.m_buf /\ v.gptr = u.gptr /\ v.epptr = u.epptr
      /\ v.pptr = u.pptr + Least(n, u.epptr - u.pptr)
  BY <1>1, CommitMoves DEF w
<1>3. Least(n, u.epptr - u.pptr) \in Nat /\ Size(v) = Size(u) + Least(n, u.epptr - u.pptr)
  BY <1>0, <1>2 DEF Least, Size
<1>4. ASSUME NEW i \in 1 .. Size(u) PROVE Data(v)[i] = Data(u)[i]
  <2>1. i \in 1 .. Size(v) /\ u.gptr + i \in 1 .. u.pptr
    BY <1>0, <1>3
  <2>2. Data(v)[i] = v.m_buf[u.gptr + i] /\ Data(u)[i] = u.m_buf[u.gptr + i]
    BY <1>2, <2>1, DataIs
  <2> QED
    BY <1>1, <1>2, <2>1, <2>2
<1>5. ASSUME n <= Len(s) PROVE Data(v) = Data(u) \o SubSeq(s, 1, n)
  <2> DEFINE y == SubSeq(s, 1, n)
  <2>1. y \in Seq(Cells) /\ Len(y) = n /\ \A i \in 1 .. n : y[i] = s[i]
    BY <1>5
  <2> HIDE DEF y
  <2>2. Size(v) = Size(u) + n
    BY <1>0, <1>3, <1>5 DEF Least
  <2>3. /\ Data(v) \in Seq(Cells) /\ Len(Data(v)) = Size(v)
        /\ Data(u) \in Seq(Cells) /\ Len(Data(u)) = Size(u)
    BY <1>2, DataIs
  <2>4. ASSUME NEW i \in 1 .. n PROVE Data(v)[Size(u) + i] = y[i]
    <3>1. /\ Size(u) + i \in 1 .. Size(v) /\ u.gptr + (Size(u) + i) = u.pptr + i
          /\ i \in 1 .. Len(s)
      BY <1>0, <1>5, <2>2
    <3>2. Data(v)[Size(u) + i] = v.m_buf[v.gptr + (Size(u) + i)]
      BY <1>2, <3>1, DataIs
    <3> QED
      BY <1>1, <1>2, <2>1, <3>1, <3>2
  <2>5. /\ Len(Data(v)) = Len(Data(u)) + Len(y)
        /\ \A i \in 1 .. Len(Data(u)) : Data(v)[i] = Data(u)[i]
        /\ \A i \in 1 .. Len(y) : Data(v)[Len(Data(u)) + i] = y[i]
    BY <1>4, <2>1, <2>2, <2>3, <2>4
  <2>6. Data(v) = Data(u) \o y
    <3> DEFINE d == Data(v)
               x == Data(u)
    <3>1. /\ x \in Seq(Cells) /\ y \in Seq(Cells) /\ d \in Seq(Cells)
          /\ Len(d) = Len(x) + Len(y)
          /\ \A i \in 1 .. Len(x) : d[i] = x[i]
          /\ \A i \in 1 .. Len(y) : d[Len(x) + i] = y[i]
      BY <2>1, <2>3, <2>5
    <3> HIDE DEF d, x
    <3>2. d = x \o y
      BY <3>1, JoinIs
    <3> QED
      BY <3>2 DEF d, x
  <2> QED
    BY <2>6 DEF y
<1> QED
  BY <1>2, <1>4, <1>5

\* A buffer whose get pointer moved on by k holds what is behind the first k bytes.
LEMMA Advanced ==
    ASSUME NEW u, Good(u), NEW v, Good(v), NEW k \in Nat, k <= Size(u),
           v.m_buf = u.m_buf, v.gptr = u.gptr + k, v.pptr = u.pptr
    PROVE  /\ Size(v) = Size(u) - k
           /\ Data(v) = SubSeq(Data(u), k + 1, Size(u))
<1> DEFINE d == Data(u)
           y == SubSeq(d, k + 1, Size(u))
<1>0. /\ u.gptr \in Nat /\ u.pptr \in Nat /\ Size(u) = u.pptr - u.gptr /\ Size(u) \in Nat
      /\ Size(v) = Size(u) - k
  BY DEF Good, Buffers, PtrsOK, Size
<1>1. /\ d \in Seq(Cells) /\ Len(d) = Size(u) /\ \A i \in 1 .. Size(u) : d[i] = u.m_buf[u.gptr + i]
      /\ Data(v) \in Seq(Cells) /\ Len(Data(v)) = Size(v)
      /\ \A i \in 1 .. Size(v) : Data(v)[i] = v.m_buf[v.gptr + i]
  BY DataIs
<1> HIDE DEF d
<1>2. y \in Seq(Cells) /\ Len(y) = Size(u) - k /\ \A i \in 1 .. Size(u) - k : y[i] = d[k + i]
  <2>1. Size(u) <= Len(d) /\ Size(u) \in Nat
    BY <1>0, <1>1
  <2> QED
    BY <1>1, <2>1, Slice, Zenon
<1> HIDE DEF y
<1>3. ASSUME NEW i \in 1 .. Size(v) PROVE Data(v)[i] = y[i]
  <2>1. k + i \in 1 .. Size(u) /\ u.gptr + (k + i) = v.gptr + i /\ i \in 1 .. Size(u) - k
    BY <1>0
  <2> QED
    BY <1>1, <1>2, <2>1
<1>4. Data(v) = y
  BY <1>0, <1>1, <1>2, <1>3, SeqEqual
<1> QED
  BY <1>0, <1>4 DEF d, y

\* consume(n) drops the first n bytes, or all when there are fewer.
LEMMA ConsumeIs ==
    ASSUME NEW u, Good(u), NEW n \in Nat, NEW v, v = Consume(u, n)
    PROVE  /\ Good(v) /\ v.pptr = u.pptr /\ v.epptr = u.epptr
           /\ Least(n, Size(u)) \in Nat /\ Least(n, Size(u)) <= Size(u)
           /\ Size(v) = Size(u) - Least(n, Size(u))
           /\ Data(v) = SubSeq(Data(u), Least(n, Size(u)) + 1, Size(u))
<1> DEFINE k == Least(n, Size(u))
           g == u.gptr + k
<1>0. /\ u \in Buffers /\ u.gptr \in Nat /\ u.egptr \in Nat /\ u.pptr \in Nat /\ u.epptr \in Nat
      /\ u.gptr <= u.egptr /\ u.egptr <= u.pptr /\ u.pptr <= u.epptr /\ u.epptr = Len(u.m_buf)
      /\ Size(u) = u.pptr - u.gptr
  BY DEF Good, Buffers, PtrsOK, Size
<1>1. k \in Nat /\ k <= Size(u) /\ g \in Nat /\ g <= u.pptr
  BY <1>0 DEF Least
<1>2. (IF u.egptr < u.pptr THEN u.pptr ELSE u.egptr) = u.pptr
  BY <1>0
<1>3. v = [u EXCEPT !.egptr = u.pptr, !.gptr = g]
  BY <1>0, <1>2 DEF Consume
<1> HIDE DEF g, k
<1>4. HasFields(v, u.m_buf, g, u.pptr, u.pptr, u.epptr)
  BY <1>0, <1>1, <1>3, AssignGet
<1>5. Good(v)
  BY <1>0, <1>1, <1>4 DEF Good, PtrsOK, HasFields
<1>6. /\ Size(v) = Size(u) - k /\ Data(v) = SubSeq(Data(u), k + 1, Size(u))
  BY <1>1, <1>4, <1>5, Advanced DEF HasFields, g
<1> QED
  BY <1>1, <1>4, <1>5, <1>6 DEF HasFields, k

\* sbumpc() takes the first byte.
LEMMA GetByteIs ==
    ASSUME NEW u, Good(u), CanGet(u), NEW v, v = GetByte(u)
    PROVE  /\ Good(v) /\ v.pptr = u.pptr /\ v.epptr = u.epptr /\ 1 <= Size(u)
           /\ Data(v) = SubSeq(Data(u), 1 + 1, Size(u))
<1> DEFINE e == IF u.gptr < u.egptr THEN u.egptr ELSE u.pptr
           g == u.gptr + 1
<1>0. /\ u \in Buffers /\ u.gptr \in Nat /\ u.egptr \in Nat /\ u.pptr \in Nat /\ u.epptr \in Nat
      /\ u.gptr <= u.egptr /\ u.egptr <= u.pptr /\ u.pptr <= u.epptr /\ u.epptr = Len(u.m_buf)
      /\ Size(u) = u.pptr - u.gptr
  BY DEF Good, Buffers, PtrsOK, Size
<1>1. e \in Nat /\ g \in Nat /\ g <= e /\ e <= u.pptr /\ 1 <= Size(u)
  BY <1>0 DEF CanGet
<1>2. v = [u EXCEPT !.egptr = e, !.gptr = g]
  BY <1>0 DEF GetByte, Buffers
<1> HIDE DEF g, e
<1>3. HasFields(v, u.m_buf, g, e, u.pptr, u.epptr)
  BY <1>0, <1>1, <1>2, AssignGet
<1>4. Good(v)
  BY <1>0, <1>1, <1>3 DEF Good, PtrsOK, HasFields
<1>5. Data(v) = SubSeq(Data(u), 1 + 1, Size(u))
  BY <1>1, <1>3, <1>4, Advanced DEF HasFields, g
<1> QED
  BY <1>1, <1>3, <1>4, <1>5 DEF HasFields

\* An assignment to the put pointer alone.
LEMMA AssignPutOnly ==
    ASSUME NEW u \in Buffers, NEW p \in Nat, NEW v, v = [u EXCEPT !.pptr = p]
    PROVE  HasFields(v, u.m_buf, u.gptr, u.egptr, p, u.epptr)
BY DEF HasFields, Buffers

\* sputc(c) appends c, growing the vector when it is full.
LEMMA PutByteIs ==
    ASSUME NEW u, Good(u), NEW k \in Nat, k # 0, NEW c \in Bytes, NEW v, v = PutByte(u, k, c)
    PROVE  /\ Good(v) /\ Size(v) = Size(u) + 1
           /\ \A i \in 1 .. Size(u) : Data(v)[i] = Data(u)[i]
           /\ Data(v)[Size(u) + 1] = c
<1> DEFINE r == IF u.pptr < u.epptr THEN u ELSE Reserve(u, k)
           w == Fill(r, <<c>>)
<1>0. u.gptr \in Nat /\ u.pptr \in Nat /\ u.epptr \in Nat /\ Size(u) = u.pptr - u.gptr
  BY DEF Good, Buffers, PtrsOK, Size
<1>1. /\ Good(r) /\ Data(r) = Data(u) /\ r.pptr = u.pptr /\ r.gptr = u.gptr
      /\ r.pptr + 1 <= r.epptr
  <2>1. CASE u.pptr < u.epptr
    BY <1>0, <2>1
  <2>2. CASE ~(u.pptr < u.epptr)
    <3>1. /\ Good(Reserve(u, k)) /\ Data(Reserve(u, k)) = Data(u)
          /\ Reserve(u, k).pptr = u.pptr /\ Reserve(u, k).gptr = u.gptr
          /\ u.pptr + k <= Reserve(u, k).epptr
      BY ReserveKeeps
    <3>2. Reserve(u, k).epptr \in Nat
      BY <3>1 DEF Good, Buffers
    <3> QED
      BY <1>0, <2>2, <3>1, <3>2
  <2> QED
    BY <2>1, <2>2
<1>2. v = [w EXCEPT !.pptr = w.pptr + 1]
  BY DEF PutByte
<1> HIDE DEF r
<1>3. /\ Good(w) /\ Data(w) = Data(r) /\ w.pptr = r.pptr /\ w.gptr = r.gptr
      /\ w.epptr = r.epptr /\ w.m_buf[r.pptr + 1] = c
  <2>1. <<c>> \in Seq(Cells) /\ Len(<<c>>) = 1 /\ <<c>>[1] = c
    BY DEF Cells
  <2>2. Len(<<c>>) <= r.epptr - r.pptr
    BY <1>1, <2>1 DEF Good, Buffers
  <2>3. 1 \in 1 .. Len(<<c>>)
    BY <2>1
  <2> QED
    BY <1>1, <2>1, <2>2, <2>3, FillKeeps
<1> HIDE DEF w
<1>4. HasFields(v, w.m_buf, w.gptr, w.egptr, w.pptr + 1, w.epptr)
  BY <1>0, <1>1, <1>2, <1>3, AssignPutOnly DEF Good
<1>5. Good(v)
  <2>1. /\ w.gptr \in Nat /\ w.egptr \in Nat /\ w.pptr \in Nat /\ w.epptr \in Nat
        /\ w.gptr <= w.egptr /\ w.egptr <= w.pptr /\ w.epptr = Len(w.m_buf)
        /\ w.pptr + 1 <= w.epptr
    BY <1>1, <1>3 DEF Good, PtrsOK
  <2>2. w.egptr <= w.pptr + 1 /\ w.pptr + 1 \in Nat
    BY <2>1
  <2> QED
    BY <1>4, <2>1, <2>2 DEF Good, PtrsOK, HasFields
<1>6. Size(w) = Size(u) /\ Size(v) = Size(u) + 1 /\ Size(u) \in Nat
  BY <1>0, <1>1, <1>3, <1>4, DataIs DEF Size, HasFields
<1>7. ASSUME NEW i \in 1 .. Size(u) PROVE Data(v)[i] = Data(u)[i]
  <2>1. i \in 1 .. Size(v) /\ i \in 1 .. Size(w)
    BY <1>6
  <2>2. Data(v)[i] = v.m_buf[v.gptr + i] /\ Data(w)[i] = w.m_buf[w.gptr + i]
    BY <1>3, <1>5, <2>1, DataIs
  <2> QED
    BY <1>1, <1>3, <1>4, <2>2 DEF HasFields
<1>8. Data(v)[Size(u) + 1] = c
  <2>1. Size(u) + 1 \in 1 .. Size(v) /\ v.gptr + (Size(u) + 1) = r.pptr + 1
    BY <1>0, <1>1, <1>3, <1>4, <1>6 DEF HasFields
  <2>2. Data(v)[Size(u) + 1] = v.m_buf[v.gptr + (Size(u) + 1)]
    BY <1>5, <2>1, DataIs
  <2> QED
    BY <1>3, <1>4, <2>1, <2>2 DEF HasFields
<1> QED
  BY <1>5, <1>6, <1>7, <1>8

-----------------------------------------------------------------------------
(* The byte queue. *)

\* A sequence that begins with another.
LEMMA BeginsWith ==
    ASSUME NEW S, NEW x \in Seq(S), NEW d \in Seq(S), Len(x) <= Len(d),
           \A i \in 1 .. Len(x) : d[i] = x[i]
    PROVE  Queue!IsPrefix(x, d)
<1>1. SubSeq(x, 1, Len(x)) = x
  BY SubSeqFull
<1>2. SubSeq(d, 1, Len(x)) \in Seq(S) /\ Len(SubSeq(d, 1, Len(x))) = Len(x)
      /\ \A i \in 1 .. Len(x) : SubSeq(d, 1, Len(x))[i] = d[i]
  OBVIOUS
<1>3. SubSeq(d, 1, Len(x)) = x
  BY <1>2, SeqEqual
<1> QED
  BY <1>1, <1>3 DEF Queue!IsPrefix

\* What is behind the first k elements ends the sequence.
LEMMA EndsWith ==
    ASSUME NEW S, NEW d \in Seq(S), NEW k \in Nat, k <= Len(d)
    PROVE  Queue!IsSuffix(SubSeq(d, k + 1, Len(d)), d)
<1> DEFINE y == SubSeq(d, k + 1, Len(d))
           ry == Queue!Reverse(y)
           rd == Queue!Reverse(d)
<1>1. y \in Seq(S) /\ Len(y) = Len(d) - k /\ \A i \in 1 .. Len(d) - k : y[i] = d[k + i]
  BY Slice
<1> HIDE DEF y
<1>2. ry \in Seq(S) /\ Len(ry) = Len(y) /\ \A i \in 1 .. Len(y) : ry[i] = y[(Len(y) - i) + 1]
  BY <1>1 DEF Queue!Reverse
<1>3. rd \in Seq(S) /\ Len(rd) = Len(d) /\ \A i \in 1 .. Len(d) : rd[i] = d[(Len(d) - i) + 1]
  BY DEF Queue!Reverse
<1>4. Queue!IsSuffix(y, d) = Queue!IsPrefix(ry, rd)
  BY DEF Queue!IsSuffix
<1> HIDE DEF ry, rd
<1>5. ASSUME NEW i \in 1 .. Len(ry) PROVE rd[i] = ry[i]
  <2>1. /\ (Len(y) - i) + 1 \in 1 .. Len(d) - k /\ k + ((Len(y) - i) + 1) = (Len(d) - i) + 1
        /\ i \in 1 .. Len(y) /\ i \in 1 .. Len(d)
    BY <1>1, <1>2
  <2> QED
    BY <1>1, <1>2, <1>3, <2>1
<1>6. Len(ry) <= Len(rd)
  BY <1>1, <1>2, <1>3
<1>7. Queue!IsPrefix(ry, rd)
  BY <1>2, <1>3, <1>5, <1>6, BeginsWith
<1> QED
  BY <1>4, <1>7 DEF y

SInv == Good(b) /\ span \in Nat \cup {-1} /\ (span # -1 => b.pptr + span <= b.epptr)

\* Every step of the stream buffer keeps the pointers in order, and changes the
\* data as a byte queue may.
LEMMA StreamStep ==
    ASSUME SInv, [SNext]_svars
    PROVE  SInv' /\ [Queue!Put \/ Queue!Take]_(Data(b))
<1> USE DEF SInv
<1>0. /\ Good(b) /\ b.gptr \in Nat /\ b.pptr \in Nat /\ b.epptr \in Nat /\ b.pptr <= b.epptr
      /\ Data(b) \in Seq(Cells) /\ Len(Data(b)) = Size(b) /\ Size(b) \in Nat
      /\ Size(b) = b.pptr - b.gptr
  BY DataIs DEF Good, Buffers, PtrsOK, Size
<1>1. ASSUME NEW n \in 0 .. MaxAsk, DoPrepare(n)
      PROVE  SInv' /\ [Queue!Put \/ Queue!Take]_(Data(b))
  <2>1. n \in Nat /\ b' = Reserve(b, n) /\ span' = n
    BY <1>1, StreamAssumption DEF DoPrepare
  <2>2. Good(b') /\ Data(b') = Data(b) /\ b'.pptr = b.pptr /\ b.pptr + n <= b'.epptr
    BY <1>0, <2>1, ReserveKeeps
  <2>3. Data(b)' = Data(b)
    BY <2>2 DEF Data
  <2>4. SInv'
    BY <2>1, <2>2 DEF Good, Buffers, PtrsOK
  <2> QED
    BY <2>3, <2>4
<1>2. ASSUME NEW n \in 0 .. MaxAsk, DoConsume(n)
      PROVE  SInv' /\ [Queue!Put \/ Queue!Take]_(Data(b))
  <2> DEFINE k == Least(n, Size(b))
  <2>1. n \in Nat /\ b' = Consume(b, n) /\ span' = span
    BY <1>2, StreamAssumption DEF DoConsume
  <2>2. /\ Good(b') /\ b'.pptr = b.pptr /\ b'.epptr = b.epptr /\ k \in Nat /\ k <= Size(b)
        /\ Data(b') = SubSeq(Data(b), k + 1, Size(b))
    BY <1>0, <2>1, ConsumeIs
  <2> HIDE DEF k
  <2>3. Queue!IsSuffix(Data(b'), Data(b))
    BY <1>0, <2>2, EndsWith
  <2>4. SInv'
    BY <2>1, <2>2 DEF Good, Buffers, PtrsOK
  <2> QED
    BY <2>3, <2>4 DEF Queue!Take, Data
<1>3. ASSUME NEW s \in UNION {[1 .. k -> Bytes] : k \in 0 .. MaxAsk}, NEW n \in 0 .. MaxAsk,
             DoCommit(s, n)
      PROVE  SInv' /\ [Queue!Put \/ Queue!Take]_(Data(b))
  <2>1. /\ n \in Nat /\ b' = Commit(Fill(b, s), n) /\ span' = -1 /\ Len(s) <= span /\ span # -1
    BY <1>3, StreamAssumption DEF DoCommit
  <2>2. s \in Seq(Cells) /\ Len(s) \in Nat
    <3>1. PICK k \in 0 .. MaxAsk : s \in [1 .. k -> Bytes]
      OBVIOUS
    <3>2. k \in Nat /\ s \in [1 .. k -> Cells]
      BY <3>1, StreamAssumption DEF Cells
    <3> QED
      BY <3>2
  <2>3. Len(s) <= b.epptr - b.pptr
    BY <1>0, <2>1, <2>2
  <2>4. /\ Good(b') /\ b'.gptr = b.gptr /\ b'.pptr = b.pptr + Least(n, b.epptr - b.pptr)
        /\ \A i \in 1 .. Size(b) : Data(b')[i] = Data(b)[i]
    BY <1>0, <2>1, <2>2, <2>3, CommitFilled
  <2>5. Data(b') \in Seq(Cells) /\ Len(Data(b')) = Size(b')
    BY <2>4, DataIs
  <2>6. Len(Data(b)) <= Len(Data(b'))
    BY <1>0, <2>1, <2>4, <2>5 DEF Least, Size
  <2>7. Queue!IsPrefix(Data(b), Data(b'))
    BY <1>0, <2>4, <2>5, <2>6, BeginsWith
  <2>8. SInv'
    BY <2>1, <2>4 DEF Good, Buffers, PtrsOK
  <2> QED
    BY <2>7, <2>8 DEF Queue!Put, Data
<1>4. ASSUME NEW c \in Bytes, Sputc(c)
      PROVE  SInv' /\ [Queue!Put \/ Queue!Take]_(Data(b))
  <2>1. b' = PutByte(b, Room, c) /\ span' = -1 /\ Room \in Nat \ {0}
    BY <1>4, StreamAssumption DEF Sputc
  <2>2. Good(b') /\ Size(b') = Size(b) + 1 /\ \A i \in 1 .. Size(b) : Data(b')[i] = Data(b)[i]
    <3>1. Good(b) /\ Room \in Nat /\ Room # 0
      BY <1>0, <2>1
    <3> QED
      BY <2>1, <3>1, PutByteIs
  <2>3. Data(b') \in Seq(Cells) /\ Len(Data(b')) = Size(b')
    BY <2>2, DataIs
  <2>4. Len(Data(b)) <= Len(Data(b'))
    BY <1>0, <2>2, <2>3
  <2>5. Queue!IsPrefix(Data(b), Data(b'))
    BY <1>0, <2>2, <2>3, <2>4, BeginsWith
  <2>6. SInv'
    BY <2>1, <2>2 DEF Good, Buffers, PtrsOK
  <2> QED
    BY <2>5, <2>6 DEF Queue!Put, Data
<1>5. ASSUME Sbumpc
      PROVE  SInv' /\ [Queue!Put \/ Queue!Take]_(Data(b))
  <2>1. b' = GetByte(b) /\ CanGet(b) /\ span' = span
    BY <1>5 DEF Sbumpc
  <2>2. /\ Good(b') /\ b'.pptr = b.pptr /\ b'.epptr = b.epptr /\ 1 <= Size(b)
        /\ Data(b') = SubSeq(Data(b), 1 + 1, Size(b))
    BY <1>0, <2>1, GetByteIs
  <2>3. Queue!IsSuffix(Data(b'), Data(b))
    BY <1>0, <2>2, EndsWith
  <2>4. SInv'
    BY <2>1, <2>2 DEF Good, Buffers, PtrsOK
  <2> QED
    BY <2>3, <2>4 DEF Queue!Take, Data
<1>6. ASSUME UNCHANGED svars
      PROVE  SInv' /\ [Queue!Put \/ Queue!Take]_(Data(b))
  BY <1>6 DEF svars, Good, Buffers, PtrsOK, Data
<1> QED
  BY <1>1, <1>2, <1>3, <1>4, <1>5, <1>6 DEF SNext

\* The stream buffer is a byte queue (stream_buffer.hpp:24-94): through any mixture
\* of prepare/commit/consume and single bytes put and got, with a vector of any
\* size and room, bytes leave in the order they came, each once, and the pointers
\* and the room given out stay within the vector.
THEOREM BufferIsByteQueue == SSpec => IsByteQueue
<1>1. SInit => SInv /\ Queue!Init
  BY NewIsGood DEF SInit, SInv, Queue!Init
<1>2. SInv /\ [SNext]_svars => SInv' /\ [Queue!Put \/ Queue!Take]_(Data(b))
  BY StreamStep
<1>3. SInv => PointersOrdered
  BY DEF SInv, PointersOrdered, Good
<1> QED
  BY <1>1, <1>2, <1>3, PTL DEF SSpec, IsByteQueue, Queue!Spec
=============================================================================
