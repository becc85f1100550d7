----------------------------- MODULE StreamBuf -----------------------------
(***************************************************************************)
(* The operations of include/stream_buffer.hpp as functions of a buffer.   *)
(* The five pointers of std::streambuf are offsets into m_buf (eback stays *)
(* at its beginning); setg, setp, pbump and gbump assign them.             *)
(***************************************************************************)
EXTENDS Integers, Sequences

CONSTANTS
    BufSize,   \* size of a new buffer (128)
    Bytes      \* what is written

ASSUME BufSizeAssumption == BufSize \in Nat

\* what vector::resize fills in
Zeros(n) == [i \in 1 .. n |-> "zero"]

\* the smaller of two numbers
Least(i, j) == IF i <= j THEN i ELSE j

NewBuffer ==
    [m_buf |-> Zeros(BufSize), gptr |-> 0, egptr |-> 0, pptr |-> 0,
     epptr |-> BufSize]

Commit(b, n) ==
    LET p == b.pptr + Least(n, b.epptr - b.pptr)
    IN  [b EXCEPT !.pptr = p, !.egptr = p]

Consume(b, n) ==
    LET e == IF b.egptr < b.pptr THEN b.pptr ELSE b.egptr
    IN  [b EXCEPT !.egptr = e, !.gptr = @ + Least(n, e - b.gptr)]

\* mutant: the data is not carried over
ReserveFresh(b, n) ==
    IF b.epptr - b.pptr >= n THEN b
    ELSE [b EXCEPT !.m_buf = Zeros(b.pptr + n),
                   !.egptr = b.pptr, !.epptr = b.pptr + n]

Reserve(b, n) ==
    IF b.epptr - b.pptr >= n THEN b
    ELSE [b EXCEPT !.m_buf = @ \o Zeros(b.pptr + n - b.epptr),
                   !.egptr = b.pptr, !.epptr = b.pptr + n]

\* prepare(n) reserves and gives out the n bytes from pptr, which the kernel
\* then fills with s
Fill(b, s) ==
    [b EXCEPT !.m_buf = SubSeq(@, 1, b.pptr) \o s
                        \o SubSeq(@, b.pptr + Len(s) + 1, Len(@))]

Size(b) == b.pptr - b.gptr

Data(b) == SubSeq(b.m_buf, b.gptr + 1, b.pptr)

HasData(b, n) == Size(b) >= n

TryGetData(b, n) == SubSeq(b.m_buf, b.gptr + 1, b.gptr + n)

\* sputc: the put area, or overflow() when it is full
PutByte(b, room, c) ==
    LET r == IF b.pptr < b.epptr THEN b ELSE Reserve(b, room)
    IN  [Fill(r, <<c>>) EXCEPT !.pptr = @ + 1]

\* sbumpc: the get area, or underflow() when it is empty; no byte at its end
CanGet(b) == b.gptr < b.egptr \/ b.gptr < b.pptr

GetByte(b) ==
    LET r == IF b.gptr < b.egptr THEN b ELSE [b EXCEPT !.egptr = b.pptr]
    IN  [r EXCEPT !.gptr = @ + 1]

\* the layout the class comment draws: get area before put area
PtrsOK(b) ==
    /\ b.gptr \in Nat /\ b.egptr \in Nat /\ b.pptr \in Nat /\ b.epptr \in Nat
    /\ b.gptr <= b.egptr /\ b.egptr <= b.pptr /\ b.pptr <= b.epptr
    /\ b.epptr = Len(b.m_buf)
=============================================================================
