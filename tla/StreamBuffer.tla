---------------------------- MODULE StreamBuffer ----------------------------
(***************************************************************************)
(* include/stream_buffer.hpp as its users see it: a producer that prepares *)
(* room, has it filled and commits, a consumer that looks at data() and    *)
(* consumes, and an iostream on top, which puts and gets single bytes.     *)
(***************************************************************************)
EXTENDS StreamBuf

CONSTANTS
    Room,      \* what overflow() reserves (64)
    MaxAsk,    \* bound of the model: largest argument
    MaxSize    \* bound of the model: bytes ever written

ASSUME StreamAssumption == Room \in Nat \ {0} /\ MaxAsk \in Nat /\ MaxSize \in Nat

VARIABLES
    b,         \* the buffer
    span       \* bytes handed out by prepare and not committed, -1 if none

svars == <<b, span>>

SInit == b = NewBuffer /\ span = -1

DoPrepare(n) ==
    /\ span = -1 /\ b.pptr + n <= MaxSize
    /\ b' = Reserve(b, n) /\ span' = n

\* the n bytes are filled as far as s goes, and committed; commit may be told
\* less than was filled, or more
DoCommit(s, n) ==
    /\ span # -1 /\ Len(s) <= span
    /\ b' = Commit(Fill(b, s), n) /\ span' = -1

DoConsume(n) ==
    /\ b' = Consume(b, n) /\ UNCHANGED span

Sputc(c) ==
    /\ span = -1 /\ b.pptr < MaxSize
    /\ b' = PutByte(b, Room, c) /\ UNCHANGED span

Sbumpc ==
    /\ CanGet(b)
    /\ b' = GetByte(b) /\ UNCHANGED span

SNext ==
    \/ \E n \in 0 .. MaxAsk : DoPrepare(n) \/ DoConsume(n)
    \/ \E s \in UNION {[1 .. k -> Bytes] : k \in 0 .. MaxAsk}, n \in 0 .. MaxAsk :
           DoCommit(s, n)
    \/ \E c \in Bytes : Sputc(c)
    \/ Sbumpc

SSpec == SInit /\ [][SNext]_svars

-----------------------------------------------------------------------------
(* Properties. *)

\* the pointers stay in the order the class comment draws, within the vector,
\* and the room given out by prepare() ends within it: neither the min in
\* commit() nor the resize in reserve() lets a byte be written or read outside
\* (stream_buffer.hpp:24-36, 59-72).
PointersOrdered == PtrsOK(b) /\ (span # -1 => b.pptr + span <= b.epptr)

Queue == INSTANCE ByteQueue WITH q <- Data(b)

\* To its users the buffer is a byte queue: whatever the mixture of the three
\* interfaces, nothing is lost, repeated or reordered when the vector grows, and
\* nothing is read or written outside it (stream_buffer.hpp:24-57, 59-94).
IsByteQueue == Queue!Spec /\ []PointersOrdered
=============================================================================
