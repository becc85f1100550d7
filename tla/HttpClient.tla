----------------------------- MODULE HttpClient -----------------------------
(***************************************************************************)
(* include/http/httpclient.hpp: one http_client used for request after     *)
(* request, its socket, its stream buffer and its parser, against a peer   *)
(* whose bytes arrive in chunks of any size and whose connection may end   *)
(* anywhere.  Each action is the code between two co_awaits.               *)
(*                                                                         *)
(* Bytes are abstract: Delim stands for DCRLF, and what the parser makes   *)
(* of a head, whether it parses and the content-length, are fields of the  *)
(* response.  No action looks at the first: a negative result of           *)
(* parse_response is `true` when read_headers returns it as a bool         *)
(* (httpclient.hpp:139).                                                   *)
(***************************************************************************)
EXTENDS StreamBuf, FiniteSets, SequencesExt

CONSTANTS
    Delim,        \* the end of a head
    Responses,    \* what a peer can answer: head, whether it parses, its
                  \* content-length, what follows the head
    First, More, MinBuf,  \* room asked for: 512, 256 and 64 bytes
    MaxAddrs,     \* bound of the model: addresses a name resolves to
    MaxRequests   \* bound of the model: requests on one client

VARIABLES
    pc,           \* the co_await the request is suspended in, "idle" if none
    requests,     \* requests begun
    addrs,        \* addresses left to try
    sock,         \* m_tcp_client: "open", "connected" or "closed" (fd = -1)
    peer,         \* the response of this connection
    sent,         \* the bytes of it that get through
    ends,         \* and how the connection ends after them
    taken,        \* how many of them recv has delivered
    buf,          \* m_read_streambuf
    room,         \* size of the span given to recv
    beg,          \* read_until: where the search goes on
    head,         \* the head read_until returned
    body_len,     \* of m_parser, kept from request to request
    need,         \* read_body: need_read
    rsp,          \* read_body: rsp
    outcome       \* how the last request ended

conn == <<peer, sent, ends>>
reading == <<taken, buf, room, beg, head, need, rsp>>
reqvars == <<pc, requests, addrs, sock, conn, reading, body_len, outcome>>

Absent == -1      \* no content-length
Malformed == -2   \* one that std::stoi rejects

ASSUME HttpAssumption ==
    /\ Delim \in Seq(Bytes) /\ Delim # <<>>
    /\ Responses \subseteq [head : Seq(Bytes), parses : BOOLEAN,
                           len : Nat \cup {Absent, Malformed}, rest : Seq(Bytes)]
    /\ {First, More, MinBuf} \subseteq Nat \ {0}

Nothing == [head |-> <<>>, parses |-> TRUE, len |-> Absent, rest |-> <<>>]

ReqInit ==
    /\ pc = "idle" /\ requests = 0 /\ addrs = 0
    /\ sock = "open" /\ peer = Nothing /\ sent = <<>> /\ ends = "close" /\ taken = 0
    /\ buf = NewBuffer /\ room = 0 /\ beg = 0 /\ head = <<>>
    /\ body_len = 0 /\ need = 0 /\ rsp = <<>>
    /\ outcome = "none"

-----------------------------------------------------------------------------
\* mutant: the descriptor is replaced by a new socket
EndsReopening(how) ==
    /\ outcome' = how /\ pc' = "idle"
    /\ sock' = IF sock = "connected" THEN "open" ELSE sock

\* co_return, or an exception, of request(): the scope_guard, armed once the
\* socket is connected, closes it
Ends(how) ==
    /\ outcome' = how /\ pc' = "idle"
    /\ sock' = IF sock = "connected" THEN "closed" ELSE sock

\* request(), up to the query: a body without POST, a bad url or another
\* protocol is refused
Request ==
    /\ pc = "idle" /\ requests < MaxRequests
    /\ requests' = requests + 1
    /\ \/ \E e \in {"method error", "invalid url", "unsupport protocal"} : Ends(e)
       \/ pc' = "query" /\ outcome' = "none" /\ UNCHANGED sock
    /\ UNCHANGED <<addrs, conn, reading, body_len>>

\* async_query gives no list, or a list of addresses
Resolved ==
    /\ pc = "query"
    /\ \/ Ends("invalid host name") /\ UNCHANGED addrs
       \/ /\ addrs' \in 0 .. MaxAddrs
          /\ IF addrs' = 0 THEN Ends("host connection failed")
             ELSE pc' = "connect" /\ UNCHANGED <<sock, outcome>>
    /\ UNCHANGED <<requests, conn, reading, body_len>>

\* connect() on one address of the list; it cannot succeed without a descriptor
Connected ==
    /\ pc = "connect" /\ sock = "open"
    /\ sock' = "connected" /\ pc' = "send"
    /\ \E r \in Responses : \E n \in 0 .. Len(r.head \o r.rest) :
           peer' = r /\ sent' = SubSeq(r.head \o r.rest, 1, n)
    /\ ends' \in {"close", "reset"} /\ taken' = 0
    /\ UNCHANGED <<requests, addrs, buf, room, beg, head, need, rsp, body_len, outcome>>

ConnectFails ==
    /\ pc = "connect"
    /\ addrs' = addrs - 1
    /\ IF addrs' = 0 THEN Ends("host connection failed")
       ELSE UNCHANGED <<pc, sock, outcome>>
    /\ UNCHANGED <<requests, conn, reading, body_len>>

\* send() of the message returns, however much it sent, and read_until prepares
\* its buffer; or it throws
Sent ==
    /\ pc = "send"
    /\ \/ /\ pc' = "head"
          /\ buf' = Reserve(buf, First) /\ room' = First /\ beg' = 0 /\ head' = <<>>
          /\ UNCHANGED <<sock, outcome>>
       \/ Ends("exception") /\ UNCHANGED <<buf, room, beg, head>>
    /\ UNCHANGED <<requests, addrs, conn, taken, need, rsp, body_len>>

-----------------------------------------------------------------------------
(* recv: the next n bytes of what was sent, 0 when the peer has closed, an   *)
(* exception when the connection was reset.                                 *)

Pending == Len(sent) - taken

Arrives(n) == n \in 1 .. Least(room, Pending)

Chunk(n) == SubSeq(sent, taken + 1, taken + n)

EndOfStream == Pending = 0 /\ ends = "close"
Reset == Pending = 0 /\ ends = "reset"

\* string_view::find: the first position at or after `from` where Delim begins
Found(str, from) ==
    {p \in from .. Len(str) - Len(Delim) : SubSeq(str, p + 1, p + Len(Delim)) = Delim}

\* mutant: the search goes on behind what was seen
NextBegAtEnd(str) == Len(str)

NextBeg(str) == IF Len(str) > Len(Delim) THEN Len(str) - Len(Delim) ELSE 0

\* the room read_body asks for
BodyRoom(n) == IF n > MinBuf THEN n ELSE MinBuf

\* request() after read_headers: parse_response throws on a malformed
\* content-length, keeps body_len when there is none, and its result, the length
\* or a negative error, is true as a bool.  A body of no bytes, or one the buffer
\* already has, is taken from it; otherwise read_body begins with what is there.
HeadDone(b) ==
    LET len == IF peer.len = Absent THEN body_len ELSE peer.len IN
    \/ /\ len = Malformed
       /\ buf' = b /\ Ends("exception")
       /\ UNCHANGED <<need, room, rsp, body_len>>
    \/ /\ len # Malformed /\ HasData(b, len)
       /\ rsp' = TryGetData(b, len) /\ buf' = Consume(b, len) /\ body_len' = len
       /\ Ends("response") /\ UNCHANGED <<need, room>>
    \/ /\ len # Malformed /\ ~HasData(b, len)
       /\ rsp' = Data(b) /\ need' = len - Size(b) /\ body_len' = len /\ pc' = "body"
       /\ room' = BodyRoom(need') /\ buf' = Reserve(Consume(b, Size(b)), room')
       /\ UNCHANGED <<sock, outcome>>

\* read_until, a chunk with or without the delimiter
RecvHead(n) ==
    /\ pc = "head" /\ Arrives(n)
    /\ taken' = taken + n
    /\ LET b == Commit(Fill(buf, Chunk(n)), n)
           at == Found(Data(b), beg)
           end == Min(at) + Len(Delim)
       IN  IF at # {}
           THEN /\ head' = SubSeq(Data(b), 1, end)
                /\ HeadDone(Consume(b, end)) /\ UNCHANGED beg
           ELSE /\ beg' = NextBeg(Data(b))
                /\ buf' = Reserve(b, More) /\ room' = More
                /\ UNCHANGED <<pc, sock, head, need, rsp, body_len, outcome>>
    /\ UNCHANGED <<requests, addrs, conn>>

\* mutant: recv is tried again
HeadEndsRetries ==
    /\ pc = "head" /\ EndOfStream
    /\ UNCHANGED reqvars

\* read_until at the end of the stream gives what there is, which has no
\* delimiter
HeadEnds ==
    /\ pc = "head" /\ EndOfStream
    /\ head' = Data(buf) /\ buf' = Consume(buf, Size(buf))
    /\ Ends("http response parse error")
    /\ UNCHANGED <<requests, addrs, conn, taken, room, beg, need, rsp, body_len>>

\* recv throws: nothing in read_until or request() catches it
HeadThrows ==
    /\ pc = "head" /\ Reset
    /\ Ends("exception")
    /\ UNCHANGED <<requests, addrs, conn, reading, body_len>>

\* read_body takes what was committed and returns
BodyDone(b) ==
    /\ rsp' = rsp \o Data(b) /\ buf' = Consume(b, Len(rsp'))
    /\ Ends("response")

\* read_body, a chunk
RecvBody(n) ==
    /\ pc = "body" /\ Arrives(n)
    /\ taken' = taken + n
    /\ need' = need - Least(n, need)
    /\ LET b == Commit(Fill(buf, Chunk(n)), Least(n, need)) IN
       IF need' = 0 THEN BodyDone(b) /\ UNCHANGED room
       ELSE /\ room' = BodyRoom(need') /\ buf' = Reserve(b, room')
            /\ UNCHANGED <<pc, sock, outcome, rsp>>
    /\ UNCHANGED <<requests, addrs, conn, beg, head, body_len>>

\* read_body at the end of the stream, or when recv throws, which it catches:
\* the bytes so far are the response
BodyEnds ==
    /\ pc = "body" /\ (EndOfStream \/ Reset)
    /\ BodyDone(buf)
    /\ UNCHANGED <<requests, addrs, conn, taken, room, beg, head, need, body_len>>

-----------------------------------------------------------------------------
Recv == \E n \in 1 .. Least(room, Pending) : RecvHead(n) \/ RecvBody(n)

Goes == Resolved \/ Connected \/ ConnectFails \/ Sent \/ Recv \/ HeadEnds \/ HeadThrows
        \/ BodyEnds

Idle == pc = "idle" /\ UNCHANGED reqvars

ReqNext == Request \/ Goes \/ Idle

ReqSpec == ReqInit /\ [][ReqNext]_reqvars

\* operations of the resolver and the ring complete
ReqFairness == WF_reqvars(Goes)

ReqFairSpec == ReqSpec /\ ReqFairness

-----------------------------------------------------------------------------
(* Properties. *)

\* however the bytes are cut into chunks, the head that is parsed is the stream
\* up to and including its first delimiter, also when the delimiter is split
\* over two of them, and a head that came and parses is no parse error
\* (httpclient.hpp:132-139, 184-203).
HeadExact ==
    /\ pc = "body" \/ outcome = "response" =>
           /\ IsPrefix(head, sent) /\ IsSuffix(Delim, head)
           /\ \A n \in 0 .. Len(head) - 1 : ~IsSuffix(Delim, SubSeq(sent, 1, n))
    /\ outcome = "http response parse error" => Found(sent, 0) = {} \/ ~peer.parses

\* the body that is returned is of the bytes that follow the head, never more than
\* the content-length, and all of that when they came, however they are spread
\* over the bytes read with the head and the chunks after it
\* (httpclient.hpp:149-175).
BodyExact ==
    outcome = "response" =>
        LET after == SubSeq(sent, Len(head) + 1, Len(sent))
        IN  /\ IsPrefix(rsp, after) /\ Len(rsp) <= body_len
            /\ Len(after) >= body_len => Len(rsp) = body_len

\* while recv is pending the kernel may write to the span it was given, which
\* lies in the vector behind the unread data (httpclient.hpp:163, 179, 196).
SpanInBuffer ==
    pc \in {"head", "body"} => PtrsOK(buf) /\ buf.pptr + room <= buf.epptr

\* Whatever the sizes of the chunks, of the head and of the body, and wherever the
\* connection ends, head and body are cut where they end, and the kernel is given
\* only room that exists (httpclient.hpp:149-203).
MessageExact == HeadExact /\ BodyExact /\ SpanInBuffer

\* Neither bytes nor a content-length of an earlier exchange reach a later one:
\* body_len and the buffer are never reset, but the socket an exchange closed
\* is not opened again (httpclient.hpp:87, http_parser.hpp:74-76).
ExchangeStartsClean == pc = "send" => Size(buf) = 0 /\ body_len = 0

\* "parse head error if res < 0" (httpclient.hpp:138): there is no response whose
\* head does not parse.
ParseErrorReported == outcome = "response" => peer.parses

\* EXPECT_EQ(rsp.body_length, rsp.rsp.size()) (http_test.cpp:134): a response that
\* is no error has the whole body its head announces.
BodyComplete == outcome = "response" => Len(rsp) = body_len

\* A request ends when its operations complete, wherever the stream ends.
RequestEnds == (pc # "idle") ~> (pc = "idle")
=============================================================================
