------------------------------ MODULE Chunked ------------------------------
(***************************************************************************)
(* phr_decode_chunked of include/http/picohttpparser.h, called on one      *)
(* piece of the input after another.  Digits are those of base Base, and   *)
(* the decoder's counter is as wide as MaxHex of them.                     *)
(***************************************************************************)
EXTENDS Integers, SequencesExt

CONSTANTS
    Base,        \* 16
    MaxHex,      \* sizeof(size_t) * 2
    MaxInput,    \* bound of the model: bytes fed
    MaxPiece     \* bound of the model: bytes of one call

VARIABLES
    fed,         \* the input so far
    dec,         \* the decoder: _state, bytes_left_in_chunk, _hex_count,
                 \* consume_trailer
    output,      \* what the calls so far decoded
    ret,         \* what the last call returned
    rest         \* what it left behind the decoded bytes

cvars == <<fed, dec, output, ret, rest>>

Incomplete == -2
Corrupt == -1

Hex == 0 .. Base - 1
LF == 100
CR == 101
Byte == Hex \cup {LF, CR, 102}

NewDecoder(tr) == [st |-> "size", left |-> 0, hex |-> 0, consume_trailer |-> tr]

\* where a loop over src stops: at the first byte from i on that is in stop, or
\* at the end of the piece
Scan(s, i, stop) == Min({j \in i .. Len(s) : s[j] \in stop} \cup {Len(s) + 1})

\* bytes_left_in_chunk * 16 + v for each of the digits
ChunkSize(left, digits) ==
    FoldLeft(LAMBDA n, v : (n * Base + v) % Base ^ MaxHex, left, digits)

\* the answer of a call that stops at byte i of its piece
Stops(d, s, i, out, code) ==
    [dec |-> d, out |-> out, ret |-> code, rest |-> SubSeq(s, i, Len(s))]

RECURSIVE Decode(_, _, _, _)

\* CHUNKED_IN_CHUNK_SIZE with room for so many digits
SizeLine(room, d, s, i, out) ==
    LET j == Scan(s, i, Byte \ Hex)
        n == d.hex + j - i
        e == [d EXCEPT !.hex = n, !.left = ChunkSize(@, SubSeq(s, i, j - 1))]
    IN  IF n > room THEN Stops(d, s, i + room - d.hex, out, Corrupt)
        ELSE IF j > Len(s) THEN Stops(e, s, j, out, Incomplete)
        ELSE IF n = 0 THEN Stops(d, s, i, out, Corrupt)
        ELSE Decode([e EXCEPT !.hex = 0, !.st = "ext"], s, j, out)

\* mutant: one digit more than the counter is wide
InSizeWide(d, s, i, out) == SizeLine(MaxHex + 1, d, s, i, out)

InSize(d, s, i, out) == SizeLine(MaxHex, d, s, i, out)

InExt(d, s, i, out) ==
    LET j == Scan(s, i, {LF})
    IN  IF j > Len(s) THEN Stops(d, s, j, out, Incomplete)
        ELSE IF d.left # 0 THEN Decode([d EXCEPT !.st = "data"], s, j + 1, out)
        ELSE IF d.consume_trailer THEN Decode([d EXCEPT !.st = "head"], s, j + 1, out)
        ELSE Stops(d, s, j + 1, out, Len(s) - j)

InData(d, s, i, out) ==
    LET avail == Len(s) - i + 1
        moved == SubSeq(s, i, i + Min({avail, d.left}) - 1)
        e == [d EXCEPT !.left = @ - Len(moved)]
    IN  IF avail < d.left THEN Stops(e, s, i + avail, out \o moved, Incomplete)
        ELSE Decode([e EXCEPT !.st = "crlf"], s, i + d.left, out \o moved)

InCrLf(d, s, i, out) ==
    LET j == Scan(s, i, Byte \ {CR})
    IN  IF j > Len(s) THEN Stops(d, s, j, out, Incomplete)
        ELSE IF s[j] # LF THEN Stops(d, s, j, out, Corrupt)
        ELSE Decode([d EXCEPT !.st = "size"], s, j + 1, out)

InTrailerHead(d, s, i, out) ==
    LET j == Scan(s, i, Byte \ {CR})
    IN  IF j > Len(s) THEN Stops(d, s, j, out, Incomplete)
        ELSE IF s[j] = LF THEN Stops(d, s, j + 1, out, Len(s) - j)
        ELSE Decode([d EXCEPT !.st = "middle"], s, j + 1, out)

InTrailerMiddle(d, s, i, out) ==
    LET j == Scan(s, i, {LF})
    IN  IF j > Len(s) THEN Stops(d, s, j, out, Incomplete)
        ELSE Decode([d EXCEPT !.st = "head"], s, j + 1, out)

\* phr_decode_chunked from byte i of the piece s on, with out decoded
Decode(d, s, i, out) ==
    CASE d.st = "size" -> InSize(d, s, i, out)
      [] d.st = "ext" -> InExt(d, s, i, out)
      [] d.st = "data" -> InData(d, s, i, out)
      [] d.st = "crlf" -> InCrLf(d, s, i, out)
      [] d.st = "head" -> InTrailerHead(d, s, i, out)
      [] d.st = "middle" -> InTrailerMiddle(d, s, i, out)

-----------------------------------------------------------------------------
CInit ==
    /\ \E tr \in BOOLEAN : dec = NewDecoder(tr)
    /\ ret = Incomplete /\ fed = <<>> /\ output = <<>> /\ rest = <<>>

\* the caller decodes the next piece in place
Feed(s) ==
    LET a == Decode(dec, s, 1, <<>>)
    IN  /\ ret = Incomplete /\ Len(fed) + Len(s) <= MaxInput
        /\ fed' = fed \o s /\ dec' = a.dec /\ output' = output \o a.out
        /\ ret' = a.ret /\ rest' = a.rest

FeedSome == \E n \in 1 .. MaxPiece : \E s \in [1 .. n -> Byte] : Feed(s)

-----------------------------------------------------------------------------
Says(out, verdict, after) == [out |-> out, verdict |-> verdict, after |-> after]

RECURSIVE Grammar(_, _)
\* what a text of chunks says, read from the grammar: a size line, as many bytes,
\* a line end; the size is a plain number
Grammar(t, out) ==
    LET sz == Scan(t, 1, Byte \ Hex) - 1
        eol == Scan(t, sz + 1, {LF})
        size == FoldLeft(LAMBDA n, v : n * Base + v, 0, SubSeq(t, 1, sz))
        body == SubSeq(t, eol + 1, Len(t))
        data == SubSeq(body, 1, Min({size, Len(body)}))
        cr == Scan(body, size + 1, Byte \ {CR})
    IN  CASE sz > MaxHex \/ (sz = 0 /\ t # <<>>) -> Says(out, "corrupt", t)
          [] OTHER ->
             CASE eol > Len(t) -> Says(out, "cut", <<>>)
               [] eol <= Len(t) /\ size = 0 -> Says(out, "end", body)
               [] OTHER ->
                  CASE cr > Len(body) -> Says(out \o data, "cut", <<>>)
                    [] cr <= Len(body) /\ body[cr] # LF -> Says(out \o data, "corrupt", body)
                    [] OTHER -> Grammar(SubSeq(body, cr + 1, Len(body)), out \o data)

\* the ends of the empty lines of a text
EmptyLines(t) ==
    {k \in 1 .. Len(t) : t[k] = LF /\ \A i \in 1 .. k - 1 :
        (\A j \in i .. k - 1 : t[j] # LF) => t[i] = CR}

\* what is left of the text behind the trailer, if it is to be consumed
Behind(t) == IF dec.consume_trailer THEN SubSeq(t, Min(EmptyLines(t)) + 1, Len(t)) ELSE t

\* Wherever the pieces are cut, in the middle of a size, of its line end, of
\* the data or of the trailer, the calls together decode what the grammar says
\* of the whole input, give its verdict, and leave what follows the message
\* where the caller finds it; the digits of a size never run over the counter
\* (picohttpparser.h:585-698).
ChunksExact ==
    LET g == Grammar(fed, <<>>)
        ended == g.verdict = "end" /\ (dec.consume_trailer => EmptyLines(g.after) # {})
    IN  /\ output = g.out
        /\ g.verdict = "corrupt" <=> ret = Corrupt
        /\ ended <=> ret >= 0
        /\ ended => rest = Behind(g.after) /\ ret = Len(rest)
=============================================================================
