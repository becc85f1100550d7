------------------------------ MODULE HttpHead ------------------------------
(***************************************************************************)
(* The head parser of include/http/picohttpparser.h, called again on a     *)
(* text that grows.  A parsing step takes the text and a position and      *)
(* gives the position after what it parsed, or one of the two codes of     *)
(* the C functions.  A symbol of the text stands for a class of bytes the  *)
(* parser tells apart.                                                     *)
(***************************************************************************)
EXTENDS Integers, Sequences, FiniteSetsExt

CONSTANTS
    Magic,         \* "HTTP/1.", as symbols
    StatusDigits,  \* digits of a status code (3)
    MaxHeaders,    \* room in the array of headers (100)
    MaxText        \* bound of the model: length of a text of each kind

VARIABLES
    kind,          \* which of the three parsers is called
    text           \* the bytes received

hvars == <<kind, text>>

Partial == -2
Failed == -1

Digits == {"1"}
TokenChars == {"H"} \cup Digits
Blank == {" "}
Controls == {"CR", "LF", "CTL"}
Symbols == TokenChars \cup Blank \cup Controls \cup {":"}

-----------------------------------------------------------------------------
\* the first position from p on that holds one of cs, or the end of the text:
\* findchar_fast and the loop that follows it
FirstOf(t, p, cs) == Min({i \in p .. Len(t) : t[i] \in cs} \cup {Len(t) + 1})

\* CHECK_EOF, then go on
Unless(t, p, Parse(_)) == IF p > Len(t) THEN Partial ELSE Parse(p)

\* the caller returns at once when a part was not parsed
Then(r, Parse(_)) == IF r < 0 THEN r ELSE Parse(r)

Expect(t, p, c) ==
    Unless(t, p, LAMBDA i : IF t[i] = c THEN i + 1 ELSE Failed)

\* CR LF or LF
EndOfLine(t, p) ==
    Unless(t, p, LAMBDA i : CASE t[i] = "LF" -> i + 1
                              [] t[i] = "CR" -> Expect(t, i + 1, "LF")
                              [] OTHER -> Failed)

get_token_to_eol(t, p) == EndOfLine(t, FirstOf(t, p, Controls))

\* ADVANCE_TOKEN, and the space after it
AdvanceToken(t, p) == Expect(t, FirstOf(t, p, Controls \cup {" "}), " ")

parse_http_version(t, p) ==
    LET n == Len(Magic)
    IN  IF Len(t) - p + 1 < n + 2 THEN Partial
        ELSE IF SubSeq(t, p, p + n - 1) = Magic /\ t[p + n] \in Digits
        THEN p + n + 1 ELSE Failed

\* a header's name, its colon and the blanks before the value
HeaderName(t, p) ==
    LET colon == FirstOf(t, p, Symbols \ TokenChars)
    IN  Unless(t, colon, LAMBDA i :
            IF t[i] # ":" \/ i = p THEN Failed
            ELSE Unless(t, FirstOf(t, i + 1, Symbols \ Blank), LAMBDA v : v))

RECURSIVE parse_headers(_, _, _)
\* n headers have been parsed; a line that begins with a blank continues the
\* header before it
parse_headers(t, p, n) ==
    Unless(t, p, LAMBDA i :
        IF t[i] \in {"CR", "LF"} THEN EndOfLine(t, i)
        ELSE IF n = MaxHeaders THEN Failed
        ELSE Then(IF n # 0 /\ t[i] \in Blank THEN i ELSE HeaderName(t, i), LAMBDA v :
             Then(get_token_to_eol(t, v), LAMBDA e : parse_headers(t, e, n + 1))))

\* one empty line may come first
parse_request(t, p) ==
    Unless(t, p, LAMBDA i :
        Then(IF t[i] \in {"CR", "LF"} THEN EndOfLine(t, i) ELSE i, LAMBDA j :
        Then(AdvanceToken(t, j), LAMBDA k : Then(AdvanceToken(t, k), LAMBDA l :
        Then(parse_http_version(t, l), LAMBDA m :
        Then(EndOfLine(t, m), LAMBDA e : parse_headers(t, e, 0)))))))

\* the digits of the status, and the space after it
Status(t, p) ==
    IF Len(t) - p + 1 < StatusDigits + 1 THEN Partial
    ELSE IF \A i \in 0 .. StatusDigits - 1 : t[p + i] \in Digits
    THEN Expect(t, p + StatusDigits, " ") ELSE Failed

parse_response(t, p) ==
    Then(parse_http_version(t, p), LAMBDA i : Then(Expect(t, i, " "), LAMBDA j :
    Then(Status(t, j), LAMBDA k : Then(get_token_to_eol(t, k), LAMBDA e :
    parse_headers(t, e, 0)))))

RECURSIVE LineEnds(_, _, _)
\* two line ends in a row, cnt of them seen
LineEnds(t, p, cnt) ==
    IF cnt = 2 THEN p
    ELSE Unless(t, p, LAMBDA i :
             IF t[i] \in {"CR", "LF"}
             THEN Then(EndOfLine(t, i), LAMBDA e : LineEnds(t, e, cnt + 1))
             ELSE LineEnds(t, i + 1, 0))

\* mutant: the end of the head is looked for in the new bytes alone
is_complete_new(t, last) == LineEnds(t, last + 1, 0)

is_complete(t, last) == LineEnds(t, IF last < 3 THEN 1 ELSE last - 2, 0)

Parse(k, t, p) ==
    CASE k = "request" -> parse_request(t, p)
      [] k = "response" -> parse_response(t, p)
      [] k = "headers" -> parse_headers(t, p, 0)

\* phr_parse_request, _response and _headers; last is the length at which the
\* last call found the head partial, 0 when the caller keeps none.  A request
\* is parsed from there on, the others from the beginning.
phr_parse(k, t, last) ==
    LET from == IF k = "request" THEN last + 1 ELSE 1
        go(i) == Then(Parse(k, t, from), LAMBDA e : e - from)
    IN  IF last = 0 THEN go(1) ELSE Then(is_complete(t, last), go)

-----------------------------------------------------------------------------
HInit == kind \in {"request", "response", "headers"} /\ text = <<>>

Verdict(n) == phr_parse(kind, SubSeq(text, 1, n), 0)

\* a byte arrives: the caller goes on while the head is partial, and the first
\* byte after the head may follow
Receive ==
    /\ Len(text) < MaxText[kind]
    /\ text # <<>> => Verdict(Len(text) - 1) = Partial
    /\ \E c \in Symbols : text' = Append(text, c)
    /\ UNCHANGED kind

-----------------------------------------------------------------------------
\* a head answered once is answered: more bytes never turn a length or a
\* failure into something else
Settled ==
    text # <<>> /\ Verdict(Len(text) - 1) # Partial
        => Verdict(Len(text)) = Verdict(Len(text) - 1)

\* the length a caller passes for its last partial answer changes no success:
\* the three bytes is_complete goes back are enough however the line ends were
\* cut
HintAgrees ==
    kind = "response" =>
        \A last \in 1 .. Len(text) - 1 :
            LET hinted == phr_parse(kind, text, last)
            IN  (Verdict(Len(text)) >= 0 \/ hinted >= 0) /\ Verdict(last) = Partial
                    => hinted = Verdict(Len(text))

\* a response cut after its first CR LF CR LF, the way read_until cuts it, is
\* never called partial once it is long enough to hold a version
DecidedAtBlankLine ==
    LET n == Len(text)
    IN  kind = "response" /\ n >= Len(Magic) + 2
        /\ n >= 4 /\ SubSeq(text, n - 3, n) = <<"CR", "LF", "CR", "LF">>
            => Verdict(n) # Partial

\* However the bytes of a head arrive, the parser's answer is the same: it is
\* settled once given, the last_len shortcut changes no success, and a head that
\* read_until has cut at its blank line is never called partial, so that the
\* client loses nothing by not reading on (picohttpparser.h:273-299, 339-444,
\* 477-539, httpclient.hpp:129-139).
HeadVerdict == Settled /\ HintAgrees /\ DecidedAtBlankLine
=============================================================================
