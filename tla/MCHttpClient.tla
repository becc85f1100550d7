---------------------------- MODULE MCHttpClient ----------------------------
(* Small instances of HttpClient for TLC.  "c" is a line end, so that the    *)
(* delimiter overlaps itself as CRLF CRLF does.                             *)
EXTENDS HttpClient

MCDelim == <<"c", "c">>

Response(h, ok, n, rest) == [head |-> h, parses |-> ok, len |-> n, rest |-> rest]

\* a body read in part with the head, one followed by other bytes, none, one after
\* a head that does not parse, in which no content-length is found, and one with a
\* malformed content-length
MCResponses ==
    {Response(<<"x", "c", "c">>, TRUE, 4, <<"p", "q", "r", "s">>),
     Response(<<"x", "c", "y", "c", "c">>, TRUE, 1, <<"p", "q">>),
     Response(<<"c", "c">>, TRUE, 0, <<>>),
     Response(<<"x", "c", "c">>, FALSE, Absent, <<"p">>),
     Response(<<"c", "c">>, TRUE, Malformed, <<"p">>)}
=============================================================================
