---------------------------- MODULE Conversions ----------------------------
(***************************************************************************)
(* Pure conversions: url::parse (include/http/url.hpp), the timespec of    *)
(* time_delay (include/time_delay.hpp), and byte order on a little endian  *)
(* build (include/ioutils/endian.hpp).                                     *)
(***************************************************************************)
EXTENDS Integers, SequencesExt

CONSTANTS
    Second,     \* ticks of a second, the duration's period being a nanosecond
    Radix,      \* of a byte (256)
    MaxUrl      \* bound of the model: length of a url

VARIABLE arg    \* what is converted, and by what

UrlChars == {"a", ":", "/", "?"}

\* string_view::find, 0 for npos
Find(s, x) ==
    LET hits == {i \in 1 .. Len(s) - Len(x) + 1 : SubSeq(s, i, i + Len(x) - 1) = x}
    IN  IF hits = {} THEN 0 ELSE Min(hits)

From(s, i) == SubSeq(s, i, Len(s))
UpTo(s, i) == SubSeq(s, 1, i - 1)

\* mutant: the ? stays in the query
SplitQueryKeeps(path) ==
    LET i == Find(path, <<"?">>)
    IN  IF i = 0 THEN <<path, <<>>>> ELSE <<UpTo(path, i), From(path, i)>>

\* the path, and the query behind its first ?
SplitQuery(path) ==
    LET i == Find(path, <<"?">>)
    IN  IF i = 0 THEN <<path, <<>>>> ELSE <<UpTo(path, i), From(path, i + 1)>>

parse(u) ==
    LET p == Find(u, <<":", "/", "/">>)
        rest == From(u, p + 3)
        h == Find(rest, <<"/">>)
        pq == SplitQuery(From(rest, h))
    IN  IF p = 0 THEN [err |-> "invalid_proto"]
        ELSE IF h = 0 THEN [err |-> "invalid_host"]
        ELSE [err |-> "none", proto |-> UpTo(u, p), host |-> UpTo(rest, h),
              path |-> pq[1], query |-> pq[2]]

\* floor<seconds>, and what is left; a duration below a second is passed as it is
get_seconds(d) == d \div Second
get_nanosecs(d) == IF d < Second THEN d ELSE d - Second * get_seconds(d)
to_kernel_timespec(d) == [tv_sec |-> get_seconds(d), tv_nsec |-> get_nanosecs(d)]

\* the kernel takes a timeout, which expires (-ETIME), or refuses it (-EINVAL)
Expires(ts) == ts.tv_sec >= 0 /\ ts.tv_nsec \in 0 .. Second - 1
TimeoutResult(ts) == IF Expires(ts) THEN -62 ELSE -22

time_delay_throws(d) ==
    LET res == TimeoutResult(to_kernel_timespec(d)) IN -res # 62 /\ res < 0

ByteAt(x, i) == (x \div Radix ^ i) % Radix

\* htons and htonl, ntohs and ntohl: n bytes reversed
Swapped(x, n) ==
    FoldSet(LAMBDA i, sum : sum + (ByteAt(x, i) * Radix ^ (n - 1 - i)), 0, 0 .. n - 1)

\* host_to_net(uint64_t), its halves being of two bytes here: htonl cuts its
\* argument to a half
host_to_net(x) ==
    (Swapped(x % (Radix ^ 2), 2) * (Radix ^ 2)) + Swapped(x \div (Radix ^ 2), 2)
net_to_host(x) == host_to_net(x)

VInit ==
    \/ \E n \in 0 .. MaxUrl : \E u \in [1 .. n -> UrlChars] : arg = <<"url", u>>
    \/ \E d \in -2 * Second .. 3 * Second : arg = <<"delay", d>>
    \/ \E x \in 0 .. Radix ^ 4 - 1 : arg = <<"number", x>>

-----------------------------------------------------------------------------
\* a url without :// or without a path is refused, and no other; the parts of
\* one that is not, put together again, are the url, up to a ? with nothing
\* behind it, and the first separators are the ones that count
UrlSplits(u) ==
    LET r == parse(u)
        seps == {i \in 1 .. Len(u) - 2 : SubSeq(u, i, i + 2) = <<":", "/", "/">>}
        glued == r.proto \o <<":", "/", "/">> \o r.host \o r.path
    IN  /\ r.err = "invalid_proto" <=> seps = {}
        /\ r.err = "none" <=> \E i \in seps : \E j \in i + 3 .. Len(u) : u[j] = "/"
        /\ r.err = "none" =>
               /\ u \in {glued, glued \o <<"?">> \o r.query}
               /\ ~Contains(r.host, "/") /\ ~Contains(r.path, "?")
               /\ r.path # <<>> /\ r.path[1] = "/"

\* a delay that is not negative is given to the kernel exactly, and the others
\* end in an exception instead of waiting for some other time
DelayExact(d) ==
    LET ts == to_kernel_timespec(d)
    IN  /\ d >= 0 => ts.tv_sec * Second + ts.tv_nsec = d
        /\ time_delay_throws(d) <=> d < 0

\* the four bytes come out in the opposite order, and back
OrderReversed(x) ==
    /\ \A i \in 0 .. 3 : ByteAt(host_to_net(x), i) = ByteAt(x, 3 - i)
    /\ net_to_host(host_to_net(x)) = x

\* Splitting a url loses nothing, the kernel waits as long as it was asked to,
\* and numbers cross the byte orders whole: at the borders where a part is
\* empty, a duration is a whole second or negative, a half is cut off
\* (url.hpp:38-66, time_delay.hpp:23-51, endian.hpp:9-30).
ConversionsExact ==
    CASE arg[1] = "url" -> UrlSplits(arg[2])
      [] arg[1] = "delay" -> DelayExact(arg[2])
      [] arg[1] = "number" -> OrderReversed(arg[2])
=============================================================================
