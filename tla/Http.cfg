SPECIFICATION PSpec
CONSTANTS
    Queries = {q1, q2, q3}
    Modulus = 8
    Delim <- MCDelim
    Responses <- MCResponses
    Bytes = {"c", "p", "q", "r", "s", "x", "y"}
    BufSize = 1
    First = 3
    More = 2
    MinBuf = 2
    MaxAddrs = 2
    MaxRequests = 3
INVARIANTS QueriesAccounted SleepsOnlyWhenIdle MessageExact ExchangeStartsClean
PROPERTIES QueryAnswered ShutdownEndsThread RequestEnds
