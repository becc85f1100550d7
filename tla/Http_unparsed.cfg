SPECIFICATION ReqSpec
CONSTANTS
    Delim <- MCDelim
    Responses <- MCResponses
    BufSize = 1
    Bytes = {"c", "p", "q", "r", "s", "x", "y"}
    First = 3
    More = 2
    MinBuf = 2
    MaxAddrs = 1
    MaxRequests = 1
INVARIANT ParseErrorReported
