SPECIFICATION PSpec
CONSTANTS
    BufSize = 1
    Bytes = {"x", "y"}
    Room = 2
    MaxAsk = 3
    MaxSize = 5
    Owners = {0, 1, 2}
    MaxYields = 2
    Results = {r1, r2, r3}
    Magic <- MCMagic
    StatusDigits = 1
    MaxHeaders = 2
    MaxText <- MCMaxText
    Base = 2
    MaxHex = 2
    MaxInput = 7
    MaxPiece = 3
    Second = 4
    Radix = 4
    MaxUrl = 6
    Objects = {0, 1, 2}
    MaxFd = 1
    Threads = {t1, t2, t3}
    Contexts = {c1, c2}
INVARIANTS
    YieldsInOrder TagExact HeadVerdict ChunksExact ConversionsExact
    NoForeignClose NoLeak OneLoopPerContext
PROPERTY IsByteQueue
\* inputs are bounded: a part whose input is used up stops
CHECK_DEADLOCK FALSE
