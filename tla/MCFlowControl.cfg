CONSTANTS
    Streams = {s1, s2}
    PktSize = 1
    InitWin = 2
    MinConnWin = 3
    MaxWin = 3
    SumWin = 3
    StreamLimit = TRUE
    Own = {s2}
    StreamRate = {s2}
    ConnRate = TRUE
    Total <- MCTotal
    Resettable = {s1}
SPECIFICATION FairSpec
INVARIANTS BufferBounded NothingLeaks
PROPERTY UnresetGoesOn
CHECK_DEADLOCK FALSE
