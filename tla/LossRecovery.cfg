CONSTANTS
    Po = {p1, p2, p3, p4, p5, p6, p7, p8, p9, p10, p11, p12}
    None = None
    StmCnt = 2
    CtlCnt = 0
    DgmCnt = 1
    Cwnd = 2
    PktThresh = 2
    ProbeCnt = 2
    MaxPn = 3
SPECIFICATION FairSpec
INVARIANTS
    OriginsCounted InflightExact SafeWalk NoDataForgotten StreamDoneWhenAcked
PROPERTY
    NeverSilent DatagramReportedOnce
