CONSTANTS
    PktNums = {0, 1, 2, 3, 4, 5, 6}
    MaxAckRangeCnt = 2
SPECIFICATION RRSpec
INVARIANTS
    RangesApart
    AckFrameRoundTrip
PROPERTY
    ImplementsAckSet
