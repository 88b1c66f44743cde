CONSTANTS
    PktNums = {0, 1}
    MaxAckRangeCnt = 2
    AckFrequency = 2
    SentCap = 2
    DataCnt = 1
    MaxPn = 3
    MaxOwed = 2
SPECIFICATION FairSpec
INVARIANT AckOwed
 
