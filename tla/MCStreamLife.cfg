CONSTANTS
    Streams = {0, 1}
    Passive = {0}
    SendOnly = {1}
    RecvOnly = {}
    Refusable = {0}
    Size = 1
    Cross <- SafeCross
    Calls <- MCCalls
SPECIFICATION FairSpec
INVARIANTS  ResetIsHeard
PROPERTIES EndsOnce 
CHECK_DEADLOCK FALSE
