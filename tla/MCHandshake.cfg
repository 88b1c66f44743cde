SPECIFICATION Spec
CONSTANTS
    Addrs = {"a", "b"}
    Home = "a"
    ClientConfigs <- MCClientConfigs
    ServerList <- MCServerList
    ServerAlpns = {"rqc"}
    MaxNet = 2
    MaxMoves = 1
    MaxChallenges = 3
INVARIANTS
    
    EndsAgree
    AddressValidated
PROPERTIES
    DataThrough
CHECK_DEADLOCK FALSE
