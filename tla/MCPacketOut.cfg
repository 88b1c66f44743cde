SPECIFICATION Spec
CONSTANTS
  Server = FALSE
  Streams = {0, 64}
  HighPri = {64}
  RateLimited = {64}
  Sizes = {0, 1, 1120, 1300}
  AckRanges = {1, 8}
  Requests <- MCRequests
  MaxPktOutSize = 1200
  LocalUdp = 1500
  RemoteUdp = 1200
  MaxDatagramFrame = 1200
  CidLen = 8
  PnWin = 4
  MaxPackets = 3
  MaxWrites = 3
  MaxRequests = 1
  MaxAcks = 1
  FirstNumber = 2
INVARIANTS
  PacketBounds
  ReadsAsRecorded
  
  NumberRecovered
CHECK_DEADLOCK FALSE
