SPECIFICATION FairSpec
CONSTANTS
  Types = {"client", "server"}
  LingerOn = TRUE
  MaxRspConnCloseCnt = 1
  CloseInCreate = FALSE
  
PROPERTIES LingerKeepsData CloseFinishes
