SPECIFICATION Spec
CONSTANTS
  MaxBytes = 4
  Blocks <- MCBlocks
  RecvSizes = {1, 4}
  FixedCapacity = 1
  MaxDups = 2
  None = None
INVARIANT PeekAgrees
PROPERTIES ImplementsByteStream EverythingRead
