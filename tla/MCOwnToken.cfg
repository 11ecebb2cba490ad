SPECIFICATION BatchSpec
CONSTANTS
  SeqIds <- MCSeqIds
  TokenIds <- MCTokenIds
  NLayers = 1
  MaxSeqLen = 4
  ScratchUnits = 1
  RingUnits = 4
  MaxPrompt = 1
  MaxRequests = 3
  MaxWrites = 3
INVARIANTS TokenOfItsSequence
CHECK_DEADLOCK FALSE
