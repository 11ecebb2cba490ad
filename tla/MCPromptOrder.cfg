SPECIFICATION SoloSpec
CONSTANTS
  SeqIds <- MCSeqIds
  TokenIds <- MCTokenIds
  NLayers = 1
  MaxSeqLen = 3
  ScratchUnits = 1
  RingUnits = 2
  MaxPrompt = 2
  MaxNew = 3
INVARIANTS PushedIsNextInput
CHECK_DEADLOCK FALSE
