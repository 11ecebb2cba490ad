SPECIFICATION RunnerSpec
CONSTANTS
  A = A
  B = B
  NoModel = NoModel
  SeqIds <- MCSeqIds
  TokenIds <- MCTokenIds
  Models <- MCModels
  NLayers = 1
  MaxSeqLen = 2
  ScratchUnits = 1
  RingUnits = 4
  Eos = 2
  MaxPrompt = 1
  MaxNew = 2
  MaxCalls = 2
INVARIANT FreshRequest
CHECK_DEADLOCK FALSE
