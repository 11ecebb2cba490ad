SPECIFICATION FairRunnerSpec
CONSTANTS
  A = A
  B = B
  NoModel = NoModel
  SeqIds <- MCSeqIds
  TokenIds <- MCTokenIds
  Models <- MCModels
  NLayers = 1
  MaxSeqLen = 2
  ScratchUnits = 1
  RingUnits = 4
  Eos = 2
  MaxPrompt = 1
  MaxNew = 2
  MaxCalls = 3
INVARIANTS EngineOfCurrentModel ReportedInOrder
PROPERTIES CallsReturn FirstRequestDecodes
CHECK_DEADLOCK FALSE
