SPECIFICATION SharedSpec
CONSTANTS
  SeqIds <- MCSeqIds
  TokenIds <- MCTokenIds
  NLayers = 2
  MaxSeqLen = 2
  ScratchUnits = 1
  RingUnits = 4
  MaxPrompt = 2
  MaxRequests = 3
  MaxWrites = 4
  Names = {"a", "b", "c"}
  LayerOf <- MCLayerOf
  SpillPath <- MCSpillPath
  TierThreads = {"t"}
  VramBudget = 1
  Word = 8
  MaxTierWrites = 1
INVARIANTS KvSkew EnoughRows RingAccounted TiersAccounted 
VIEW SharedView
\* A thread that locks a mutex twice stops for ever.
CHECK_DEADLOCK FALSE
