SPECIFICATION FairSubmissions
CONSTANTS
  SeqIds <- MCSeqIds
  TokenIds <- MCTokenIds
  NLayers = 2
  MaxSeqLen = 3
  ScratchUnits = 1
  RingUnits = 2
  MaxPrompt = 2
  MaxNew = 3
  NumQueues = 2
  PoolSize = 1
  MaxFences = 2
  UserFences = {u}
  NoFence = NoFence
  MaxWork = 2
INVARIANTS TypeOK SampledFromPrefix SoloInv FencesOnce PoolIsIdle
PROPERTIES NoTokenAfterLoss RequestCompletes ImplementsDecoder ResetFindsOthers WaitsReturn
\* A request ends, and so does the scheduler with its cleanup.
CHECK_DEADLOCK FALSE
