SPECIFICATION ComponentsSpec
CONSTANTS
  SwapLayers = {0, 1, 2}
  LayerSizes = {1, 2, 3}
  MaxVram = 3
  RingCapacity = 9
  Alignment = 2
  MaxRegistered = 3
  PagedSeqs = {1, 2}
  NBlocks = 3
  MaxTokenPos = 1
  Ids = {"a", "b"}
  ModelSizes = {1, 2}
  Users = {"u", "v"}
  TotalVRAM = 3
  VramWord = 7
  ModelIds = {"a", "b", "c"}
  Kinds <- MCKinds
  Prompts = {"math", "mixed"}
  NLayers = 2
  PerLayer = 2
  VramUnits = 9
  Wave = 2
  Tile = 2
  KvTile = 2
  MaxSeq = 5
  KvHeads = 2
  HeadDim = 3
  Rows = 4
  MaxHeadDim = 8
  Formats = {"Q4_0", "Q8_0", "Q4_K", "Q5_K", "Q6_K", "Q8_K"}
  KernelTypes = {"QKV_PROJ", "MLP_UP"}
  FileOf <- MCFileOf
  Specs = {"wave32", "wave64"}
  MaxVersion = 2
  Systems <- MCSystems
  Agents = {"a", "b", "c"}
  MaxHops = 3
  MaxQueries = 1
  MaxBeats = 2
INVARIANTS SwapConsistent BlocksOwned UsedIsActive TableCurrent
INVARIANTS RowsKept ReadsBack RowsOnce CausalRows ReadsBackBlock
INVARIANTS PipelinesAgree DeviceUsable NoWayBack
PROPERTIES RouteIsBest
\* cleanup is the last operation of the device, and agents without a
\* question rest.
CHECK_DEADLOCK FALSE
