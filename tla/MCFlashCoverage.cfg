SPECIFICATION AttnSpec
CONSTANTS
  Wave = 2
  Tile = 2
  KvTile = 2
  MaxSeq = 4
  KvHeads = 2
  HeadDim = 3
  Rows = 4
  MaxHeadDim = 8
INVARIANTS OutComplete
CHECK_DEADLOCK FALSE
