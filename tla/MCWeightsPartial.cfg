SPECIFICATION StreamSpec
CONSTANTS
  NLayers = 2
  PerLayer = 2
  VramUnits = 9
INVARIANT MarkedIsWhole
CHECK_DEADLOCK FALSE
