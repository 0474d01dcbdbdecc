SPECIFICATION MpSpec
CONSTANTS
  Classes = {1, 2}
  MaxLevel = 2
  PreNum <- MCPreNum
  PreLevel <- MCPreLevel
  MaxBlocks = 4
  NULL = NULL
CHECK_DEADLOCK FALSE
INVARIANT HandsOutFreeOnly
