SPECIFICATION Spec
CONSTANTS
  Nodes <- MCNodes
  Image <- MCImage
  MaxNodes = 2
  Bus = 4
  LaneWidth = 2
  Spus = 2
  Chunk = 4
  TileM = 2
  TileN = 2
  ScaleMin = 4
  RepeatBudget = 16
  DmaCap = 16
INVARIANTS TypeOK CachedKernelFits
PROPERTIES FirmwareMatchesHost OnlyDestinationWritten
CHECK_DEADLOCK FALSE
