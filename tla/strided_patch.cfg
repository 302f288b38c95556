SPECIFICATION Spec
CONSTANTS
  Nodes <- MCStridedPatch
  Image <- MCImage
  MaxNodes = 1
  Bus = 4
  LaneWidth = 2
  Spus = 2
  Chunk = 4
  TileM = 2
  TileN = 2
  ScaleMin = 4
  RepeatBudget = 16
  DmaCap = 16
PROPERTIES FirmwareMatchesHost
CHECK_DEADLOCK FALSE
