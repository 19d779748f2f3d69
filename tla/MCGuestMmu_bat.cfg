SPECIFICATION Spec
CONSTANTS
  WordMod = 16
  PageSize = 2
  PmemSize = 8
  BlockSize = 4
  SegmentSize = 8
  Touched <- MCTouched
  Virts <- MCVirts
  Physs <- MCPhyss
  Sizes <- MCSizes
  Bats = {0}
  Blocks = {0, 2}
  MaxEvictions = 0
  MaxRanges = 1
  MonitorPokes = FALSE
PROPERTY BatHonoursT
CHECK_DEADLOCK FALSE
