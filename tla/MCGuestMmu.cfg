SPECIFICATION FairSpec
CONSTANTS
  WordMod = 16
  PageSize = 2
  PmemSize = 8
  BlockSize = 4
  SegmentSize = 8
  Touched <- MCTouched
  Virts <- MCVirts
  Physs <- MCPhyss
  Sizes <- MCSizes
  Bats = {0}
  Blocks = {0, 2}
  MaxEvictions = 1
  MaxRanges = 3
  MonitorPokes = TRUE
INVARIANTS
  RangesAgree
  MappedInMemory
  MappingSound
PROPERTIES
  TranslationsStable
  FaultResolved
\* BUG_ON aborts the program.
CHECK_DEADLOCK FALSE
