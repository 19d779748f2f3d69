SPECIFICATION ListSpec
CONSTANTS
  WordMod = 128
  PageSize = 8
  PmemSize = 64
  ArenaSize = 24
  StackSize = 8
  LoaderBase = 17
  LoaderLength = 6
  MaxClaims = 3
  MaxBlocks = 7
  Addrs <- MCAddrs
  Sizes <- MCSizes
  Aligns <- MCAligns
INVARIANTS
  AvailWellFormed
  AvailExact
  ArenaBlocksDisjoint
  ListIsAvail
PROPERTY ImplementsFreeMemory
\* BUG_ON aborts the program: an empty or wrapping claim stops it.
CHECK_DEADLOCK FALSE
