SPECIFICATION FairSpec
CONSTANTS
  Calls <- MCCalls
  CellMod = 14
PROPERTY ChildReturns
CHECK_DEADLOCK FALSE
