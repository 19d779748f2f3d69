SPECIFICATION CmdFairSpec
CONSTANTS
  PageSize = 8
  Pages = 3
  Frames = 2
  Byte <- MCByte
  Xlats <- MCXlats
  Contents <- MCContents
  Transfers <- MCTransfers
  Data <- MCData
  Commands <- MCCommands
  MaxStr = 12
INVARIANTS
  CmdTypeOK
  ReadExact
  WriteExact
  FailureTold
  StringRead
  ShowsMemory
PROPERTY Returns
\* A BUG_ON stops the program.
CHECK_DEADLOCK FALSE
