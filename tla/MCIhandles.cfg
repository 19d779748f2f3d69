SPECIFICATION FairSpec
CONSTANTS
  Blocks = {b1, b2}
  Console = con
  Files = {f1}
  Disks = {d1}
  WordMod = 16
  PAGE_SIZE = 4
  SECTOR_SIZE = 2
  DiskSize = 12
  Entries <- MCEntries
  Indexes <- MCIndexes
  Offsets = {0, 3, 9}
  Lengths = {5}
  Buffers = {2}
  Garbage = {13}
  MaxFile = 8
INVARIANTS
  WithinPartition
  Accounted
PROPERTIES
  CallEnds
  ImplementsStreams
\* A BUG_ON and the end of main stop the program.
CHECK_DEADLOCK FALSE
