SPECIFICATION Spec
CONSTANTS
  Words <- Switching
  Succ <- SuccSwitching
  Little = TRUE
INVARIANTS
  ForcedBitsApplied
  ForcedBitsExact
PROPERTY ImplementsGuestCpu
\* BUG_ON aborts the program.
CHECK_DEADLOCK FALSE
CONSTRAINT OneOdd
