SPECIFICATION FairSpec
CONSTANTS
  Calls <- MCCalls
  CellMod = 14
INVARIANTS
  AnswerTold
  FailureHasNoEffect
  ArgumentsKept
  EffectHasArguments
PROPERTY CallReturns
\* exit and a BUG_ON end the program; child, peer, parent and write may hang.
CHECK_DEADLOCK FALSE
