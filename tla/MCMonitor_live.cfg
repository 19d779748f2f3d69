SPECIFICATION FairSpec
CONSTANTS
  Clients = {"a", "b"}
  Keys <- Commands
  Scripts <- MCScripts
  Profiles <- MCProfiles
  IBUF_SIZE = 3
  MaxTyped = 2
  Patient = FALSE
  LeaveEarly = FALSE
PROPERTIES
  HeldUntilCont
  PromptReached
  InputRead
\* The program ends.
CHECK_DEADLOCK FALSE
