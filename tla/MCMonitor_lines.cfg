SPECIFICATION Spec
CONSTANTS
  Clients = {"a", "b"}
  Keys <- AllKeys
  Scripts <- MCScripts
  Profiles <- MCProfiles
  IBUF_SIZE = 3
  MaxTyped = 3
  Patient = TRUE
  LeaveEarly = TRUE
INVARIANTS
  TypeOK
  LineFromOneClient
  SyncPromptTruthful
\* The program ends.
CHECK_DEADLOCK FALSE
