SPECIFICATION Spec
CONSTANTS
  Clients = {"a"}
  Keys <- Commands
  Scripts <- MCScripts
  Profiles <- NoProfile
  IBUF_SIZE = 3
  MaxTyped = 2
  Patient = TRUE
  LeaveEarly = TRUE
PROPERTY PauseDoesNotStop
\* The program ends.
CHECK_DEADLOCK FALSE
