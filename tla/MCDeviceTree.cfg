SPECIFICATION Spec
CONSTANTS
  MaxNodes = 4
  Trees <- MCTrees
  Aliases <- MCAliases
  Lookups <- MCLookups
  Props = {"name", "reg", "available", "linux,phandle"}
  Lengths = {0, 2, 12}
  XferSize = 12
  MaxAvail = 2
  Wild = {}
INVARIANTS
  TypeOK
  PathLeadsBack
  WithinBuffer
PROPERTIES
  StopsOnlyOverNone
  ImplementsPackageTree
CHECK_DEADLOCK FALSE
