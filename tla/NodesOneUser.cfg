SPECIFICATION Spec
CHECK_DEADLOCK FALSE
CONSTANTS
  N = 2
  HasMgmt = TRUE
  Ids = {11, 12}
  MaxNodes = 2
  All = All
  Online = Online
  NoCmd = NoCmd
INVARIANTS
  TypeOK
  WaitVerdict
  ExecVerdict
PROPERTIES
  CommandsEnd
