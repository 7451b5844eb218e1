SPECIFICATION Spec
CONSTANTS
  Requests <- Client
  Remotes = {TRUE}
  MaxLines = 2
PROPERTIES
  RemoteStopsAtLimit
CHECK_DEADLOCK FALSE
