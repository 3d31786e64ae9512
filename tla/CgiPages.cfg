SPECIFICATION Spec
CONSTANTS
  Conn = {c1, c2}
  Directories <- MCDirectories
  Settings <- MCSettings
  Requests <- MCRequests
SYMMETRY Alike
INVARIANTS
  PageCountsItself
  PageAsWritten
CHECK_DEADLOCK FALSE
