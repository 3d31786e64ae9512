SPECIFICATION Spec
CONSTANTS
  Requests <- Posts
  Specs <- Directly
  MaxRetries = 0
  ReadMax = 2
INVARIANTS
  BodyForwarded
CHECK_DEADLOCK FALSE
