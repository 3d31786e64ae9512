SPECIFICATION ReloadFairSpec
CONSTANTS
  Loops = {l1, l2}
  MaxEdits = 2
  MayDelete = {"config", "filter"}
INVARIANT
  FilterEditNoticed
PROPERTIES
  FilterCatchesUp
CHECK_DEADLOCK FALSE
