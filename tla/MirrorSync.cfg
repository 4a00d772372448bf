SPECIFICATION Spec
CONSTANTS
  Dirs = {1}
  Files = {2, 3}
  Limit = 2
  Offsets = {0, 1}
  Cap = 9
  ByModified = FALSE
  MaxSteps = 3
INVARIANTS ListingIsCurrent RowIsCurrent
CHECK_DEADLOCK FALSE
