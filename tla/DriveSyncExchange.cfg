CONSTANTS
  r1 = r1
  r2 = r2
  Nobody = Nobody
  Drives <- MCPair
  Authors <- MCPair
  Links <- MCPairLinks
  HoldAll = FALSE
  PullLimit = 1
  MaxBackoff = 2
  PullExpiry = 2
  MaxChanges = 2
  MaxFaults = 0
  MaxQueue = 0
  MaxTransfers = 2
SPECIFICATION Spec
INVARIANTS
  BeliefIsCovered
  WantIsKnown
SYMMETRY Symmetry
CHECK_DEADLOCK FALSE
