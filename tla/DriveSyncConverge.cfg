CONSTANTS
  r1 = r1
  r2 = r2
  Nobody = Nobody
  Drives <- MCPair
  Authors <- MCAuthor
  Links <- MCPairLinks
  HoldAll = FALSE
  PullLimit = 1
  MaxBackoff = 2
  PullExpiry = 2
  MaxChanges = 1
  MaxFaults = 1
  MaxQueue = 1
  MaxTransfers = 2
SPECIFICATION FairSpec
PROPERTY Converges
CHECK_DEADLOCK FALSE
