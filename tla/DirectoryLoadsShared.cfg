CONSTANTS
  Sessions <- MCSessions
  Dirs <- MCDir
  Chain <- MCFlatChain
  SendMayFail = FALSE
  MaxRequests = 3
  MaxResyncs = 1
SPECIFICATION FairSpec
INVARIANTS
  TypeOK
  LoadingIsOwed
  InterestIsExpansion
PROPERTY LoadSettles
CHECK_DEADLOCK FALSE
