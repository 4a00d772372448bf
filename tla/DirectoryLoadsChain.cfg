CONSTANTS
  Sessions <- MCSessions
  Dirs <- MCDirs
  Chain <- MCChain
  SendMayFail = TRUE
  MaxRequests = 2
  MaxResyncs = 0
SPECIFICATION Spec
INVARIANT NoFrameIsStale
PROPERTY CompleteMeansListed
CHECK_DEADLOCK FALSE
