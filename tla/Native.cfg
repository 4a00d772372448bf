SPECIFICATION NativeSpec
CONSTANTS
  Calls = {1, 2}
  Digests = {"a", "b"}
  Versions = {"v1", "v2"}
  Names <- MCNames
  Seed <- MCSeed
  KeptAll = FALSE
  Inodes = {1, 2, 3, 4}
  MaxOps = 2
  MaxTouches = 1
  MaxFails = 1
  MaxReloads = 1
  MaxCrashes = 1
  UndoNames = {"a", "b"}
  UndoInodes = {1, 2, 3}
  UndoCalls = {1}
  Capacity = 1
  MaxUndoOps = 2
  MaxForeign = 2
  MidCall = FALSE
  Files = {"f"}
  Dirs = {"d"}
  MaxVersion = 2
  MaxChanges = 2
  MaxFaults = 1
  Replacement = FALSE
INVARIANTS  RestartRecovers 
PROPERTY UndoIsExact
CHECK_DEADLOCK FALSE
