SPECIFICATION MCSpec
CONSTANTS
  w1 = w1  w2 = w2  j1 = j1  j2 = j2
  Sessions <- MCSessions
  Early = {w1}
  VersionOnly = {w2}
  Jobs <- MCJobs
  Owner <- MCEach
  Calls = {j2}
  Resyncs = {j2}
  MaxExternal = 1
  Fragile = {w2}
INVARIANTS  ClaimIsRunning
PROPERTIES RequestSettles MirrorCatchesUp
CHECK_DEADLOCK FALSE
