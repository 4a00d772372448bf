SPECIFICATION SessionsSpec
CONSTANTS
  MaxFrames = 2
  MaxPings = 2
  Conns = {1, 2, 3}
  Peer <- MCPeer
  MaxSessions = 2
  MaxPerPeer = 2
  Attempts = {1, 2}
  MaxRequests = 2
  Paths = {1, 2}
  Below <- MCBelow
  Concurrency = 1
  MaxStuck = 1
  MaxTicks = 1
  MaxSpawnFails = 1
INVARIANTS
  HostFollowsItsSessions
  ExactlyOneDriver
PROPERTIES
  RemoteOpenIsSound
  ClosedLeavesNoSession
  ReadsAreAttended
CHECK_DEADLOCK FALSE
