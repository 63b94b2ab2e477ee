SPECIFICATION FairSpec
CONSTANTS
  Stations = {1, 2}
  RangeIds = {1}
  PoolSize = 2
  Counts = {1}
  MaxRanges = 1
  ProbeRetransmits = 3
  ProbeTicks = {0}
  MaxLoss = 1
  MaxFlaps = 1
  MaxInFlight = 2
  MaxDeletes = 0
INVARIANTS HostView TimersMatchState
PROPERTY ConflictResolved
