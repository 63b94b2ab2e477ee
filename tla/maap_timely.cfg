SPECIFICATION Spec
CONSTANTS
  Stations = {1, 2}
  RangeIds = {1}
  PoolSize = 3
  Counts = {2}
  MaxRanges = 1
  ProbeRetransmits = 3
  ProbeTicks = {1, 2}
  MaxLoss = 0
  MaxFlaps = 1
  MaxInFlight = 4
  MaxDeletes = 1
INVARIANTS NoTwoOwners
