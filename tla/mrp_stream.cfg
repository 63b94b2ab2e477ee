SPECIFICATION Spec
CONSTANTS
  Parts = {a, b}
  Attrs = {x, y}
  Declarers = {a}
  Exclusive = TRUE
  PointToPoint = TRUE
  JoinTicks = 0
  LeaveTicks = 0
  LvaTicks = 0
  MaxInFlight = 1
  MaxLoss = 0
  MaxLeaves = 1
  MaxJoins = 1
  MaxChanges = 2
  MaxDisables = 1
INVARIANTS DeclarationKept AnxiousIsScheduled IndicationsAgree LeavingIsTimed LeaveAllNeverFrees
