SPECIFICATION FairSpec
CONSTANTS
  Parts = {a, b}
  Attrs = {x}
  Declarers = {a}
  Exclusive = FALSE
  PointToPoint = TRUE
  JoinTicks = 1
  LeaveTicks = 3
  LvaTicks = 4
  MaxInFlight = 2
  MaxLoss = 1
  MaxLeaves = 1
  MaxJoins = 2
  MaxChanges = 0
  MaxDisables = 0
PROPERTIES NoSpuriousTimeout Converges
