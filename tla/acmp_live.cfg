SPECIFICATION FairSpec
CONSTANTS
  NumSinks = 1
  Talkers = {t1, t2}
  Entities = {{t1}, {t2}}
  None = None
  Waits = {TRUE, FALSE}
  SeqMod = 2
  MaxQueue = 2
  MaxFaults = 0
  LateRestore = FALSE
INVARIANTS SavedAgrees ReservationAgrees
PROPERTY Settles
