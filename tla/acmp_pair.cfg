SPECIFICATION Spec
CONSTANTS
  NumSinks = 2
  Talkers = {t1, t2}
  Entities = {{t1, t2}}
  None = None
  Waits = {FALSE}
  SeqMod = 2
  MaxQueue = 1
  MaxFaults = 0
  LateRestore = FALSE
INVARIANTS TimersMatchState ProbeOutstanding SettledOnBound NoLostWakeup ProbingReported NoSharedTalker
