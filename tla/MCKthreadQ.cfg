CONSTANTS
  c1 = c1
  c2 = c2
  i1 = i1
  i2 = i2
  w1 = w1
  Clients = {c1, c2}
  Items = {i1}
  NONE = NONE
  Contexts = {w1}
  REUSE = FALSE
SPECIFICATION FairSpec
INVARIANTS SemCountsItems StopDrains
PROPERTIES FlushWaits ScheduledRuns CallsReturn
