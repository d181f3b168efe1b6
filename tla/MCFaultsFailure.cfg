SPECIFICATION FairSpec
CONSTANTS
  a1 = a1
  a2 = a2
  p1 = p1
  p2 = p2
  Pages = {p1, p2}
  Page <- MCPage
  NO_PAGE = NO_PAGE
  Setups <- MCSetups
  Disturbing = {"failure"}
  DISTURBANCES = 1
  max_faults = 3
  max_batch_size = 2
  max_batches = 2
  Fatal = {}
  Accesses = {a1, a2}
  Threads = {}
  PUSHES = 1
PROPERTIES FailuresServed
CHECK_DEADLOCK FALSE
