SPECIFICATION FairSpec
CONSTANTS
  a1 = a1
  a2 = a2
  p1 = p1
  p2 = p2
  Pages = {p1, p2}
  Page <- MCPage
  NO_PAGE = NO_PAGE
  Setups <- LiveSetups
  Disturbing <- MCDisturbing
  DISTURBANCES = 1
  max_faults = 2
  max_batch_size = 1
  max_batches = 1
  Fatal = {}
  Accesses = {a1, a2}
  Threads = {"t"}
  PUSHES = 1
PROPERTIES AccessesServed ThreadsReturn
CHECK_DEADLOCK FALSE
