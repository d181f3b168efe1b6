SPECIFICATION Spec
CONSTANTS
  a1 = a1
  a2 = a2
  p1 = p1
  p2 = p2
  Pages = {p1, p2}
  Page <- MCPage
  NO_PAGE = NO_PAGE
  Setups <- MCSetups
  Disturbing <- MCDisturbing
  DISTURBANCES = 1
  max_faults = 3
  max_batch_size = 2
  max_batches = 2
  Fatal = {p2}
  Accesses = {a1, a2}
  Threads = {"t"}
  PUSHES = 1
INVARIANTS NoEntryLost PendingCurrent RemovedQuiet NoStorm
CHECK_DEADLOCK FALSE
