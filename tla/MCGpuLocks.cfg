SPECIFICATION FairSpec
CONSTANTS
  Gpus = {1, 2}
  Threads = {t1, t2}
  API = api
  NO_THREAD = none
  NO_SEMA = nosema
  MAX_CALLS = 2
  MAX_CHANGES = 2
INVARIANTS MutualExclusion CountExact WaitersHaveSemaphore
PROPERTIES MaskStable CallsReturn ChangesEnd
CHECK_DEADLOCK FALSE
