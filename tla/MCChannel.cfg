CONSTANTS
  num_gpfifo_entries = 3
  PAYLOADS = 3
  PROGRESS_COUNT = 1
  NO_PUSH_INFO = NO_PUSH_INFO
  Threads = {t1, t2}
  MAX_ENTRIES = 2
SPECIFICATION FairSpec
INVARIANTS RingHasRoom NoEarlyReclaim CompletedExact PushInfosOwned
PROPERTIES OperationsEnd
