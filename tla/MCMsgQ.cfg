SPECIFICATION FairSpec
CONSTANTS
  msgCount = 3
  MAX_ELEMS = 2
  SEQS = 4
  Setups <- MCSetups
  NO_STORE = NO_STORE
  MAX_RECORDS = 7
  MAX_SENDS = 7
INVARIANTS NoOverwrite
PROPERTIES QueueSpec Delivered
