SPECIFICATION FairSpec
CONSTANTS
  Funcs = {f}
  EVENT = EVENT
  LOG = LOG
  CONTINUATION = CONTINUATION
  NONE = NONE
  Sizes = {6}
  maxRpcSize = 3
  HEADER = 1
  QUEUE_SIZE = 2
  MAX_DEPTH = 2
  MAX_RPCS = 2
  MAX_EVENTS = 1
  MAX_FAILURES = 1
INVARIANTS OwnAnswer TimeoutHonest
PROPERTIES RpcReturns EventsHandled
CHECK_DEADLOCK FALSE
