SPECIFICATION FairSpec
CONSTANTS
  num_gpfifo_entries = 4
  NOTIFIER_MOD = 16
  PAYLOAD_MOD = 8
  MAX_PUSHES = 12
INVARIANTS NoFalseAlarm CompletedExecuted
PROPERTIES EveryPushCompletes
