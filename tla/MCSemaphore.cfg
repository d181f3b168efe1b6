CONSTANTS
  t1 = t1
  t2 = t2
  t3 = t3
  t4 = t4
  t5 = t5
  Threads = {t1, t2, t3, t4}
  NO_THREAD = NO_THREAD
  INITIAL = 1
  MAX_VALUE = 3
SPECIFICATION FairSpec
INVARIANTS WokenOnce
PROPERTIES ImplementsCounting UnitsTaken
\* Threads that all wait in down() for a unit nobody gives back are stuck.
CHECK_DEADLOCK FALSE
