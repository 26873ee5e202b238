SPECIFICATION FairSpec
CONSTANTS
  Threads = {t1, t2}
  Levels = {1, 2, 3}
  ErrorLevel = 2
  CriticalLevel = 3
  MaxLogs = 3
INVARIANTS InOrder Drained
CHECK_DEADLOCK FALSE

PROPERTY QueueEmpties
