CONSTANTS
  t1 = t1
  t2 = t2
  Threads = {t1}
  Packets <- Session
  Timeout = 1
  MaxTime = 0
  MaxCalls = 4
SPECIFICATION Spec
INVARIANTS ClosingSideTracked
CHECK_DEADLOCK FALSE
