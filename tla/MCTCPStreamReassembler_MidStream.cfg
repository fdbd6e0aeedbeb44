CONSTANTS
  t1 = t1
  t2 = t2
  Threads = {t1}
  Packets <- MidStream
  Timeout = 1
  MaxTime = 0
  MaxCalls = 4
SPECIFICATION Spec
INVARIANTS NoRedelivery
CHECK_DEADLOCK FALSE
