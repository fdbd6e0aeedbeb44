CONSTANTS
  t1 = t1
  t2 = t2
  http = http
  Unknown = Unknown
  Threads = {t1, t2}
  Packets <- Mixture
  Timestamps = {}
  WindowSeconds = 2
  MaxWindows = 2
  MaxTime = 2
  MaxRecorded = 2
SPECIFICATION Spec
INVARIANTS EveryPacketInAWindow
CHECK_DEADLOCK FALSE
