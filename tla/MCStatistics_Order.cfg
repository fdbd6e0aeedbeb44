CONSTANTS
  t1 = t1
  t2 = t2
  http = http
  Unknown = Unknown
  Threads = {t1, t2}
  Packets <- Mixture
  Timestamps = {}
  WindowSeconds = 2
  MaxWindows = 3
  MaxTime = 2
  MaxRecorded = 4
SPECIFICATION Spec
INVARIANTS OneEntryPerWindow
CHECK_DEADLOCK FALSE
