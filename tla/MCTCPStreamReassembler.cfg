CONSTANTS
  t1 = t1
  t2 = t2
  Threads = {t1, t2}
  Packets <- TwoSessions
  Timeout = 1
  MaxTime = 2
  MaxCalls = 5
SPECIFICATION Spec
SYMMETRY Symmetry
INVARIANTS TypeOK ConnectionBalance EstablishedBound OpenedBySyn NoneExpiredOnEntry
PROPERTIES NeverExpiredEarly
CHECK_DEADLOCK FALSE
