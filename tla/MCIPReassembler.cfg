CONSTANTS
  t1 = t1
  t2 = t2
  first = first
  second = second
  third = third
  Threads = {t1, t2}
  Packets <- Mixture
  Lifetime = 1
  Timeout = 2
  CallsTakeTime = FALSE
  HeaderLen = 1
  MaxTotalLen = 4
  MaxTime = 5
  MaxCalls = 4
  MaxResets = 1
SPECIFICATION Spec
SYMMETRY Symmetry
INVARIANTS Intact BuffersCanonical CoverageCompletes NeverOvercounted
CHECK_DEADLOCK FALSE
