CONSTANTS
  t1 = t1
  t2 = t2
  http = http
  Unknown = Unknown
  Threads = {t1, t2}
  Packets <- Mixture
  Timestamps = {0}
  WindowSeconds = 2
  MaxWindows = 2
  MaxTime = 2
  MaxRecorded = 3
SYMMETRY Capturers
SPECIFICATION Spec
INVARIANTS HostsBalance ConnectionsCredited TransportBalance WindowsHoldEverything
CHECK_DEADLOCK FALSE
