CONSTANTS
  t1 = t1
  t2 = t2
  tcp = tcp
  udp = udp
  c1 = c1
  c2 = c2
  NoFilter = NoFilter
  NoThread = NoThread
  Threads = {t1, t2}
  Frames <- AllFrames
  Filters = {tcp, udp}
  Callbacks = {c1, c2}
  Initially <- Registered
  OneShot = {c1}
  MaxPackets = 2
  MaxRegistered = 3
  MaxRemovals = 1
SPECIFICATION FairSpec
INVARIANTS EveryPacketAccounted AcceptedBySomeFilter SkipsAtMostRemovals
PROPERTIES AnalyzeReturns
CHECK_DEADLOCK FALSE
