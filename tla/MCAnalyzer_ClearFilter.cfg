CONSTANTS
  t1 = t1
  t2 = t2
  tcp = tcp
  udp = udp
  c1 = c1
  c2 = c2
  NoFilter = NoFilter
  NoThread = NoThread
  Threads = {t1}
  Frames <- AllFrames
  Filters = {tcp, udp}
  Callbacks = {c1, c2}
  Initially <- Registered
  OneShot = {}
  MaxPackets = 1
  MaxRegistered = 3
  MaxRemovals = 1
SPECIFICATION Spec
INVARIANTS OnlyBadFramesFail
CHECK_DEADLOCK FALSE
