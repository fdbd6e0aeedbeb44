CONSTANTS
  StreamLen = 8
  Segments <- OneSegmentation
  ISN = 3
  SeqSpace = 100
  MaxArrivals = 8
SPECIFICATION Spec
INVARIANTS ContiguousDelivered
CHECK_DEADLOCK FALSE
