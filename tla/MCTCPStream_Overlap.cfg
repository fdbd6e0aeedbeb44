CONSTANTS
  StreamLen = 6
  Segments <- AnySegmentation
  ISN = 3
  SeqSpace = 100
  MaxArrivals = 7
SPECIFICATION Spec
INVARIANTS ContiguousDelivered
CHECK_DEADLOCK FALSE
