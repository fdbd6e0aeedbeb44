CONSTANTS
  StreamLen = 6
  Segments <- AnySegmentation
  ISN = 13
  SeqSpace = 16
  MaxArrivals = 4
SPECIFICATION Spec
INVARIANTS OnlyRetransmissionsIgnored
CHECK_DEADLOCK FALSE
