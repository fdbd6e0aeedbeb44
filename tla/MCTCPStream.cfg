CONSTANTS
  StreamLen = 6
  Segments <- AnySegmentation
  ISN = 3
  SeqSpace = 100
  MaxArrivals = 7
SPECIFICATION Spec
INVARIANTS BufferCanonical AccountingHolds OnlyRetransmissionsIgnored
PROPERTIES RefinesStreamReassembly
CHECK_DEADLOCK FALSE
