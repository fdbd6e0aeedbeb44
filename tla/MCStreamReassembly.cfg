CONSTANTS
  StreamLen = 7
  Segments <- AnySegmentation
SPECIFICATION Spec
INVARIANTS TypeOK PrefixDelivered NothingForgotten OnlyOverlapStrands
PROPERTIES ImplementsByteStream
CHECK_DEADLOCK FALSE
