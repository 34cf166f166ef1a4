SPECIFICATION Spec
CONSTANTS
  MaxDomain = 3
  MaxBsonDepth = 2
  Streams <- AllStreams
INVARIANTS
  HandlerInv
  AcceptedStreamsAreRight
PROPERTY
  EveryStreamIsDecided
CHECK_DEADLOCK FALSE
