SPECIFICATION ConvSpec
CONSTANTS
  p1 = p1
  SeqHalf = 8
  Pairs <- MCPairs
  Packets <- MCPackets
  MaxPackets = 5
  MaxConnections = 2
  Window = 2
  Starts <- MCStarts
  RepeatAny = TRUE
INVARIANTS
  ConnectionsAreWhole
CHECK_DEADLOCK FALSE
