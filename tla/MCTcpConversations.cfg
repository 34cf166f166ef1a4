SPECIFICATION ConvSpec
CONSTANTS
  p1 = p1
  SeqHalf = 8
  Pairs <- MCPairs
  Packets <- MCPackets
  MaxPackets = 4
  MaxConnections = 3
  Window = 2
  Starts <- MCStarts
  RepeatAny = FALSE
INVARIANTS
  IInv
  OnlyRetransmissionsAfterReset
  ConnectionsAreWhole
  ConnectionsAreApart
CHECK_DEADLOCK FALSE
