SPECIFICATION Spec
CONSTANTS
  Exchanges = {"get"}
  MaxExchanges = 2
  MaxCut = 0
  Growth = 1
  FirstFlows = {"client"}
  Handshakes <- DeclinedHandshakes
  PlainFrames <- TextsAndOdd
  Conversations <- Captured
INVARIANTS
  NothingIsMissedSilently
CHECK_DEADLOCK FALSE
