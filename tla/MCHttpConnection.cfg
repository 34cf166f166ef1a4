SPECIFICATION Spec
CONSTANTS
  Exchanges = {"get", "get chunked", "get until close", "get opaque", "head", "post", "upload", "refused"}
  MaxExchanges = 3
  MaxCut = 2
  Growth = 1
  FirstFlows = {"client"}
  Handshakes <- FairHandshakes
  PlainFrames <- TextsAndOdd
  Conversations <- Captured
INVARIANTS
  HttpInv
  LengthsStayTrue
  NothingIsMissedSilently
  SupportedFlowsAreRewritten
CHECK_DEADLOCK FALSE
