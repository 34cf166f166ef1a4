SPECIFICATION BatchSpec
CONSTANTS
  Inputs <- Captures
  OutputDirs <- Below
  MaxInvocations = 2
  MaxTime = 1
INVARIANTS
  BatchInv
  OutputsAreOnlyLostToTwins
PROPERTY FailuresStopNoBatch
CHECK_DEADLOCK FALSE
