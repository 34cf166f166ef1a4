SPECIFICATION UtilsSpec
CONSTANTS
  MaxLen = 5
  MaxNew = 3
  Inputs <- MCInputs
  Digits = {"1"}
  Letters = {"a"}
  Others = {" "}
  MaxLength = 8
  OldAddress <- Old
  NewAddress <- New
INVARIANTS
  LoopComputesMapOffset
  KeptBytesAreFound
  OrderIsKept
  ReplacesTheMatches
  FindingAgreesWithReplacing
CHECK_DEADLOCK FALSE
