SPECIFICATION Spec
CONSTANTS
  SeqHalf = 16
  Capacities = {2, 3}
  Narrow = 3
  Longest = 3
  Inputs <- Scenes
INVARIANTS
  PlanInv
  NewStreamsAreEmitted
  FinClosesStream
  AcksAreRight
CHECK_DEADLOCK FALSE
