SPECIFICATION Spec
CONSTANTS
  Datagrams = 2
  Flows = 3
  Segments = 2
INVARIANTS
  PipelineInv
PROPERTY
  KeepsPromise
CHECK_DEADLOCK FALSE
