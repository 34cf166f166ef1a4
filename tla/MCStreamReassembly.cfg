SPECIFICATION Spec
CONSTANTS
  SeqHalf = 8
  Bytes <- MCBytes
  Hole = 0
  Captures <- MCCaptures
  MaxPayloads = 3
INVARIANTS
  ReassemblyInv
  BaseIsEarliest
  FirstPayloadWins
  PrimariesCoverStream
  ConflictsAreSeen
CHECK_DEADLOCK FALSE
