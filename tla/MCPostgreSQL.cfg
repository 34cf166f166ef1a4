SPECIFICATION Spec
CONSTANTS
  ClientKinds <- SessionKinds
  Answers = {"C", "E"}
  MaxMessages = 4
  MaxRows = 1
  OnceEach = TRUE
  FirstFlows = {"client", "server"}
INVARIANTS
  PostgreSQLInv
  NothingIsMissedSilently
  TextRowsAreRewritten
CHECK_DEADLOCK FALSE
