SPECIFICATION Spec
CONSTANTS
  Supported <- EarlyFinish
  RequestsAfterPacks = TRUE
  MaxExtra = 1
INVARIANTS ServerUnderstands
CHECK_DEADLOCK FALSE
