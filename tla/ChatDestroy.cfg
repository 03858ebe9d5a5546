SPECIFICATION Spec
CONSTANTS
  Version <- V1_12_2
  EventCount = 10
  Calls = {"Join", "Destroy"}
  Careful = TRUE
  Callers = {a}
  ServerMay = {}
  MaxConns = 1
  MaxPackets = 1
INVARIANTS NoPanic
CHECK_DEADLOCK FALSE
