SPECIFICATION Spec
CONSTANTS
  Version <- V1_21_3
  EventCount = 1
  Calls = {"JoinAndListen", "Close", "Destroy"}
  Careful = FALSE
  Callers = {a}
  ServerMay = {"kick", "chat"}
  MaxConns = 2
  MaxPackets = 1
INVARIANTS OneReader ChatOnlyInPlay
CHECK_DEADLOCK FALSE
