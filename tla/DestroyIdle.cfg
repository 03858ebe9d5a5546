SPECIFICATION FairSpec
CONSTANTS
  Version <- V1_12_2
  EventCount = 10
  Calls = {"JoinAndListen", "Destroy"}
  Careful = TRUE
  Callers = {}
  ServerMay = {}
  MaxConns = 1
  MaxPackets = 1
PROPERTIES DestroyReturns
CHECK_DEADLOCK FALSE
