SPECIFICATION Spec
CONSTANTS
  Version <- V1_12_2
  EventCount = 4
  Calls = {"JoinAndListen"}
  Careful = TRUE
  Callers = {}
  ServerMay = {"kick"}
  MaxConns = 2
  MaxPackets = 1
INVARIANTS ListenerAlive
CHECK_DEADLOCK FALSE
