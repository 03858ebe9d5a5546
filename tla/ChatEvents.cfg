SPECIFICATION FairSpec
CONSTANTS
  Version <- V1_12_2
  EventCount = 10
  Calls = {"JoinAndListen"}
  Careful = TRUE
  Callers = {}
  ServerMay = {"chat"}
  MaxConns = 1
  MaxPackets = 1
PROPERTIES ChatReported
CHECK_DEADLOCK FALSE
