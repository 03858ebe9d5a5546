SPECIFICATION FairSpec
CONSTANTS
  Version <- V1_12_2
  EventCount = 1
  Calls = {"Join", "JoinAndListen", "Close", "Destroy"}
  Careful = TRUE
  Callers = {}
  ServerMay = {"kick", "end"}
  MaxConns = 2
  MaxPackets = 2
INVARIANTS TypeOK OneReader NoPanic OwnConnection EchoesMatchEvents DisconnectLast ListenerServed CarefulInv
PROPERTIES KeepAliveAnswered DisconnectReported DestroyAfterDisconnect JoinReturns
CHECK_DEADLOCK FALSE
