SPECIFICATION FairSpec
CONSTANTS
  Writers = {w1}
  Readers = {r1, r2}
  Packets = {chat, position}
  Unwritable = {position}
  Reply = reply
  None = none
  Nobody = nobody
  Frames = {"keepAlive", "unknown", "undecodable", "empty"}
  MaxLength = 2
  MaxWrites = 1
  MaxFrames = 2
INVARIANTS TypeOK NeverMixed InStep ConnInv
PROPERTIES ImplementsStream WriteReturns EveryFrameRead
CHECK_DEADLOCK FALSE
