SPECIFICATION Spec
CONSTANTS
  GroupSize = 4
  IntSize = 512
  MaxVarIntSize = 5
  MaxPacketDataSize = 40
  Checked <- MCChecked
  Ids <- MCIds
  LongIds <- MCLongIds
  Thresholds <- MCThresholds
  UUIDs = {"nil", "configured"}
  Keys = {"none"}
INVARIANT PlayerActions
CHECK_DEADLOCK FALSE
