SPECIFICATION MCSpec
CONSTANTS
  Size = 56
  Request = "msg"
  Blocks = {"ssids"}
  Leaves = {"leaf"}
  Nests = {"nest"}
  Payloads = {0, 1}
INVARIANTS MsgTypeOK StreamsAreSound
PROPERTY Implements
CHECK_DEADLOCK FALSE
