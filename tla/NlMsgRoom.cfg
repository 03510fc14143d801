SPECIFICATION MCSpec
CONSTANTS
  Size = 56
  Request = "msg"
  Blocks = {"ssids"}
  Leaves = {"leaf"}
  Nests = {"nest"}
  Payloads = {0, 1}
PROPERTY FittingIsPut
CHECK_DEADLOCK FALSE
