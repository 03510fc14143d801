SPECIFICATION Spec
CONSTANTS
  Commands <- MCCommands
  MaxSteps = 30
  MaxNear = 8
  CommandLines <- MCLines
  Netdevs = {"wlan0", "event"}
  Phys = {"phy0"}
INVARIANTS
  TypeOK
  SentAsMeant
  AcceptsOnlyUsage
  ReadsOnlyArguments
  ReachesCommand
  ZeroMeansDone
  NothingKept
  OwnPrinter
CHECK_DEADLOCK FALSE
