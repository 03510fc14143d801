SPECIFICATION Spec
CONSTANTS
  Commands <- MCCommands
  MaxSteps = 30
  MaxNear = 8
  CommandLines <- MCDevices
  Netdevs = {"wlan0", "event"}
  Phys = {"phy0"}
INVARIANT WdevStandsForNetdev
CHECK_DEADLOCK FALSE
