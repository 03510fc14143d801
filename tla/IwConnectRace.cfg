SPECIFICATION Spec
CONSTANTS
  Items <- MCItems
  NoItem = "none"
  QueueLimit = 4
  Commands = {"connect"}
  Groups <- MCGroups
  Families <- MCFamilies
  GroupsOf <- MCGroupsOf
  Bss <- MCBss
  MaxEvents = 1
PROPERTY ConnectWaitEnds
CHECK_DEADLOCK FALSE
