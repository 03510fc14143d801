SPECIFICATION Spec
CONSTANTS
  Items <- MCItems
  NoItem = "none"
  QueueLimit = 2
  Commands = {"event", "connect", "scan", "cac"}
  Groups <- MCGroups
  Families <- MCFamilies
  GroupsOf <- MCGroupsOf
  Bss <- MCBss
  MaxEvents = 4
INVARIANTS EndsInStep JoinsOwnGroups DumpIsComplete
PROPERTY ListenerHears
CHECK_DEADLOCK FALSE
