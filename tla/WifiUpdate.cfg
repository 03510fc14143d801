SPECIFICATION Spec
CONSTANTS
  Items <- MCItems
  NoItem = "none"
  QueueLimit = 4
  Families <- MCFamilies
  Worlds <- MCWorlds
  StationsOf <- MCStationsOf
  Has <- MCHas
  Faults = TRUE
INVARIANTS LastOneWins FailedRequestHangs
PROPERTIES DumpsAreReadOut ConstructorReturns
CHECK_DEADLOCK FALSE
