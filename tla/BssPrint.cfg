SPECIFICATION PrintSpec
CONSTANTS
  Modes = {"scan", "link"}
  MaxAfter = 2
  ElementLens <- MCElementLens
  Counts <- MCCounts
  Nibbles = {0, 1, 3, 8, 15}
  PrintOptions <- MCOptions
  MaxEntries <- MCMaxEntries
  Bssids = {b1, b2}
INVARIANTS
  ReadsInside
  PointerInStep
  SetsShown
  LinkIsConsistent
PROPERTIES
  LoopsConsume
CHECK_DEADLOCK FALSE
