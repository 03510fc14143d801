SPECIFICATION Spec
CONSTANTS
  a1 = a1
  a2 = a2
  b = b
  c1 = c1
  c2 = c2
  Objects = {a1, a2, b}
  Caches = {c1, c2}
  NameOf <- MCNameOf
  NoCache = NoCache
  MaxHeld = 1
INVARIANTS TypeOK MemorySafe RefsCounted RingsHold
PROPERTIES ClearEnds Implements
CHECK_DEADLOCK FALSE
