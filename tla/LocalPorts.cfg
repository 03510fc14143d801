SPECIFICATION Spec
CONSTANTS
  Sockets = {s1, s2, s3}
  Slots = 3
  LowMax = 2
  Pid <- MCPid
  Explicit <- MCExplicit
SYMMETRY Symmetry
INVARIANTS TypeOK HoldersApart GeneratedCanBind NothingLeaks
