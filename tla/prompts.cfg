SPECIFICATION Spec
CONSTANTS
  Op = {o1, o2}
  New = {x, y}
  None = None
  Broken = Broken
  Original = Original
  Serial = TRUE
  Requests = {"load", "saveNew", "saveOver", "rename", "setActive", "delete"}
  MaxLegacy = 2
  MaxId = 5
  MaxRequests = 4
  MaxFaults = 2
CHECK_DEADLOCK FALSE
SYMMETRY Symmetry
INVARIANTS
  ListedHasContent
  SavedStays
  LegacyKept
  InForceKept
