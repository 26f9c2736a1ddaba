SPECIFICATION Spec
CONSTANTS
  Op = {o1, o2}
  Conv = {c1}
  None = None
  Empty = Empty
  Garbled = Garbled
  Requests <- MCRequests
  Env = {"sync", "delete", "ps", "write", "crash"}
  MaxSize = 2
  MaxTime = 1
  MaxEvents = 6
CHECK_DEADLOCK FALSE
SYMMETRY Symmetry
INVARIANTS
  LiveShown
  SidecarWhole
PROPERTY SearchTrue
