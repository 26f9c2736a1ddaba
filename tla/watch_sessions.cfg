SPECIFICATION Spec
CONSTANTS
  Session = {s1, s2}
  Conv = {c1}
  Subscriber = {x1, x2}
  None = None
  Env = {"restart", "fails", "unread", "rename", "close", "audit", "leave"}
  Buffer = 1
  MaxMessages = 1
  MaxDialogs = 1
  MaxEvents = 2
CHECK_DEADLOCK FALSE
SYMMETRY Symmetry
INVARIANTS
  NoDuplicateTurn
  HubDelivers
