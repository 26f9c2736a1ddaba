SPECIFICATION FairResizeSpec
CONSTANTS
  Agent = {a1, a2}
  None = None
  MaxCrashes = 2
  Req = {r1, r2}
  Session = {s1}
  Name = {n1, n2}
  Cooldown = 3
  Window = 1
  MaxDelay = 1
CHECK_DEADLOCK FALSE
INVARIANTS
  ListenersReachable
  NeverCleared
PROPERTIES
  ComesUp
  SettledKeepsPath
