SPECIFICATION Spec
CONSTANTS
  Op = {o1, o2}
  Client = {c1}
  User = {u1, u2}
  Password = {p1, p2}
  None = None
  Torn = Torn
  MaxFails = 2
  Requests = {"login", "totp", "enroll", "confirm", "disable", "password", "addUser", "deleteUser", "patch"}
  MaxSecrets = 2
  MaxTime = 1
  MaxRequests = 5
  MaxFaults = 1
CHECK_DEADLOCK FALSE
SYMMETRY Symmetry
INVARIANTS
  SomeUser
  SecretProven
  CodeOnce
  FileFollows
  EveryFailureCounts
