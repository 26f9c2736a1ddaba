SPECIFICATION Spec
CONSTANTS
  Op = {o1}
  Name = {n1, n2}
  Conv = {c1, c2}
  Profile = {estandar, deepseek}
  estandar = estandar
  deepseek = deepseek
  zai = zai
  keyA = keyA
  keyB = keyB
  oauth = oauth
  Boot = estandar
  BootAvailable = TRUE
  Auth <- MCAuth
  OAuth = oauth
  Size <- MCSize
  Edited = Edited
  Torn = Torn
  Garbled = Garbled
  None = None
  Serial = TRUE
  Requests = {"new", "newWith", "kill", "resume", "rc", "profile"}
  Env = {"turn", "bridge", "exit", "byHand"}
  Faults = {"spawn", "write", "crash"}
  MaxFaults = 1
SYMMETRY Symmetric
INVARIANTS
  EndsInRequestedState
  StagedUnderBoot
PROPERTIES
  ImplementsRegister
