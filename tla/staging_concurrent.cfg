SPECIFICATION FairSpec
CONSTANTS
  Op = {o1, o2}
  Name = {n1}
  Conv = {c1}
  Profile = {estandar, deepseek}
  estandar = estandar
  deepseek = deepseek
  zai = zai
  keyA = keyA
  keyB = keyB
  oauth = oauth
  Boot = estandar
  BootAvailable = TRUE
  Auth <- MCAuth
  OAuth = oauth
  Size <- MCSize
  Edited = Edited
  Torn = Torn
  Garbled = Garbled
  None = None
  Serial = FALSE
  Requests = {"newWith", "rc", "profile"}
  Env = {"dialog"}
  Faults = {"spawn", "write", "crash"}
  MaxFaults = 1
PROPERTIES
  RequestsReturn
INVARIANTS NoOrphanStaging FileWhole
