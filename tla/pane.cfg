SPECIFICATION Spec
CONSTANTS
  Op = {o1, o2, o3}
  Pane = {p1}
  Name = {n1, n2}
  None = None
  Requests = {"text", "key", "choice", "autoRename", "rc", "startup", "move"}
  Env = {"asks", "phone"}
  MaxDialogs = 2
CHECK_DEADLOCK FALSE
SYMMETRY Symmetry
INVARIANTS
  LockedLinesWhole
  SentMeansSubmitted
  ChoiceConfirms
  HolderRuns
PROPERTIES
  RenameWaitsForIdle
