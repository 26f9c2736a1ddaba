SPECIFICATION FairSpec
CONSTANTS
  Session = {s1}
  Conv = {c1}
  Subscriber = {}
  None = None
  Env = {"flicker"}
  Buffer = 1
  MaxMessages = 2
  MaxDialogs = 2
  MaxEvents = 0
CHECK_DEADLOCK FALSE
INVARIANTS
  SeenTurns
PROPERTIES
  TurnsAnnounced
  DialogsAnnounced
  NoDialogSwallowed
