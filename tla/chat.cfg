SPECIFICATION ChatSpec
CONSTANTS
  Text = {t1, t2}
  maxChatMsgs = 2
  MaxLines = 6
  MaxSnapshots = 2
CHECK_DEADLOCK FALSE
SYMMETRY Symmetry
INVARIANTS
  ChatIsConversation
  IndexStable
