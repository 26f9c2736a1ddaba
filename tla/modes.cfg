SPECIFICATION FairSpec
CONSTANTS
  Op = {1, 2}
  Session = {s1}
  Profile = {plain, full}
  plain = plain
  full = full
  manual = manual
  edits = edits
  auto = auto
  None = None
  Mode = {manual, edits, auto}
  Wheel <- MCWheel
  modeWheel <- MCModeWheel
  Likeness = {edits}
  maxModeCycle = 4
  Env = {"idle", "working", "wrapped", "dialog", "moves", "exits", "switches"}
  MaxEvents = 2
CHECK_DEADLOCK FALSE
INVARIANT CachedIsReal
PROPERTIES
  ModeReached
  RequestEnds
