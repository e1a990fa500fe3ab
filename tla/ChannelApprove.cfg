SPECIFICATION Spec
CONSTANTS
  p1 = p1
  Posts = {p1}
  Calls = {"compose", "now", "approve"}
  MaxEdits = 0
  MaxRefusals = 0
  MaxLost = 0
  MaxCrashes = 0
  None = None
CHECK_DEADLOCK FALSE
INVARIANTS
  OutOnce
