SPECIFICATION Spec
CONSTANTS
  p1 = p1
  Posts = {p1}
  Calls = {"compose", "now", "approve", "reject", "remove", "edit"}
  MaxEdits = 2
  MaxRefusals = 1
  MaxLost = 1
  MaxCrashes = 1
  None = None
CHECK_DEADLOCK FALSE
INVARIANTS
  IInv
  RepeatsHaveCause
  RemovedStaysOut
