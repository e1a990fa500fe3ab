SPECIFICATION Spec
SYMMETRY MCSymmetry
CONSTANTS
  t1 = t1
  t2 = t2
  Tickets = {t1, t2}
  MaxMarks = 4
  MaxEdits = 2
  MaxErrors = 2
  MaxLost = 1
  None = None
INVARIANTS
  IInv
PROPERTIES
  UndoneOnlyByHand
