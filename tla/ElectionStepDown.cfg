SPECIFICATION Spec
CONSTANTS
  n1 = n1
  n2 = n2
  n3 = n3
  Node = {n1, n2}
  NoNode = NoNode
  TotalNode = 2
  MaxTerm = 1
  MaxUpdates = 2
  MaxInbox = 1
  MaxCrashes = 0
SYMMETRY MCSymmetry
INVARIANT CurrentAfterStepDown
CHECK_DEADLOCK FALSE
