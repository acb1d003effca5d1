SPECIFICATION Spec
CONSTANTS
  n1 = n1
  n2 = n2
  n3 = n3
  Node = {n1, n2, n3}
  NoNode = NoNode
  TotalNode = 3
  MaxTerm = 1
  MaxUpdates = 0
  MaxInbox = 1
  MaxCrashes = 0
SYMMETRY MCSymmetry
INVARIANT OneMasterPerTerm
CHECK_DEADLOCK FALSE
