SPECIFICATION RoomSpec
CONSTANTS
  p1 = p1
  p2 = p2
  y1 = y1
  v1 = v1
  v2 = v2
  Sources = {s1}
  Subs = {x1, x2}
  Xcoders = {c1, c2}
  Mixed = Mixed
  Own = Own
  Rebuilt = Rebuilt
  Formats = {f}
  MaxOutputs = 2
  Bounds <- MCBounds
SYMMETRY MCSymmetry
CHECK_DEADLOCK FALSE
INVARIANTS
  
  MixedIsInput
  OutputsAgree
  RestIsClean
  ControlsAgree
