SPECIFICATION Spec
CONSTANTS
  u1 = u1
  u2 = u2
  s1 = s1
  s2 = s2
  x1 = x1
  Users = {u1, u2}
  Pubs = {s1, s2}
  Subs = {x1}
  Bounds <- MCBounds
CHECK_DEADLOCK FALSE
INVARIANTS
  TypeOK
  SourcesStored
  OwnersStored
  EndedIsGone
  LinksAgree
  UpdatesApplied
