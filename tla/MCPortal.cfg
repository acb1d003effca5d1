SPECIFICATION FairSpec
CONSTANTS
  c1 = c1
  c2 = c2
  c3 = c3
  Sockets = {c1, c2, c3}
  None = None
  Bounds <- MCBounds
CHECK_DEADLOCK FALSE
INVARIANTS
  ClientsFollowed
  RoomAgrees
  MessagesKept
PROPERTIES
  OldConnectionsHarmless
  LostLeave
