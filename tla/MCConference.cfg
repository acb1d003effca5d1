SPECIFICATION NodeSpec
CONSTANTS
  u1 = u1
  u2 = u2
  s1 = s1
  x1 = x1
  x2 = x2
  sip1 = sip1
  i1 = i1
  t1 = t1
  r1 = r1
  r2 = r2
  NoRoom = NoRoom
  Client = Client
  Server = Server
  near = near
  far = far
  sn = sn
  sf = sf
  Users = {u1, u2}
  Streams = {s1}
  Subs = {x1, x2}
  Admin = Admin
  Bounds <- MCBounds
SYMMETRY MCSymmetry
CHECK_DEADLOCK FALSE
INVARIANTS
  OwnersPresent
  StreamsAgree
  ResourcesAgree
  ReadyIsUp
  RoomsAgree
  MirrorsAgree
