SPECIFICATION AgentsSpec
CONSTANTS
  r1 = r1
  r2 = r2
  t1 = t1
  t2 = t2
  t3 = t3
  c1 = c1
  c2 = c2
  c3 = c3
  None = None
  pub1 = pub1
  pub2 = pub2
  sub1 = sub1
  tr1 = tr1
  tr2 = tr2
  mid1 = mid1
  mid2 = mid2
  mid3 = mid3
  rid1 = rid1
  rid2 = rid2
  layer = layer
  switch = switch
  remote = remote
  peer = peer
  i1 = i1
  i2 = i2
  s1 = s1
  s2 = s2
  s3 = s3
  link = link
  link2 = link2
  o1 = o1
  o2 = o2
  f1 = f1
  f2 = f2
  p1 = p1
  p2 = p2
  u1 = u1
  u2 = u2
  n1 = n1
  n2 = n2
  Callers = {c1, c2}
  Rooms = {r1, r2}
  TaskNames = {t1, t2}
  Agents <- MCAgents
  Undefined = Undefined
  NoRooms = NoRooms
  MaxEntries = 2
INVARIANTS
  NodesAgree
  RoomOnOneNode
  WebrtcAgrees
  SipAgrees
  VideoAgrees
  AudioAgrees
  ClientAgrees
  QuicAgrees
CHECK_DEADLOCK FALSE
