SPECIFICATION Spec
CONSTANTS
  p = p
  q = q
  NoPeer = NoPeer
  r1 = r1
  r2 = r2
  s1 = s1
  s2 = s2
  s3 = s3
  NoSocket = NoSocket
  Peers = {p, q}
  Rooms = {r1, r2}
  Sockets = {s1, s2, s3}
  MaxConnectors = 2
  MaxFaults = 0
  PeersAfterHit = FALSE
PROPERTIES PeersRemembered
CHECK_DEADLOCK FALSE
