SPECIFICATION FairSpec
CONSTANTS
  p = p
  NoPeer = NoPeer
  r1 = r1
  s1 = s1
  s2 = s2
  s3 = s3
  NoSocket = NoSocket
  Peers = {p}
  Rooms = {r1}
  Sockets = {s1, s2, s3}
  MaxConnectors = 2
  MaxFaults = 1
  PeersAfterHit = FALSE
INVARIANTS OneSocket RoomsDieWithSocket
PROPERTIES StaysClosed Recovers
CHECK_DEADLOCK FALSE
