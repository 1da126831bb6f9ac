SPECIFICATION FairSpec
CONSTANTS
  r1 = r1
  r2 = r2
  r3 = r3
  NoSocket = NoSocket
  Requests = {r1, r2, r3}
  MaxConcurrent = 2
  Sockets = {1, 2, 3}
INVARIANTS SlotsComeBack
PROPERTIES SentRequestsEnd
CHECK_DEADLOCK FALSE
