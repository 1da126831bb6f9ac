SPECIFICATION FairSpec
CONSTANTS
  Procs = {p, q}
  KeyPairs = {k1, k2}
  Agents = {x}
  AutoName = x
  MaxSuffix = 1
  MaxAttempts = 2
  MaxStarts = 2
  MaxLapses = 1
  MaxRacedLapses = 0
  NoProc = NoProc
  NoAgent = NoAgent
  NoName = NoName
  NoKey = NoKey
  Empty = Empty
  Free = Free
  Other = Other
INVARIANTS PidNamesDaemon NamesAreOurs OneConnector
PROPERTIES IdentityStays NoSecondName Registers
CHECK_DEADLOCK FALSE
