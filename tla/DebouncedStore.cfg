SPECIFICATION FairStoreSpec
CONSTANTS
  Flights = {f1, f2}
  Inodes = {i1, i2, i3}
  NoInode = NoInode
  NoFlight = NoFlight
  MaxVersion = 3
  SlowDisk = FALSE
PROPERTIES ReplacedByNewer EveryChangeSaved
