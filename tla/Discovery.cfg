SPECIFICATION FairSpec
CONSTANTS
  Hosts = {h1}
  Kinds <- MCKinds
  Flapping <- MCFlapping
  Cards = {c1, c2}
  NoCard = NoCard
  None = None
INVARIANTS OneFetch
PROPERTIES UpIsShown DownIsShown CardsCatchUp ScanShows
