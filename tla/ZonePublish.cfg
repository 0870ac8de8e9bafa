CONSTANTS
  h1 = h1
  h2 = h2
  Host = {h1, h2}
  Addr = {1, 2, 3}
  NoAddr = NoAddr
  NumNets = 2
  NumViews = 2
  NetOf <- TwoNets
  WrongClass = {2}
  Initial <- OneHost
  MaxRuns = 3
  MaxEdits = 2
  MaxFaults = 2
SPECIFICATION FairSpec
INVARIANTS
  ForwardIsCurrent
  PtrForEveryA
  NamedServesFiles
PROPERTIES
  FilesFollowLdap
  MirrorsLdap
