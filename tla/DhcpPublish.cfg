CONSTANTS
  Host = {h1, h2, h3}
  Malformed = {h3}
  Initial = {h1}
  MaxEdits = 3
  MaxFaults = 2
SPECIFICATION FairSpec
INVARIANTS
  ServesFile
PROPERTIES
  MirrorsLdap
  DhcpFollowsLdap
  UpAgain
