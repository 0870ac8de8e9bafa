CONSTANTS
  Proc = {night, other}
  Nightly = night
  Cert = {c1, c2}
  NoCert = NoCert
  MaxKills = 1
  MaxFailures = 2
SPECIFICATION CrlFairSpec
INVARIANTS
  CrlTypeOK
PROPERTIES
  SuccessMeansPublished
  RevokedGetsPublished
