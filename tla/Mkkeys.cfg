CONSTANTS
  config = config
  s = s
  w1 = w1
  Host = {config, s, w1}
  NoHost = NoHost
  Config = config
  Servers = {config, s}
  KeyedServers = {config, s}
  Roaming = {w1}
  Matches <- DistinctNames
  Initial = {config, s}
  MaxEdits = 2
  MaxFaults = 1
SPECIFICATION FairSpec
INVARIANTS
  ConfigProtected
  KeytabBacked
  CertificatesAccounted
  PrincipalsAccounted
PROPERTIES
  ClientsFollowLdap
  LostKeytabBlocks
