CONSTANTS
  config = config
  w1 = w1
  s = s
  Host = {config, w1}
  NoHost = NoHost
  Config = config
  Servers = {config}
  KeyedServers = {config}
  Roaming = {}
  Matches <- SuffixName
  Initial = {config, w1}
  MaxEdits = 1
  MaxFaults = 0
SPECIFICATION Spec
INVARIANTS
  ConfigProtected
