CONSTANTS
  p1 = p1
  p2 = p2
  p3 = p3
  u1 = u1
  u2 = u2
  n1 = n1
  n2 = n2
  Proc = {p1, p2, p3}
  Ou = {u1, u2}
  Name = {n1, n2}
  Addr = {1, 2, 3}
  NoAddr = NoAddr
  AnyAddr = AnyAddr
  Network <- Networks
  Server = {1}
  Node = {"systems", "workstations", "u2", "u2 systems", "u2 workstations"}
  Chain <- Chains
  Initial = {}
  Asked <- Requests
  BadMac = {}
  MaxRemovals = 1
  MaxFaults = 2
SPECIFICATION FairSpec
INVARIANTS
  InOwnNetwork
  DuplicatesAreDoubtful
  UndisturbedReportsTruth
PROPERTIES
  RetrySucceeds
