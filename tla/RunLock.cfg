CONSTANTS
  Proc = {p1, p2, p3}
  NoOne = NoOne
  MaxFaults = 4
SPECIFICATION FairSpec
INVARIANTS
  MutexUnlessSignalled
  StaleOnlyIfAbandoned
PROPERTIES
  LockComesFree
