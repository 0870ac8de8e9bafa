CONSTANTS
  Thread = {j1, j2}
  Wrap = 3
  DayLength = 3
  MaxTime = 3
  MaxChanges = 4
  MaxFaults = 1
SYMMETRY Symmetry
SPECIFICATION Spec
INVARIANTS
  LaterDayGreater
  SerialsFollowChanges
