CONSTANTS
  Host = {h1}
  Parts = 2
  DAYS = 7
  Validity = 9
  Patience = 10
  Missed = 1
  Horizon = 60
SPECIFICATION Spec
INVARIANTS
  RenewedSeamlessly
  UnrevokedRunsOut
