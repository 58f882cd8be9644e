SPECIFICATION UserTokensSpec
INVARIANT SpentOnlyIfLost
PROPERTIES KeptUnlessCrossed
SYMMETRY SymmetricJobs
CHECK_DEADLOCK FALSE
CONSTANTS
  Services <- BothServices
  Jobs = {c1, c2}
  Faults = {"withdraw", "service_fails", "db_fails", "crash"}
  MaxPairs = 3
