SPECIFICATION Spec
CONSTANTS
  NTHREADS = 2
  NLOCKLOOPS = 2
  NCVLOOPS = 2
  MaxRuns = 2
CHECK_DEADLOCK FALSE
INVARIANTS
  LocksExclude
