SPECIFICATION FairSpec
CONSTANTS
  Thread = {boot, t1, t2}
  Boot = boot
  Sem = {s1, s2}
  InitCounts = {0, 1}
  NULL = NULL
  LBOLT = LBOLT
  HZ = 2
  MaxCount = 2
  MaxSecs = 2
INVARIANTS
  OnePlace
  NoLostWakeup
PROPERTIES
  NoOvertaking
  ReadyRuns
  ClocksleepReturns
  ImplementsFairSemaphores
