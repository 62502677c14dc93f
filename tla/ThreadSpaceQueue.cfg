SPECIFICATION SpaceSpec
CONSTANTS
  Thread = {boot, t1, t2, t3}
  Boot = boot
  Sem = {s1}
  InitCounts = {0}
  NULL = NULL
  LBOLT = LBOLT
  HZ = 1
  MaxCount = 1
  MaxSecs = 1
  QueueSlots = 2
  KeepMax = 2
CHECK_DEADLOCK FALSE
INVARIANTS
  MakeRunnableNeverFails
