SPECIFICATION Spec
CONSTANTS
  NULL = NULL
  Thread = {t1}
  AS = {a1, a2}
  NPage = 2
  Writeable = {1}
  NFrame = 2
  NSlot = 1
  NTLB = 2
  MaxPrograms = 2
  MaxKernel = 1
  MaxAllocs = 0
  Recycle = TRUE
CHECK_DEADLOCK FALSE
INVARIANTS
  SeesOwnData
