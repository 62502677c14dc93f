SPECIFICATION Spec
CONSTANTS
  NULL = NULL
  Thread = {t1, t2}
  AS = {a1, a2}
  NPage = 2
  Writeable = {1}
  NFrame = 2
  NSlot = 2
  NTLB = 2
  MaxPrograms = 2
  MaxKernel = 1
  MaxAllocs = 0
  Recycle = FALSE
CHECK_DEADLOCK FALSE
INVARIANTS
  FreeFramesAreInTheList
