SPECIFICATION MCSpec
CONSTANTS
  t0 = t0
  t1 = t1
  t2 = t2
  boot = boot
  f1 = f1
  f2 = f2
  f3 = f3
  a1 = a1
  a2 = a2
  s1 = s1
  LBOLT = LBOLT
  Garbage = Garbage
  ENOMEM = ENOMEM
  JUNK = JUNK
  DATA = DATA
  NULL = NULL
  Thread <- const_OneThread
  AS <- const_AS
  NPage = 3
  Writeable <- const_Data
  NFrame = 3
  NSlot = 2
  NTLB = 2
  MaxPrograms = 1
  MaxKernel = 1
  MaxAllocs = 1
  Recycle = FALSE
  PAGE_SIZE = 4
  USERTOP = 40
  STACKPAGES = 1
  Regions <- const_Regions
  Vpn = {v1, v2, v3, v4}
  NUM_TLB = 3
  Elem = {e1, e2}
  CreateSizes = {1, 2, 3}
  MaxSize = 6
SYMMETRY Symmetry
CHECK_DEADLOCK FALSE
INVARIANTS
  VMSeesOwnData
  VMAccounted
  SpaceAskedIsReachable
  ListsRoomForSleepers
  HeapFreeListsAreExact
  DumbPagesKeepTheirData
PROPERTIES
  TLBImplements
  RingImplementsFIFO
