SPECIFICATION MCSpec
CONSTANTS
  NULL = NULL
  NoFS = NoFS
  t1 = t1
  t2 = t2
  f1 = f1
  f2 = f2
  n1 = n1
  n2 = n2
  lhd0fs = lhd0fs
  emu0fs = emu0fs
  Thread = {t1, t2}
  Proc = {t0}
  FS = {lhd0fs, emu0fs}
  Attach <- const_Attach
  OnDisk <- const_OnDisk
  VolName <- const_VolName
  Name = {"f", "g"}
  Path <- const_Path
  MaxIno = 1
  MaxOpen = 2
  LinkRoots = FALSE
  BITS_PER_WORD = 3
  MaxBits = 7
  Offsets <- const_Offsets
  MaxLen = 4
  NSect = 2
  Width = 4
  MaxFaults = 1
  EMU_MAXIO = 1
  RETRIES = 1
  FileSize = 1
  MaxHandle = 2
  MaxResid = 2
  MaxErrors = 2
  OPEN_MAX = 4
  MaxFd = 7
SYMMETRY Symmetry
CHECK_DEADLOCK FALSE
INVARIANTS
  BitmapBitsAreExact
  DiskOwnData
  HostHandlesAccounted
  FilesReadsBack
  DirsCleanDiskIsConsistent
  VfsCountsAreExact
  TableNoDangling
  MkAllocationIsSound
  TestNoFalseAlarm
  NodeTransfersAgree
