SPECIFICATION ZerosSpec
CONSTANTS
  WORD = 8
  USERTOP = 4
  PAGE = 2
  c1 = c1
  c2 = c2
  c3 = c3
  t1 = t1
  t2 = t2
  l1 = l1
  l2 = l2
  s1 = s1
  s2 = s2
  w1 = w1
  z1 = z1
  z2 = z2
  k1 = k1
  Zero = Zero
  JUNK = JUNK
  NULL = NULL
  Thread = {t1, t2}
  Boot = t1
  MaxDepth = 5
  BootThread = t1
  DELAYBUFSIZE = 1
  MaxCalls = 2
  MaxPolled = 1
  MaxTyped = 2
  MaxChars = 1
  MaxNested = 2
CHECK_DEADLOCK FALSE
INVARIANTS
  ZeroFilled
