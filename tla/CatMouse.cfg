SPECIFICATION Spec
CONSTANTS
  NULL = NULL
  Cat = {c1, c2}
  Mouse = {m1}
  NumBowls = 2
  NumLoops = 2
CHECK_DEADLOCK FALSE
INVARIANTS
  NeverRefused
