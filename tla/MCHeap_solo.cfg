SPECIFICATION FairSpec
CONSTANTS
  t1 = t1
  t2 = t2
  Threads = {t1, t2}
  SBSIZE = 6
  BlockSize <- TwoClasses
  ExpandSbs = 2
  RegionSbs = 2
  LargeSbs = {}
  MaxLive = 3
INVARIANTS
  BlocksAccounted
  AssertionsHold
PROPERTIES
  ImplementsMovement
  SoloCallReturns
CHECK_DEADLOCK FALSE
