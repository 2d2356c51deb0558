SPECIFICATION Spec
CONSTANTS
  t1 = t1
  t2 = t2
  Threads = {t1, t2}
  SBSIZE = 4
  BlockSize <- OneClass
  ExpandSbs = 2
  RegionSbs = 4
  LargeSbs = {1, 2}
  MaxLive = 1
SYMMETRY Symmetry
INVARIANTS
  TypeOK
  SbsAccounted
PROPERTIES
  ImplementsAllocator
CHECK_DEADLOCK FALSE
