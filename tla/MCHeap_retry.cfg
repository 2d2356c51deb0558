SPECIFICATION FairSpec
CONSTANTS
  t1 = t1
  t2 = t2
  Threads = {t1, t2}
  SBSIZE = 4
  BlockSize <- OneClass
  ExpandSbs = 2
  RegionSbs = 4
  LargeSbs = {}
  MaxLive = 1
PROPERTIES
  SbAllocRetriesFreeList
CHECK_DEADLOCK FALSE
