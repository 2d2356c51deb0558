SPECIFICATION FairSpec
CONSTANTS
  SBSIZE = 2
  BlockSize <- TwoClasses
  EndSb = 4
  LargeSbs = {2}
  Interior = {0}
  MaxRoots = 1
  MaxPtrs = 2
  MaxCrashes = 2
  PowerFails = TRUE
INVARIANTS
  TypeOK
  DataPreserved
  ReachableKept
  NothingLeaked
  AssertionsHold
PROPERTIES
  
  RecoveryEnds
CHECK_DEADLOCK FALSE
