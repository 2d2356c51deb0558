SPECIFICATION Spec
CONSTANTS
  SBSIZE = 2
  BlockSize <- TwoClasses
  EndSb = 4
  LargeSbs = {2}
  Interior = {0, 2}
  MaxRoots = 1
  MaxPtrs = 0
  MaxCrashes = 1
  PowerFails = FALSE
INVARIANTS
  ReachableKept
CHECK_DEADLOCK FALSE
