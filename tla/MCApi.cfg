CONSTANTS
  Table <- OneAndThree
  SBSIZE = 4
  Threads = {t1, t2}
  Sbs = 2
  Requests = {0, 1, 2, 3, 4, 8}
  Callocs <- Arrays
  Values = {1}
  Junk = Junk
  Unset = Unset
  BLOCK_SIZES = 8
  MaxBlocks = 3
SYMMETRY Symmetry
SPECIFICATION Spec
CONSTRAINT Promised
INVARIANTS
  TypeOK
  LookupFits
  DataKept
  SizeIsTrue
  NothingLost
