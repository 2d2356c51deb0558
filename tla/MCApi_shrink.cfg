CONSTANTS
  Table <- OneAndThree
  SBSIZE = 4
  Threads = {t1}
  Sbs = 2
  Requests = {1, 3}
  Callocs <- Arrays
  Values = {1}
  Junk = Junk
  Unset = Unset
  BLOCK_SIZES = 16
  MaxBlocks = 3
SPECIFICATION Spec
INVARIANTS
  OthersKept
