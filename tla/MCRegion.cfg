SPECIFICATION Spec
CONSTANTS
  t1 = t1
  t2 = t2
  t3 = t3
  Threads = {t1, t2, t3}
  PAGESIZE = 4
  SBSIZE = 8
  Size = 16
  Requests <- SbRequests
  FirstRequest <- FirstSb
  Bases = {8, 12, 16}
  MaxCrashes = 2
SYMMETRY Symmetry
INVARIANTS
  TypeOK
  HandedOutOnce
  HandedOutIsDurable
  CreatedCanBeRemapped
  LookupFindsOwnDesc
PROPERTIES
  CurrOnlyGrows
CHECK_DEADLOCK FALSE
