SPECIFICATION Spec
CONSTANTS
  ADDRESSES = 16
  UNIT = 4
  PATTERN = 2
  OFFSETS = 8
  Cell = 2
  Size = 4
  Bases = {4, 8, 12}
  Null = Null
INVARIANTS
  TypeOK
  PptrReadsBack
  HeadReadsBack
  ExchangeIsExact
  RootReadsBack
