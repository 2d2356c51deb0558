SPECIFICATION Spec
CONSTANTS
  t1 = t1
  t2 = t2
  Threads = {t1, t2}
  d1 = d1
  d2 = d2
  d3 = d3
  Descs = {d1, d2, d3}
  NULL = NULL
  MaxChain = 2
  CntMod = 8
  PushBound = 4
SYMMETRY Symmetry
INVARIANTS
  TypeOK
  LinksSpellStack
  OneOwner
  PushedNotHead
PROPERTIES
  ImplementsStack
