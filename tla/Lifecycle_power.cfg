CONSTANTS
  Threads = {t1, t2}
  Blocks = {b1, b2}
  Roots = {r1}
  Null = Null
  NullOff = NullOff
  Unlocked = Unlocked
  Dead = Dead
  Gone = Gone
  MaxCrashes = 3
  PowerFails = TRUE
  CtorCrashes = FALSE
SPECIFICATION Spec
INVARIANT
  CrashIsDirty
