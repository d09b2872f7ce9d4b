SPECIFICATION Spec
CONSTANTS
  Tasks = {t1, t2, t3}
  t1 = t1
  t2 = t2
  t3 = t3
  Slots = {w1, w2}
  w1 = w1
  w2 = w2
  NoTask = NoTask
  NoSlot = NoSlot
  MultiThreaded = TRUE
  SpuriousCAS = TRUE
SYMMETRY Symmetry
INVARIANT TypeOK
INVARIANT MutualExclusion
INVARIANT FlagMatchesOwner
PROPERTY GrantIsKept
CHECK_DEADLOCK FALSE
