SPECIFICATION Spec
CONSTANTS
  Tasks = {t1, t2, t3}
  t1 = t1
  t2 = t2
  t3 = t3
  Slots = {w1, w2}
  w1 = w1
  w2 = w2
  NoTask = NoTask
  NoSlot = NoSlot
  Max = 2
  Initial = 1
  MaxHeld = 2
  MaxBatch = 2
  MaxAdded = 0
  MultiThreaded = TRUE
  SpuriousCAS = TRUE
SYMMETRY Symmetry
INVARIANT PermitsConserved
CHECK_DEADLOCK FALSE
