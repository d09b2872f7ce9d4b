SPECIFICATION FairSpec
CONSTANTS
  Tasks = {t1, t2}
  t1 = t1
  t2 = t2
  Slots = {w1, w2}
  w1 = w1
  w2 = w2
  NoTask = NoTask
  NoSlot = NoSlot
  Max = 2
  Initial = 1
  MaxHeld = 1
  MaxBatch = 1
  MaxAdded = 1
  MultiThreaded = FALSE
  SpuriousCAS = FALSE
INVARIANT NoWaiterWithFreePermit
PROPERTY AcquireServed
CHECK_DEADLOCK FALSE
