SPECIFICATION FairSpec
CONSTANTS
  Tasks = {t1, t2, t3}
  t1 = t1
  t2 = t2
  t3 = t3
  Slots = {w1, w2}
  w1 = w1
  w2 = w2
  NoTask = NoTask
  NoSlot = NoSlot
  MultiThreaded = FALSE
  SpuriousCAS = FALSE
INVARIANT NoWaiterOnFreeMutex
PROPERTY ImplementsMutex
PROPERTY LockServed
PROPERTY TimedWaitReturns
