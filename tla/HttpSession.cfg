SPECIFICATION FairSpec
CONSTANTS
  Sessions = {s1, s2}
  s1 = s1
  s2 = s2
  NoSession = NoSession
  CtorLife = 1
  SetLife = 1
  MaxLife = 2
  Managed = {s1}
INVARIANT SessionKept
INVARIANT EraseMeetsTheSet
PROPERTY IdleIsFreed
