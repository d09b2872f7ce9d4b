SPECIFICATION FairSpec
CONSTANTS
  MaxExecs = 2
  Clients = {c1, c2}
  c1 = c1
  c2 = c2
  NoClient = NoClient
  Loops = {l1, l2}
  l1 = l1
  l2 = l2
INVARIANT StartedIsListening
PROPERTY StopRefuses
PROPERTY BacklogDrains
PROPERTY StopCloses
PROPERTY ExitEndsExec
CHECK_DEADLOCK FALSE
