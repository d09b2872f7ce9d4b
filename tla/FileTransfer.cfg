SPECIFICATION FairSpec
CONSTANTS
  FileSizes = {0, 4, 7, 9}
  Queries <- MCQueries
  BufSize = 4
  SizeMod = 128
  LineSize = 1
  TextSize = 2
  Asserts = {TRUE, FALSE}
  MaxShrinks = 1
  None = None
INVARIANT SentIsWanted
INVARIANT FinishedIsAnnounced
INVARIANT OverrunNeedsFullBuffer
PROPERTY TransferEnds
CHECK_DEADLOCK FALSE
