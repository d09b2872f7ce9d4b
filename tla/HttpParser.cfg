SPECIFICATION Spec
CONSTANTS
  Messages <- MCMessages
  LineLimit = 4
  MaxMessages = 1
INVARIANT BodyIsPrefix
INVARIANT FinishedIsWhole
INVARIANT VerdictIsReal
PROPERTY AppendReturns
CHECK_DEADLOCK FALSE
