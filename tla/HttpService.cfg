SPECIFICATION Spec
CONSTANTS
  Scripts <- MCScripts
  BlankRoutes = {"none", "handler"}
  DefaultSize = 1
  DefaultHandler = TRUE
  KeepTime = TRUE
  ServerErrorReturns = {TRUE, FALSE}
  ServiceErrorReturns = {TRUE, FALSE}
  Timeouts = TRUE
  MaxRequests = 2
  MaxRounds = 2
  MaxLength = 2
  MaxWrite = 1
  MaxOps = 2
INVARIANT BodyFits
INVARIANT AnswerComplete
INVARIANT AnswersInOrder
PROPERTY RequestAnswered
PROPERTY ConnectionCloses
CHECK_DEADLOCK FALSE
