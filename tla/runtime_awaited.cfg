SPECIFICATION AwaitedSpec
CONSTANTS
  c1 = c1
  c2 = c2
  Calls <- OneCall
  WsProxy = TRUE
  MaxGeneration = 9
  MaxRequest = 4
INVARIANT OneDiskOp
INVARIANT ResultsDelivered
INVARIANT DestroyedQuiet
PROPERTY RequestsEnd
CHECK_DEADLOCK FALSE
