SPECIFICATION Spec
CONSTANTS
  c1 = c1
  c2 = c2
  Calls <- TwoCalls
  WsProxy = TRUE
  MaxGeneration = 6
  MaxRequest = 2
INVARIANT CallsTracked
PROPERTY CallsResolve
CHECK_DEADLOCK FALSE
