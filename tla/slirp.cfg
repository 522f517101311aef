SPECIFICATION Spec
CONSTANTS
  c1 = c1
  c2 = c2
  Callers = {c1, c2}
  Capacity = 1
  Loads <- MCLoads
INVARIANT FramesInOrder
INVARIANT CallersSafe
PROPERTY FramesDelivered
PROPERTY ThreadsReturn
CHECK_DEADLOCK FALSE
