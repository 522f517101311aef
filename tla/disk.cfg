SPECIFICATION Spec
CONSTANTS
  v0 = v0
  v1 = v1
  Blocks <- MCBlocks
  Values <- MCValues
  LineBlocks = 2
  MaxLines = 1
  MaxOpBlocks = 2
  Image <- MCImage
  LateDelivery = FALSE
  MaxQueued = 1
  MaxFetch = 3
INVARIANT CacheClean
PROPERTY ImplementsDisk
CHECK_DEADLOCK FALSE
