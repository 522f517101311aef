SPECIFICATION PipelineSpec
CONSTANTS
  MaxModules = 3
  MaxSlots = 4
  MaxBytes = 3
  GrowSlots = 3
  SlotCounts <- OneOrTwo
  ByteLengths <- OneOrTwo
  MaxClears = 1
  Compilers = 1
  MaxPending = 2
  MaxTicket = 3
INVARIANT StoreSound
INVARIANT OwnersAgree
INVARIANT OnlyCurrentMachine
PROPERTY RunningCodeStable
PROPERTY CompilesEnd
CHECK_DEADLOCK FALSE
