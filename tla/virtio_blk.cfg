SPECIFICATION Spec
CONSTANTS
  Num = 2
  Width = 4
  MaxId = 6
INVARIANT AnsweredInOrder
INVARIANT PendingCurrent
PROPERTY RequestsReturn
CHECK_DEADLOCK FALSE
