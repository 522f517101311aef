SPECIFICATION Spec
CONSTANTS
  MaxTyped = 2
  MaxTx = 2
  Priorities <- MCPriorities
  Thresholds <- MCThresholds
PROPERTY InterruptsServed
