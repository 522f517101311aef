SPECIFICATION Spec
CONSTANTS
  Pcs <- MCPcs
  PageOf <- MCPageOf
  Dslot <- MCDslot
  Spaces <- MCSpaces
  Boot = "a"
  Mapping <- MCMapping
  FpPcs = {2}
  Barren = {3}
  Slots = {1, 2, 3}
  MaxPending = 2
  Scopes <- MCScopes
  MaxTickets = 3
INVARIANT OwnershipSound
INVARIANT CodeCurrent
INVARIANT DispatchSafe
INVARIANT ClaimsSettle
