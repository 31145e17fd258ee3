CONSTANTS
  Node = {H, D}
  Initiator = {D}
  None = None
  Orderly = FALSE
  MaxEph = 5
  MaxLoss = 0
SPECIFICATION Spec
INVARIANTS RespondOnlyToInitiation
CHECK_DEADLOCK FALSE
