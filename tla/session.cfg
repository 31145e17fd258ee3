CONSTANTS
  Node = {H, D}
  Initiator = {D}
  None = None
  Orderly = TRUE
  MaxEph = 4
  MaxLoss = 1
  Sender = {g1, g2}
  Room = 1
  MaxSaid = 2
SPECIFICATION SpecSession
INVARIANTS SessionTypeOK NonceUsedOnce LinkHearsItsOwn
CHECK_DEADLOCK FALSE
PROPERTIES ReaderKeepsReading
