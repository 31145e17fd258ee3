CONSTANTS
  Node = {H, D}
  Initiator = {D}
  None = None
  Orderly = TRUE
  MaxEph = 8
  MaxLoss = 4
SPECIFICATION Spec
INVARIANTS SettledSessionsMatch AnswersGoUnanswered SomeoneCanPunch
CHECK_DEADLOCK FALSE
PROPERTIES HandshakeCompletes
