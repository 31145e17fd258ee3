CONSTANTS
  Sock = {s1, s2, s3, s4}
  First = s1
  None = None
SPECIFICATION Spec
INVARIANTS CloseClearsConnected
CHECK_DEADLOCK FALSE
