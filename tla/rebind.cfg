CONSTANTS
  Token = {}
  Label = {}
  Pub = {h1}
  Device = {d1}
  None = None
  Sock = {s1}
  MaxBindings = 2
  MaxRows = 2
  MaxNow = 2
SPECIFICATION Spec
INVARIANTS BoundPairIsForwarded
