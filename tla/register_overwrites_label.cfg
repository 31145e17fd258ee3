CONSTANTS
  Token = {t1, t2}
  Pub = {p1, p2}
  Device = {d1}
  Label = {l1, l2}
  None = None
  Worker = {w1}
  MaxBindings = 1
  MaxPairings = 0
SPECIFICATION Spec
SYMMETRY Symmetric
PROPERTIES EmptyLabelLeavesName
