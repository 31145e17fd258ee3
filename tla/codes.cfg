CONSTANTS
  Token = {t1}
  Pub = {p1, p2}
  Device = {d1, d2}
  Label = {l1}
  None = None
  Worker = {w1, w2}
  MaxBindings = 1
  MaxPairings = 2
SPECIFICATION Spec
SYMMETRY Symmetric
INVARIANTS TypeOK BindingLimit OneBindingPerCode OneRowPerToken
PROPERTIES KeepsPromise TokensStayValid LabelNeverCleared
