CONSTANTS
  t1 = t1
  p1 = p1
  p2 = p2
  d1 = d1
  d2 = d2
  l1 = l1
  Token = {t1}
  Pub = {p1, p2}
  Device = {d1, d2}
  Label = {l1}
  None = None
  MaxBindings = 2
  Worker = {w1, w2}
  Requests <- SomeRequests
  Files <- SomeFiles
  TraceRetain = 2
  MaxCalls = 3
SPECIFICATION Spec
INVARIANTS TypeOK
PROPERTIES KeepsStorePromise LastConnectedAdvances EveryCallEnds
CHECK_DEADLOCK FALSE
