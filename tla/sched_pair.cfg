SPECIFICATION Spec
CONSTANTS
  Callers = {c1, c2}
  Contexts = {w1, w2, w3}
  NoThread = NoThread
  NumTiles = 1
  Heights = {4}
  NumCPUs = 2
  SplitThreshold = 1
  NumFuncs = 1
  XilOps = {o1}
  PreFuncs = {}
  Failures = {"split", "reset"}
SYMMETRY PoolSymmetry
INVARIANTS OperationOutlivesWorkers ReadyListExact
