SPECIFICATION Spec
CONSTANTS
  Callers = {c1}
  Contexts = {w1, w2}
  NoThread = NoThread
  NumTiles = 1
  Heights = {4}
  NumCPUs = 2
  SplitThreshold = 2
  NumFuncs = 1
  XilOps = {o1}
  PreFuncs = {}
  Failures = {"split"}
INVARIANT TileLockHeldOnReturn
