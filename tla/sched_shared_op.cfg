SPECIFICATION Spec
CONSTANTS
  Callers = {c1, c2}
  Contexts = {w1}
  NoThread = NoThread
  NumTiles = 1
  Heights = {2}
  NumCPUs = 1
  SplitThreshold = 2
  NumFuncs = 1
  XilOps = {o1}
  PreFuncs = {1}
  Failures = {}
PROPERTY PreprocessCalledOnce
