SPECIFICATION FairSpec
CONSTANTS
  Callers = {c1}
  Contexts = {w1, w2}
  NoThread = NoThread
  NumTiles = 2
  Heights = {2, 6}
  NumCPUs = 3
  SplitThreshold = 2
  NumFuncs = 2
  XilOps = {o1}
  PreFuncs = {1}
  Failures = {"split"}
INVARIANTS TypeOK RowsComputedOnce TileCovered
PROPERTIES PreprocessCalledOnce ExecuteReturns CloseEnds
