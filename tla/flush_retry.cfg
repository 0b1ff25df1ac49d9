SPECIFICATION FairSpec
CONSTANTS
  Threads = {"a", "b", "c"}
  Nobody = "nobody"
  NumTiles = 2
  Wants <- Same
  Operations <- RetryOps
  MaxLength = 4
  Split = TRUE
  Failures = {}
INVARIANTS ExecutableIsExecuted OpOutlivesFlushes
PROPERTY FlushReturns
