SPECIFICATION Spec
CONSTANTS
  Threads = {"a", "b"}
  Nobody = "nobody"
  NumTiles = 2
  Wants <- Inner
  Operations <- DoomedOps
  MaxLength = 4
  Split = FALSE
  Failures = {}
INVARIANTS OpOutlivesFlushes
