SPECIFICATION Spec
CONSTANTS
  Threads = {"a", "b"}
  Nobody = "nobody"
  NumTiles = 2
  Wants <- Same2
  Operations <- PartOps
  MaxLength = 4
  Split = TRUE
  Failures = {}
INVARIANTS SuccessMeansComputed
