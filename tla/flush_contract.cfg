SPECIFICATION Spec
CONSTANTS
  Threads = {"a", "b", "c"}
  Nobody = "nobody"
  NumTiles = 3
  Wants <- Overlap
  Operations <- ContractOps
  MaxLength = 4
  Split = FALSE
  Failures = {}
INVARIANTS NoOrphanTile ReferencesExact SuccessMeansComputed NoSplitRespected
PROPERTY KeepsContract
