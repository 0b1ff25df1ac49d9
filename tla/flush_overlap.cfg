SPECIFICATION Spec
CONSTANTS
  Threads = {"a", "b"}
  Nobody = "nobody"
  NumTiles = 2
  Wants <- Nested
  Operations <- PlainOps
  MaxLength = 4
  Split = TRUE
  Failures = {}
PROPERTIES WaitsForExecuting
