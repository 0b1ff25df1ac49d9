SPECIFICATION Spec
CONSTANTS
  Threads = {"a", "b"}
  Nobody = "nobody"
  NumTiles = 2
  Wants <- Apart
  Operations <- WholeOps
  MaxLength = 4
  Split = TRUE
  Failures = {"list"}
INVARIANT ReferencesExact
