SPECIFICATION Spec
CONSTANTS
  Threads = {"a", "b", "c"}
  Nobody = "nobody"
  NumTiles = 2
  Wants <- Hub
  Operations <- FailureOps
  MaxLength = 4
  Split = TRUE
  Failures = {"sync", "boxes", "list"}
INVARIANT SleepersHaveReason
