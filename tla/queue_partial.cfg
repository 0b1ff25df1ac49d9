SPECIFICATION FairSpec
CONSTANTS
  Objects = {"A", "B"}
  NoObject = "null"
  MaxOps = 4
  MaxLength = 2
  MaxDependents = 1
  Calls <- PartialCalls
  Requests = {"sync"}
  Temps = {"B"}
  Borrowed = {}
  MayFail = TRUE
INVARIANTS RingsOK InsertedIsQueued
PROPERTIES ShowsImmediateMode CallsReturn
CHECK_DEADLOCK FALSE
