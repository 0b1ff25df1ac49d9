SPECIFICATION Spec
CONSTANTS
  Objects = {"A", "B", "C"}
  NoObject = "null"
  MaxOps = 3
  MaxLength = 2
  MaxDependents = 2
  Calls <- CoveringCalls
  Requests = {"sync"}
  Temps = {}
  Borrowed = {}
  MayFail = FALSE
INVARIANT InstancesKept
CHECK_DEADLOCK FALSE
