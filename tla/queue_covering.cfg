SPECIFICATION Spec
CONSTANTS
  Objects = {"A", "B"}
  NoObject = "null"
  MaxOps = 3
  MaxLength = 2
  MaxDependents = 1
  Calls <- CoveringCalls
  Requests = {"sync", "toss", "destroy"}
  Temps = {}
  Borrowed = {"B"}
  MayFail = FALSE
INVARIANTS CallersLive LinksAgree InstancesKept
CHECK_DEADLOCK FALSE
