SPECIFICATION Spec
CONSTANTS
  Threads = {"t", "u"}
  Nobody = "nobody"
  Objects = {"A", "B", "C"}
  NoObject = "null"
  MaxOps = 4
  MaxLocks = 0
  MaxDestroyed = 4
  Calls <- Joining
  Locks <- Nothing
INVARIANT MutualExclusion
CHECK_DEADLOCK FALSE
