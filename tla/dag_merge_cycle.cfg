SPECIFICATION Spec
CONSTANTS
  Threads = {"t", "u"}
  Nobody = "nobody"
  Objects = {"A", "B", "C"}
  NoObject = "null"
  MaxOps = 6
  MaxLocks = 0
  MaxDestroyed = 0
  Calls <- Pairs
  Locks <- Nothing
INVARIANT NoLockCycle
CHECK_DEADLOCK FALSE
