SPECIFICATION FairSpec
CONSTANTS
  Threads = {"t", "u"}
  Nobody = "nobody"
  Objects = {"A", "B", "C"}
  NoObject = "null"
  MaxOps = 4
  MaxLocks = 1
  MaxDestroyed = 4
  Calls <- Meeting
  Locks <- OwnEnd
INVARIANTS WalksAlone MutualExclusion NoLockLeaked RefCountsExact
PROPERTY CallsEnd
CHECK_DEADLOCK FALSE
