\* Transfers of a version that is committed, pruned and committed again.
CONSTANTS
  a = a
  b = b
  x = x
  Empty = Empty
  Dir = Dir
  Absent = Absent
  NoLease = NoLease
  Space = Space
  Torn = Torn
  Procs = {a}
  CallsOf <- CommitOnly
  MaxCalls <- Once
  MaxTime = 2
  MaxNode = 3
  SubBase = 1
  Data = {x}
  Tree0 <- SmallTree
  Leases <- OneLease
  HasSnapshotter = TRUE
  Superuser = TRUE
  Restarts = FALSE
  KeepLast = 0
  KeepSince = 1
  MaxPrunePerTick = 0
  MaxTicks = 1
  RetainerRuns = TRUE
  StoreFaults = {"prune"}
  MaxTransfers = 2
SPECIFICATION RFairSpec
INVARIANT ReplicaComplete
PROPERTY TransfersEnd
CHECK_DEADLOCK FALSE
