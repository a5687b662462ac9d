\* One caller uses every method, in turn; retention runs again and again.
CONSTANTS
  a = a
  b = b
  x = x
  Empty = Empty
  Dir = Dir
  Absent = Absent
  NoLease = NoLease
  Space = Space
  Procs = {a}
  CallsOf <- AloneCalls
  MaxCalls <- Thrice
  MaxTime = 2
  MaxNode = 2
  SubBase = 1
  Data = {x}
  Tree0 <- OneFile
  Leases <- OneLease
  HasSnapshotter = TRUE
  Superuser = FALSE
  Restarts = FALSE
  KeepLast = 0
  KeepSince = 1
  MaxPrunePerTick = 1
  MaxTicks = 2
  RetainerRuns = TRUE
  StoreFaults = {}
SPECIFICATION FairSpec
INVARIANTS TypeOK BoundedTick
PROPERTIES Converges
CHECK_DEADLOCK FALSE
