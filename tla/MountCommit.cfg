\* Two callers commit, one changes the tree; retention, faults, restarts.
CONSTANTS
  a = a
  b = b
  x = x
  Empty = Empty
  Dir = Dir
  Absent = Absent
  NoLease = NoLease
  Space = Space
  Procs = {a, b}
  CallsOf <- TwoCommitters
  MaxCalls <- OnceAndTwice
  MaxTime = 1
  MaxNode = 2
  SubBase = 1
  Data = {x}
  Tree0 <- OneFile
  Leases <- OneLease
  HasSnapshotter = TRUE
  Superuser = TRUE
  Restarts = TRUE
  KeepLast = 1
  KeepSince = 0
  MaxPrunePerTick = 1
  MaxTicks = 2
  RetainerRuns = TRUE
  StoreFaults = {"copy", "list", "prune", "clock"}
SPECIFICATION Spec
PROPERTIES VersionsImmutable KeepsLast
CHECK_DEADLOCK FALSE
