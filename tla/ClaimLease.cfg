\* "No lease => no access" (governance.go:31).
CONSTANTS
  a = a
  b = b
  x = x
  Empty = Empty
  Dir = Dir
  Absent = Absent
  NoLease = NoLease
  Space = Space
  Procs = {a}
  CallsOf <- MkdirCalls
  MaxCalls <- Twice
  MaxTime = 2
  MaxNode = 2
  SubBase = 1
  Data = {x}
  Tree0 <- OneFile
  Leases <- SeamLeases
  HasSnapshotter = TRUE
  Superuser = FALSE
  Restarts = FALSE
  KeepLast = 0
  KeepSince = 0
  MaxPrunePerTick = 0
  MaxTicks = 1
  RetainerRuns = FALSE
  StoreFaults = {}
SPECIFICATION Spec
INVARIANTS NoLeaseNoAccess
CHECK_DEADLOCK FALSE
