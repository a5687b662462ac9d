\* "freezes the space's current state" (inceptionfs.go:52) against a writer.
CONSTANTS
  a = a
  b = b
  x = x
  Empty = Empty
  Dir = Dir
  Absent = Absent
  NoLease = NoLease
  Space = Space
  Procs = {a, b}
  CallsOf <- CommitCalls
  MaxCalls <- Twice
  MaxTime = 2
  MaxNode = 2
  SubBase = 1
  Data = {x}
  Tree0 <- OneFile
  Leases <- OneLease
  HasSnapshotter = TRUE
  Superuser = FALSE
  Restarts = FALSE
  KeepLast = 0
  KeepSince = 0
  MaxPrunePerTick = 0
  MaxTicks = 1
  RetainerRuns = FALSE
  StoreFaults = {}
SPECIFICATION Spec
INVARIANTS FrozenIsContent
CHECK_DEADLOCK FALSE
