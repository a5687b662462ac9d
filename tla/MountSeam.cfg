\* Governed methods under every kind of lease, two callers at once.
CONSTANTS
  a = a
  b = b
  x = x
  Empty = Empty
  Dir = Dir
  Absent = Absent
  NoLease = NoLease
  Space = Space
  Procs = {a, b}
  CallsOf <- SeamCalls
  MaxCalls <- OnceAndTwice
  MaxTime = 2
  MaxNode = 2
  SubBase = 1
  Data = {x}
  Tree0 <- OneFile
  Leases <- SeamLeases
  HasSnapshotter = TRUE
  Superuser = FALSE
  Restarts = FALSE
  KeepLast = 0
  KeepSince = 0
  MaxPrunePerTick = 0
  MaxTicks = 1
  RetainerRuns = FALSE
  StoreFaults = {"clock"}
SPECIFICATION Spec
INVARIANTS ChainVerifies TamperEvident OneReceiptPerCall WritesReceipted FailClosed
PROPERTY ExpiryCloses
CHECK_DEADLOCK FALSE
