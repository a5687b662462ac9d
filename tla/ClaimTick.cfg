\* The runbook's tick, as the repository stands.
SPECIFICATION Spec
CONSTANTS
  Procs = {"timer"}
  RequestsOf <- TimerOnly
  Planes <- OnePlane
  Events = {"incident.freeze"}
  Names = {"demo", "freeze", "ts0", "ts1", "ds"}
  Outs = {"delta"}
  HasInitStore = FALSE
  MayKill = FALSE
  None = None
  MaxTime = 1
  MaxRuns <- TimerRuns
CHECK_DEADLOCK FALSE
INVARIANT TicksSucceed
