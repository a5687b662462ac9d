\* Timer and operator at once, processes killed anywhere.
SPECIFICATION FairSpec
CONSTANTS
  Procs = {"op1", "timer"}
  RequestsOf <- Crowd
  Planes <- OnePlane
  Events = {"incident.freeze"}
  Names = {"demo", "freeze", "ts0", "ts1", "ds"}
  Outs = {"delta"}
  HasInitStore = TRUE
  MayKill = TRUE
  None = None
  MaxTime = 1
  MaxRuns <- CrowdRuns
CHECK_DEADLOCK FALSE
INVARIANT TypeOK
INVARIANT DeltaSound
INVARIANT LatestIsNewest
INVARIANT TickComparesOwn
PROPERTY Ends
