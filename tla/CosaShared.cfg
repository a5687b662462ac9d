\* Two processes, one provenance file, while everything fails and changes.
SPECIFICATION Spec
CONSTANTS
  Builders = {"b1", "b2"}
  RequestsOf <- Shared
  Files = {"ws.yaml", "flavor.yaml"}
  Hosts <- AnyHost
  Workdirs = {"w1", "w2"}
  Outputs = {"prov"}
  MayEdit = TRUE
  MayFail = TRUE
  MaxRuns = 2
CHECK_DEADLOCK FALSE
INVARIANT PassMeansBuilt
 
