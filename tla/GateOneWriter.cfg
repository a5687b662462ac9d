\* The daemon alone installs and applies; nothing fails.
CONSTANTS
  daemon = daemon
  cli = cli
  k1 = k1
  k2 = k2
  n1 = n1
  n2 = n2
  p1 = p1
  p2 = p2
  pBad = pBad
  Keys = {k1, k2}
  Nets = {n1, n2}
  Ports = {p1, p2, pBad}
  ValidPorts = {p1, p2}
  MaxTime = 1
  ExtraBraceOK = TRUE
  Procs = {daemon, cli}
  NetAdmin = {daemon, cli}
  Root = {daemon}
  NoGrant = NoGrant
  Faults = {}
  CallsOf <- OneWriterCalls
SPECIFICATION FairSpec
INVARIANTS AppliedIsCurrent VerifiedIsTrue AuditComplete
PROPERTIES CallsReturn
