\* Clients of one daemon, under crashes, interrupts and power failures.
CONSTANTS
  daemon = daemon
  cli = cli
  k1 = k1
  k2 = k2
  n1 = n1
  n2 = n2
  p1 = p1
  p2 = p2
  pBad = pBad
  Keys = {k1, k2}
  Nets = {n1, n2}
  Ports = {p1, p2, pBad}
  ValidPorts = {p1, p2}
  MaxTime = 1
  ExtraBraceOK = FALSE
  Procs = {daemon}
  NetAdmin = {daemon}
  Root = {daemon}
  NoGrant = NoGrant
  Faults = {"crash"}
  CallsOf <- ServedCalls
  c1 = c1
  c2 = c2
  Clients = {c1, c2}
  Daemon = daemon
  Sends <- ClientSends
  MaxAccepted = 2
SPECIFICATION CFairSpec
INVARIANTS GrantsStayKeyed ToldIsDurable
PROPERTIES ClientsReturn
