CONSTANTS
  Ports = {1, 2}
  Blocks = 1
  Bases = {0, 65534}
  Limits = {1, 3}
  MaxVersions = 2
  m1 = m1
  Macs = {m1}
  Handlers = {1, 2}
  Modes = {"builtin", "proxy", "external"}
  TokenLife = 1
  MaxTime = 2
  MaxRequests = 2
  MaxDeps = 1
SPECIFICATION MCSpec
INVARIANTS
  NetworkBootTypeOK
  DeliveredExact
  FinishedSessionDelivered
  HandedTokenWorks
  SingleTokenRow
  DiscoveredOnce
PROPERTIES
  SessionEnds
CHECK_DEADLOCK FALSE
