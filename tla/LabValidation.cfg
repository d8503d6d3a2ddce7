CONSTANTS
  s1 = s1
  Servers = {s1}
  Configs <- MCConfigs
  Options <- MCOptions
  Claims <- MCClaims
  Sources = {"http_ipxe", "api_event"}
  BmcTypes = {"redfish"}
  Window = 0
  MaxTime = 1
  MaxProbes = 1
  MaxRuns = 2
  MaxRequests = 4
  MaxHandlers = 1
SPECIFICATION LabSpec
INVARIANTS
  LabTypeOK
  ReadyMeansRecent
  StrictOkIsProven
CHECK_DEADLOCK FALSE
