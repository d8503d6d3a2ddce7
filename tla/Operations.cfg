CONSTANTS
  Targets = {1, 2, 3}
  Widths = {0, 1, 2}
  MaxFaults = 1
  Sessions = {1, 2}
  Callers = {1, 2}
  MaxCalls = 4
  Hosts = {1, 2}
  Rules = {"r1"}
  Operators = {">="}
  Values = {0, 1}
  Thresholds = {1}
  Evaluators = {1, 2}
  SampleLimit = 2
  MaxSamples = 2
  MaxAlerts = 2
  MaxVisits = 3
  Logins = {1, 2}
  Limit = 2
  Window = 3
  MaxNow = 6
  MaxFailures = 6
  Editors = {1, 2}
  MaxUsers = 3
  MaxEdits = 3
  t1 = t1
  Tenants = {t1}
  Limits <- MCLimits
  Workers = {1, 2}
  MaxServers = 2
  MaxImages = 1
  MaxDeployments = 1
  MaxOps = 4
  BackupOps = 3
SPECIFICATION MCSpec
INVARIANTS
  OperationsTypeOK
  JobOutcomeExplained
  EntriesKept
  OneOpenAlert
  FailuresBounded
  AdminRemains
  ReferencesResolve
  QuotaBounded
  BackupUsable
  FreshIds
PROPERTIES
  ScriptJobEnds
  ClosedStaysClosed
CHECK_DEADLOCK FALSE
