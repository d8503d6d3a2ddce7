\* Two servers compete for one execution slot; two requests and three attempts
\* let a cancel, a retry and an outliving goroutine overlap.  Liveness is checked
\* too, so there is no symmetry but one order of creation and of starts.
CONSTANTS
  s1 = s1
  s2 = s2
  d1 = d1
  d2 = d2
  r1 = r1
  r2 = r2
  r3 = r3
  r4 = r4
  q1 = q1
  q2 = q2
  Servers = {s1, s2}
  Deployments = {d1, d2}
  Runs = {r1, r2, r3}
  Requests = {q1, q2}
  MaxBatch = 2
  Edits = {}
  MayCrash = FALSE
  NoServer = NoServer
  NoDeployment = NoDeployment
  Concurrency = 1
  NumSteps = 1
SPECIFICATION CanonicalSpec
INVARIANTS TypeOK ActiveHoldsServer DeployingIsHeld RunningWithinConcurrency
PROPERTIES ImplementsLease DeploymentSettles ServerReleased
CHECK_DEADLOCK FALSE
