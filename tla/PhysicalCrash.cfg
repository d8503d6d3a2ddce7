\* One server, two deployments of it, one id the beginning of the other, and a
\* process that may die at any step.
CONSTANTS
  s1 = s1
  d1 = d1
  d2 = d2
  r1 = r1
  r2 = r2
  r3 = r3
  q1 = q1
  x1 = x1
  x2 = x2
  Servers = {s1}
  Deployments = {d1, d2}
  Runs = {r1, r2, r3}
  Requests = {q1}
  Pollers = {x1}
  MaxBatch = 1
  Edits = {}
  MayCrash = TRUE
  Concurrency = 1
  NoServer = NoServer
  NoDeployment = NoDeployment
  NoRun = NoRun
  Main = Main
  IdPrefix <- MCIdPrefix
SPECIFICATION Spec
CONSTRAINT CrashBounds
INVARIANTS TypeOK ActiveHoldsServer SuccessHasEvidence
SYMMETRY Symmetry
CHECK_DEADLOCK FALSE
