\* One goroutine and one cancel request.
CONSTANTS
  s1 = s1
  s2 = s2
  d1 = d1
  d2 = d2
  r1 = r1
  r2 = r2
  r3 = r3
  r4 = r4
  q1 = q1
  q2 = q2
  Servers = {s1}
  Deployments = {d1}
  Runs = {r1}
  Requests = {q1}
  MaxBatch = 2
  Edits = {}
  MayCrash = FALSE
  NoServer = NoServer
  NoDeployment = NoDeployment
  Concurrency = 1
  NumSteps = 2
SPECIFICATION Spec
PROPERTY CancelStopsWorkflow
CHECK_DEADLOCK FALSE
