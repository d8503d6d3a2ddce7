\* Two retries of one failed deployment, the second committing after the first
\* attempt it allowed has succeeded.
CONSTANTS
  s1 = s1
  s2 = s2
  d1 = d1
  d2 = d2
  r1 = r1
  r2 = r2
  r3 = r3
  r4 = r4
  q1 = q1
  q2 = q2
  Servers = {s1}
  Deployments = {d1}
  Runs = {r1, r2, r3}
  Requests = {q1, q2}
  MaxBatch = 2
  Edits = {}
  MayCrash = FALSE
  NoServer = NoServer
  NoDeployment = NoDeployment
  Concurrency = 1
  NumSteps = 2
SPECIFICATION Spec
PROPERTY OnlyFailedOrCancelledRetried
CHECK_DEADLOCK FALSE
