\* One server, edited by operators while two deployments contend for it, and a
\* process that may die at any step.
CONSTANTS
  s1 = s1
  s2 = s2
  d1 = d1
  d2 = d2
  r1 = r1
  r2 = r2
  r3 = r3
  r4 = r4
  q1 = q1
  q2 = q2
  Servers = {s1}
  Deployments = {d1, d2}
  Runs = {r1, r2, r3}
  Requests = {q1, q2}
  MaxBatch = 2
  Edits = {"patch", "retire", "scrap"}
  MayCrash = TRUE
  NoServer = NoServer
  NoDeployment = NoDeployment
  Concurrency = 1
  NumSteps = 1
SPECIFICATION Spec
SYMMETRY Symmetry
INVARIANTS AtMostOneActive ForgottenOnlyByCrash
CHECK_DEADLOCK FALSE
