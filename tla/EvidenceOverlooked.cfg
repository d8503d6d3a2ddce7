\* One attempt whose evidence is recorded.
CONSTANTS
  s1 = s1
  d1 = d1
  d2 = d2
  r1 = r1
  r2 = r2
  r3 = r3
  q1 = q1
  x1 = x1
  x2 = x2
  Servers = {s1}
  Deployments = {d1}
  Runs = {r1}
  Requests = {q1}
  Pollers = {x1}
  MaxBatch = 1
  Edits = {}
  MayCrash = FALSE
  Concurrency = 1
  NoServer = NoServer
  NoDeployment = NoDeployment
  NoRun = NoRun
  Main = Main
  IdPrefix = {}
SPECIFICATION FairSpec
PROPERTY EvidenceNotOverlooked
CHECK_DEADLOCK FALSE
