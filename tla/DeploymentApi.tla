----------------------------- MODULE DeploymentApi -----------------------------
(***************************************************************************)
(* The rows of the servers, deployments and workflow_runs tables, and the  *)
(* HTTP handlers and start-up code that write them: creating deployments   *)
(* singly or in a batch, cancelling and retrying one, the edits of a server*)
(* row an operator can make at the same time, a crash of the API process   *)
(* and the reconciliation NewRouter runs when it starts again.             *)
(*                                                                         *)
(* A handler is a goroutine; a database statement, or a transaction that   *)
(* locks the server row, is one step, so a handler that reads and writes   *)
(* outside a transaction is several.  Validation of the request, the image *)
(* and template checks and the audit rows are left out: a request they     *)
(* refuse changes none of these variables.                                 *)
(***************************************************************************)
EXTENDS Naturals, FiniteSets, Functions

CONSTANTS
  Servers,      \* server rows
  Deployments,  \* ids of the deployment rows that may be created
  Runs,         \* goroutines that StartDeployment may start, one id per call
  Requests,     \* slots for HTTP requests in progress
  MaxBatch,     \* maxBatchDeployments
  Edits,        \* the server edits operators make: patch, retire, scrap
  MayCrash,     \* whether the API process can die
  NoServer, NoDeployment

ASSUME ApiAssumption ==
  /\ MaxBatch \in Nat \ {0}
  /\ Edits \subseteq {"patch", "retire", "scrap"}
  /\ MayCrash \in BOOLEAN
  /\ NoServer \notin Servers
  /\ NoDeployment \notin Deployments

VARIABLES
  serverStatus, \* servers.status
  depStatus,    \* deployments.status, "none" while the row does not exist
  depServer,    \* deployments.server_id
  wfStatus,     \* workflow_runs.status of the row a goroutine created, or "none"
  runPc,        \* where each workflow goroutine is
  runDep,       \* the deployment it was started for
  req,          \* each HTTP request in progress
  up,           \* whether the API process is running
  starting      \* rows ReconcileRunningDeployments has read and not yet handled

apiVars == <<serverStatus, depStatus, depServer, wfStatus, runPc, runDep, req, up, starting>>
requestVars == <<req, up, starting>>
processVars == <<up, starting>>

ServerStatuses == {"discovered", "ready", "deploying", "running", "maintenance", "retired", "scrapped"}
Active == {"pending", "running"}
Settled == {"success", "failed", "cancelled"}
DepStatuses == {"none"} \union Active \union Settled
WfStatuses == {"none", "running", "success", "failed", "cancelled"}

Idle == [op |-> "idle", dep |-> NoDeployment, server |-> NoServer, status |-> "ready"]
RequestType == [op : {"idle", "cancel_read", "cancel_write", "retry", "edit"},
                dep : Deployments \union {NoDeployment},
                server : Servers \union {NoServer},
                status : ServerStatuses]

ApiTypeOK ==
  /\ serverStatus \in [Servers -> ServerStatuses]
  /\ depStatus \in [Deployments -> DepStatuses]
  /\ depServer \in [Deployments -> Servers \union {NoServer}]
  /\ wfStatus \in [Runs -> WfStatuses]
  /\ runDep \in [Runs -> Deployments \union {NoDeployment}]
  /\ req \in [Requests -> RequestType]
  /\ up \in BOOLEAN
  /\ starting \in SUBSET Deployments

ApiInit ==
  /\ serverStatus = [s \in Servers |-> "ready"]
  /\ depStatus = [d \in Deployments |-> "none"]
  /\ depServer = [d \in Deployments |-> NoServer]
  /\ wfStatus = [r \in Runs |-> "none"]
  /\ runPc = [r \in Runs |-> "unused"]
  /\ runDep = [r \in Runs |-> NoDeployment]
  /\ req = [q \in Requests |-> Idle]
  /\ up = TRUE
  /\ starting = {}

-----------------------------------------------------------------------------
(* NewRouter returns, and requests are served, once every active deployment  *)
(* has been reconciled.                                                      *)
Serving == up /\ starting = {}

DeployableStatuses == {"ready", "running", "maintenance"}
Deployable(s) == serverStatus[s] \in DeployableStatuses
ActiveOn(s) == {d \in Deployments : depServer[d] = s /\ depStatus[d] \in Active}

(* `go s.run(id)` for every deployment d in the domain of job; the goroutine *)
(* job[d] first waits for an execution slot.                                 *)
StartDeployments(job) ==
  /\ \A d \in DOMAIN job : runPc[job[d]] = "unused"
  /\ runPc' = [r \in Runs |-> IF r \in Range(job) THEN "slot" ELSE runPc[r]]
  /\ runDep' = [r \in Runs |-> IF r \in Range(job)
                               THEN CHOOSE d \in DOMAIN job : job[d] = r
                               ELSE runDep[r]]

StartDeployment(d, r) ==
  /\ runPc[r] = "unused"
  /\ runPc' = [runPc EXCEPT ![r] = "slot"]
  /\ runDep' = [runDep EXCEPT ![r] = d]

(* Mutation: the transaction does not count the active deployments.          *)
CreateInTx_NotCounting(target) ==
  /\ \A d \in DOMAIN target : depStatus[d] = "none" /\ Deployable(target[d])
  /\ depStatus' = [d \in Deployments |-> IF d \in DOMAIN target THEN "pending" ELSE depStatus[d]]
  /\ depServer' = [d \in Deployments |-> IF d \in DOMAIN target THEN target[d] ELSE depServer[d]]
  /\ serverStatus' = [s \in Servers |-> IF s \in Range(target) THEN "deploying" ELSE serverStatus[s]]

(* createDeploymentInTx for the rows in the domain of target, all in one     *)
(* transaction: target[d] is the server deployment d installs.  The checks   *)
(* requireDeploymentSlot makes earlier are made again here, on locked rows.  *)
CreateInTx(target) ==
  /\ \A d \in DOMAIN target : /\ depStatus[d] = "none"
                              /\ Deployable(target[d])
                              /\ ActiveOn(target[d]) = {}
  /\ depStatus' = [d \in Deployments |-> IF d \in DOMAIN target THEN "pending" ELSE depStatus[d]]
  /\ depServer' = [d \in Deployments |-> IF d \in DOMAIN target THEN target[d] ELSE depServer[d]]
  /\ serverStatus' = [s \in Servers |-> IF s \in Range(target) THEN "deploying" ELSE serverStatus[s]]

CreateDeployment(d, s, r) ==
  /\ Serving
  /\ CreateInTx([x \in {d} |-> s])
  /\ StartDeployment(d, r)
  /\ UNCHANGED <<wfStatus, requestVars>>

(* A batch names distinct servers, at most MaxBatch of them, and creates all *)
(* its rows or none.                                                         *)
CreateDeploymentBatch(target, job) ==
  /\ Serving
  /\ Cardinality(DOMAIN target) \in 1..MaxBatch
  /\ IsInjective(target)
  /\ CreateInTx(target)
  /\ StartDeployments(job)
  /\ UNCHANGED <<wfStatus, requestVars>>

-----------------------------------------------------------------------------
(* cancelDeployment: a guarded update of the deployment, then, outside any   *)
(* transaction, a read of the server and an unguarded write.                 *)
CancelDeployment(q, d) ==
  /\ Serving
  /\ req[q] = Idle
  /\ depStatus[d] \in Active
  /\ depStatus' = [depStatus EXCEPT ![d] = "cancelled"]
  /\ req' = [req EXCEPT ![q] = [Idle EXCEPT !.op = "cancel_read", !.dep = d]]
  /\ UNCHANGED <<serverStatus, depServer, wfStatus, runPc, runDep, processVars>>

(* Mutation: the cancel leaves the server to the goroutine.                  *)
CancelReadServer_LeftToRun(q) ==
  /\ req[q].op = "cancel_read"
  /\ req' = [req EXCEPT ![q] = Idle]
  /\ UNCHANGED <<serverStatus, depStatus, depServer, wfStatus, runPc, runDep, processVars>>

CancelReadServer(q) ==
  /\ req[q].op = "cancel_read"
  /\ req' = [req EXCEPT ![q] = IF serverStatus[depServer[req[q].dep]] = "deploying"
                               THEN [req[q] EXCEPT !.op = "cancel_write"]
                               ELSE Idle]
  /\ UNCHANGED <<serverStatus, depStatus, depServer, wfStatus, runPc, runDep, processVars>>

CancelWriteServer(q) ==
  /\ req[q].op = "cancel_write"
  /\ serverStatus' = [serverStatus EXCEPT ![depServer[req[q].dep]] = "ready"]
  /\ req' = [req EXCEPT ![q] = Idle]
  /\ UNCHANGED <<depStatus, depServer, wfStatus, runPc, runDep, processVars>>

-----------------------------------------------------------------------------
(* retryDeployment: the status is checked on a row read before the preflight *)
(* (which may wait ten seconds for a BMC); the transaction checks the server *)
(* again, but not the deployment it re-queues.                               *)
RetryRead(q, d) ==
  /\ Serving
  /\ req[q] = Idle
  /\ depStatus[d] \in {"failed", "cancelled"}
  /\ Deployable(depServer[d])
  /\ ActiveOn(depServer[d]) = {}
  /\ req' = [req EXCEPT ![q] = [Idle EXCEPT !.op = "retry", !.dep = d]]
  /\ UNCHANGED <<serverStatus, depStatus, depServer, wfStatus, runPc, runDep, processVars>>

(* Mutation: the deployment is re-queued but no goroutine is started.        *)
RetryCommit_NotStarted(q, r) ==
  LET d == req[q].dep
      s == depServer[d]
  IN  /\ req[q].op = "retry"
      /\ Deployable(s)
      /\ ActiveOn(s) \subseteq {d}
      /\ depStatus' = [depStatus EXCEPT ![d] = "pending"]
      /\ serverStatus' = [serverStatus EXCEPT ![s] = "deploying"]
      /\ req' = [req EXCEPT ![q] = Idle]
      /\ UNCHANGED <<depServer, wfStatus, runPc, runDep, processVars>>

RetryCommit(q, r) ==
  LET d == req[q].dep
      s == depServer[d]
  IN  /\ req[q].op = "retry"
      /\ Deployable(s)
      /\ ActiveOn(s) \subseteq {d}
      /\ depStatus' = [depStatus EXCEPT ![d] = "pending"]
      /\ serverStatus' = [serverStatus EXCEPT ![s] = "deploying"]
      /\ StartDeployment(d, r)
      /\ req' = [req EXCEPT ![q] = Idle]
      /\ UNCHANGED <<depServer, wfStatus, processVars>>

(* The preflight found a problem, or the transaction met a conflict.         *)
RetryRefused(q) ==
  /\ req[q].op = "retry"
  /\ req' = [req EXCEPT ![q] = Idle]
  /\ UNCHANGED <<serverStatus, depStatus, depServer, wfStatus, runPc, runDep, processVars>>

-----------------------------------------------------------------------------
(* The operator's edits of a server row: each reads the row, checks it, and  *)
(* writes later without checking again.  PATCH saves every column, so a      *)
(* patch of another field writes back the status it read (st is then the     *)
(* current status).                                                          *)
BeginEdit(q, s, st) ==
  /\ Serving
  /\ req[q] = Idle
  /\ req' = [req EXCEPT ![q] = [Idle EXCEPT !.op = "edit", !.server = s, !.status = st]]
  /\ UNCHANGED <<serverStatus, depStatus, depServer, wfStatus, runPc, runDep, processVars>>

UpdateServer(q, s, st) ==
  /\ "patch" \in Edits
  /\ BeginEdit(q, s, st)

RetireServer(q, s) ==
  /\ "retire" \in Edits
  /\ serverStatus[s] \notin {"retired", "scrapped"}
  /\ BeginEdit(q, s, "retired")

ScrapServer(q, s) ==
  /\ "scrap" \in Edits
  /\ serverStatus[s] # "scrapped"
  /\ BeginEdit(q, s, "scrapped")

SaveServer(q) ==
  /\ req[q].op = "edit"
  /\ serverStatus' = [serverStatus EXCEPT ![req[q].server] = req[q].status]
  /\ req' = [req EXCEPT ![q] = Idle]
  /\ UNCHANGED <<depStatus, depServer, wfStatus, runPc, runDep, processVars>>

-----------------------------------------------------------------------------
(* The process dies: its goroutines and requests are gone, the rows stay.    *)
Crash ==
  /\ MayCrash
  /\ up
  /\ up' = FALSE
  /\ starting' = {}
  /\ runPc' = [r \in Runs |-> IF runPc[r] = "unused" THEN "unused" ELSE "done"]
  /\ req' = [q \in Requests |-> Idle]
  /\ UNCHANGED <<serverStatus, depStatus, depServer, wfStatus, runDep>>

(* NewRouter calls ReconcileRunningDeployments, which reads the active rows. *)
Boot ==
  /\ ~up
  /\ up' = TRUE
  /\ starting' = {d \in Deployments : depStatus[d] \in Active}
  /\ UNCHANGED <<serverStatus, depStatus, depServer, wfStatus, runPc, runDep, req>>

HasRunningWorkflow(d) == \E r \in Runs : runDep[r] = d /\ wfStatus[r] = "running"

(* Mutation: start-up resumes running deployments instead of pending ones.   *)
ResumeAtBoot_RunningOnly(d) == depStatus[d] = "running" /\ ~HasRunningWorkflow(d)

(* A pending deployment that no workflow run claims is started again; the    *)
(* modules that extend this one say what becomes of the others.              *)
ResumeAtBoot(d) == depStatus[d] = "pending" /\ ~HasRunningWorkflow(d)

StartupResume(d, r) ==
  /\ up
  /\ d \in starting
  /\ ResumeAtBoot(d)
  /\ StartDeployment(d, r)
  /\ starting' = starting \ {d}
  /\ UNCHANGED <<serverStatus, depStatus, depServer, wfStatus, req, up>>

-----------------------------------------------------------------------------
CreateStep ==
  \/ \E d \in Deployments, s \in Servers, r \in Runs : CreateDeployment(d, s, r)
  \/ \E D \in SUBSET Deployments :
       \E target \in [D -> Servers], job \in Injection(D, Runs) : CreateDeploymentBatch(target, job)

RequestStep(q) ==
  \/ \E d \in Deployments : CancelDeployment(q, d) \/ RetryRead(q, d)
  \/ CancelReadServer(q) \/ CancelWriteServer(q)
  \/ \E r \in Runs : RetryCommit(q, r)
  \/ RetryRefused(q)
  \/ \E s \in Servers, st \in ServerStatuses : UpdateServer(q, s, st)
  \/ \E s \in Servers : RetireServer(q, s) \/ ScrapServer(q, s)
  \/ SaveServer(q)

ProcessStep ==
  \/ Crash
  \/ Boot
  \/ \E d \in Deployments, r \in Runs : StartupResume(d, r)

ApiNext == CreateStep \/ (\E q \in Requests : RequestStep(q)) \/ ProcessStep
================================================================================
