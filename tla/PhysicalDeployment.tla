-------------------------- MODULE PhysicalDeployment --------------------------
(***************************************************************************)
(* WorkflowService.run for servers without a BMC endpoint: the goroutine   *)
(* only opens a workflow run with its tasks; an operator powers the server *)
(* on, and ReconcileDeployment settles the deployment once a PXE boot, a   *)
(* metadata access and an SSH check or lab evidence have been recorded.    *)
(* The HTTP handlers that record one call ReconcileDeployment afterwards,  *)
(* as do GET requests, the goroutine itself and start-up, all at the same  *)
(* time; the DHCP server records a boot and calls nothing.                 *)
(*                                                                         *)
(* Times of evidence are compared with two instants only, the creation of  *)
(* the deployment and started_at, which is the `now` of a goroutine: an    *)
(* instant is named by its deployment or goroutine, and the evidence kept  *)
(* is the set of instants it is later than.  The statuses of the four task *)
(* rows are for display and left out; only their existence matters here.   *)
(***************************************************************************)
EXTENDS DeploymentApi, Sequences

CONSTANTS
  Concurrency,  \* capacity of the slots channel
  Pollers,      \* requests that record evidence or look at a deployment
  Main,         \* the goroutine that runs NewRouter
  IdPrefix,     \* <<d, e>>: the decimal id of e begins with that of d
  NoRun

ASSUME PhysicalAssumption ==
  /\ Concurrency \in Nat \ {0}
  /\ IdPrefix \subseteq Deployments \X Deployments
  /\ NoRun \notin Runs
  /\ Main \notin Runs \union Pollers
  /\ Runs \intersect Pollers = {}
  /\ Runs \intersect Deployments = {}   \* an instant is named by one of them

Callers == Runs \union Pollers \union {Main}

VARIABLES
  wfRows,    \* goroutines in the order they created their workflow_runs row
  tasked,    \* goroutines whose task_executions rows exist
  startedAt, \* deployments.started_at: a goroutine's instant, or NoRun
  booted,    \* deployments with a physical boot event
  accessed,  \* deployments named by a metadata log row or a used token
  labbed,    \* instants since which ok lab evidence has been recorded
  checked,   \* instants since which an SSH check has succeeded
  sshOk,     \* servers whose latest SSH check succeeded
  rec        \* each request that looks at a deployment, up to its return

evidenceVars == <<booted, accessed, labbed, checked, sshOk>>
physVars == <<wfRows, tasked, startedAt, evidenceVars, rec>>
vars == <<apiVars, physVars>>

NoCall == [pc |-> "idle", dep |-> NoDeployment, server |-> NoServer, since |-> NoRun, wf |-> NoRun]
RecPcs == {"idle", "boot", "dhcp", "find", "dep", "wf", "wf_write", "dep_write", "server_write"}
RunPcs == {"unused", "slot", "begin", "mark", "tasks", "reconcile", "done"}

(* Types, and started_at is set exactly while an attempt is or was at work.  *)
TypeOK ==
  /\ ApiTypeOK
  /\ runPc \in [Runs -> RunPcs]
  /\ wfRows \in Seq(Runs)
  /\ tasked \subseteq Runs
  /\ startedAt \in [Deployments -> Runs \union {NoRun}]
  /\ \A d \in Deployments : /\ depStatus[d] \in {"none", "pending"} => startedAt[d] = NoRun
                            /\ depStatus[d] \in {"running", "success"} => startedAt[d] # NoRun
  /\ booted \subseteq Deployments
  /\ accessed \subseteq Deployments
  /\ labbed \subseteq Deployments \union Runs
  /\ checked \subseteq Deployments \union Runs
  /\ sshOk \subseteq Servers
  /\ rec \in [Callers -> [pc : RecPcs, dep : Deployments \union {NoDeployment},
                          server : Servers \union {NoServer},
                          since : Runs \union {NoRun}, wf : Runs \union {NoRun}]]

Init ==
  /\ ApiInit
  /\ wfRows = <<>>
  /\ tasked = {}
  /\ startedAt = [d \in Deployments |-> NoRun]
  /\ booted = {} /\ accessed = {} /\ labbed = {} /\ checked = {} /\ sshOk = {}
  /\ rec = [x \in Callers |-> NoCall]

-----------------------------------------------------------------------------
(* The goroutine.                                                            *)

At(r, pc) == runPc[r] = pc
Goto(r, to) ==
  /\ runPc' = [runPc EXCEPT ![r] = to]
  /\ UNCHANGED <<serverStatus, depServer, runDep, requestVars, evidenceVars>>

SlotHolders == {r \in Runs : runPc[r] \in {"begin", "mark", "tasks", "reconcile"}}

AcquireSlot(r) ==
  /\ At(r, "slot")
  /\ Cardinality(SlotHolders) < Concurrency
  /\ Goto(r, "begin")
  /\ UNCHANGED <<depStatus, wfStatus, wfRows, tasked, startedAt, rec>>

(* run takes the time and reads the deployment; startPhysicalPXEWorkflow     *)
(* creates the workflow row.                                                 *)
Begin(r) ==
  /\ At(r, "begin")
  /\ \/ /\ depStatus[runDep[r]] = "cancelled"
        /\ Goto(r, "done")
        /\ UNCHANGED <<wfStatus, wfRows>>
     \/ /\ depStatus[runDep[r]] # "cancelled"
        /\ Goto(r, "mark")
        /\ wfStatus' = [wfStatus EXCEPT ![r] = "running"]
        /\ wfRows' = Append(wfRows, r)
  /\ UNCHANGED <<depStatus, tasked, startedAt, rec>>

(* Mutation: losing the race closes every workflow run of the deployment.    *)
MarkRunning_ClosesAll(r) ==
  /\ At(r, "mark")
  /\ \/ /\ depStatus[runDep[r]] = "pending"
        /\ Goto(r, "tasks")
        /\ depStatus' = [depStatus EXCEPT ![runDep[r]] = "running"]
        /\ startedAt' = [startedAt EXCEPT ![runDep[r]] = r]
        /\ UNCHANGED wfStatus
     \/ /\ depStatus[runDep[r]] # "pending"
        /\ Goto(r, "done")
        /\ wfStatus' = [x \in Runs |-> IF runDep[x] = runDep[r] /\ wfStatus[x] = "running"
                                      THEN "cancelled" ELSE wfStatus[x]]
        /\ UNCHANGED <<depStatus, startedAt>>
  /\ UNCHANGED <<wfRows, tasked, rec>>

(* The deployment becomes running unless a cancel or another goroutine of it *)
(* came first; finishCancelledWorkflow then closes the goroutine's own row.  *)
MarkRunning(r) ==
  /\ At(r, "mark")
  /\ \/ /\ depStatus[runDep[r]] = "pending"
        /\ Goto(r, "tasks")
        /\ depStatus' = [depStatus EXCEPT ![runDep[r]] = "running"]
        /\ startedAt' = [startedAt EXCEPT ![runDep[r]] = r]
        /\ UNCHANGED wfStatus
     \/ /\ depStatus[runDep[r]] # "pending"
        /\ Goto(r, "done")
        /\ wfStatus' = [wfStatus EXCEPT ![r] = IF @ = "running" THEN "cancelled" ELSE @]
        /\ UNCHANGED <<depStatus, startedAt>>
  /\ UNCHANGED <<wfRows, tasked, rec>>

(* Mutation: the goroutine does not look for evidence that came early.       *)
CreateTasks_NoReconcile(r) ==
  /\ At(r, "tasks")
  /\ Goto(r, "reconcile")
  /\ tasked' = tasked \union {r}
  /\ UNCHANGED <<depStatus, wfStatus, wfRows, startedAt, rec>>

(* The tasks are created and the goroutine calls ReconcileDeployment, for    *)
(* evidence recorded before there were tasks to find.                        *)
CreateTasks(r) ==
  /\ At(r, "tasks")
  /\ Goto(r, "reconcile")
  /\ tasked' = tasked \union {r}
  /\ rec' = [rec EXCEPT ![r] = [NoCall EXCEPT !.pc = "dep", !.dep = runDep[r]]]
  /\ UNCHANGED <<depStatus, wfStatus, wfRows, startedAt>>

Return(r) ==
  /\ At(r, "reconcile")
  /\ rec[r] = NoCall
  /\ Goto(r, "done")
  /\ UNCHANGED <<depStatus, wfStatus, wfRows, tasked, startedAt, rec>>

-----------------------------------------------------------------------------
(* Evidence.  A handler stores it, then reconciles.                          *)

Call(x, pc, d, s) ==
  /\ rec[x] = NoCall
  /\ rec' = [rec EXCEPT ![x] = [NoCall EXCEPT !.pc = pc, !.dep = d, !.server = s]]

(* RenderIPXEScript, for an HTTP or a DHCP request, first finds the active   *)
(* deployment of the server that boots.                                      *)
ServeBoot(x, d) ==
  /\ \/ Serving /\ Call(x, "boot", d, NoServer)
     \/ up /\ Call(x, "dhcp", d, NoServer)
  /\ depStatus[d] \in Active
  /\ UNCHANGED <<apiVars, wfRows, tasked, startedAt, evidenceVars>>

(* It then creates a boot event linked to that deployment.  renderIPXE calls *)
(* ReconcileDeployment, handleDHCPPacket returns.                            *)
RecordBoot(x) ==
  /\ rec[x].pc \in {"boot", "dhcp"}
  /\ booted' = booted \union {rec[x].dep}
  /\ rec' = [rec EXCEPT ![x] = IF @.pc = "boot" THEN [@ EXCEPT !.pc = "dep"] ELSE NoCall]
  /\ UNCHANGED <<apiVars, wfRows, tasked, startedAt, accessed, labbed, checked, sshOk>>

(* The metadata endpoints serve any deployment, by id, server or token, and  *)
(* write a log row that ends in deployment_id=<id> for each; a token is      *)
(* marked used just before, which proves no more than the log row.           *)
RecordAccess(x, d) ==
  /\ Serving
  /\ depStatus[d] # "none"
  /\ accessed' = accessed \union {d}
  /\ Call(x, "dep", d, NoServer)
  /\ UNCHANGED <<apiVars, wfRows, tasked, startedAt, booted, labbed, checked, sshOk>>

(* The instants that evidence recorded now for server s is later than.       *)
Instants(s) ==
  {d \in Deployments : depStatus[d] # "none" /\ depServer[d] = s}
    \union {r \in Runs : runPc[r] \notin {"unused", "slot"} /\ depServer[runDep[r]] = s}

(* ok lab evidence of kind ssh or full; the rows are kept.                   *)
RecordLabEvidence(x, s) ==
  /\ Serving
  /\ labbed' = labbed \union Instants(s)
  /\ Call(x, "find", NoDeployment, s)
  /\ UNCHANGED <<apiVars, wfRows, tasked, startedAt, booted, accessed, checked, sshOk>>

(* checkSSHAccess overwrites the outcome of the check before.  As all that   *)
(* an ok check proves is proved by a later ok check too, the latest outcome  *)
(* and the instants of all ok checks determine what the row proves.          *)
CheckSSH(x, s) ==
  /\ Serving
  /\ serverStatus[s] \notin {"retired", "scrapped"}
  /\ \/ /\ checked' = checked \union Instants(s)
        /\ sshOk' = sshOk \union {s}
        /\ Call(x, "find", NoDeployment, s)
     \/ /\ sshOk' = sshOk \ {s}
        /\ UNCHANGED <<checked, rec>>
  /\ UNCHANGED <<apiVars, wfRows, tasked, startedAt, booted, accessed, labbed>>

(* getDeployment and deploymentLogs.                                         *)
GetDeployment(x, d) ==
  /\ Serving
  /\ depStatus[d] # "none"
  /\ Call(x, "dep", d, NoServer)
  /\ UNCHANGED <<apiVars, wfRows, tasked, startedAt, evidenceVars>>

-----------------------------------------------------------------------------
(* ReconcileDeployment, called by x.                                         *)

In(x, pc) == rec[x].pc = pc

(* The call returns; when start-up made it, start-up goes on.                *)
Finish(x) ==
  /\ rec' = [rec EXCEPT ![x] = NoCall]
  /\ starting' = IF x = Main THEN starting \ {rec[x].dep} ELSE starting

Proceed(x, call) ==
  /\ rec' = [rec EXCEPT ![x] = call]
  /\ UNCHANGED starting

recUnchanged == <<depServer, runPc, runDep, req, up, wfRows, tasked, startedAt, evidenceVars>>

(* ReconcileActiveDeploymentForServer.                                       *)
FindActive(x) ==
  /\ In(x, "find")
  /\ \/ /\ ActiveOn(rec[x].server) = {}
        /\ Finish(x)
     \/ \E d \in ActiveOn(rec[x].server) :
          Proceed(x, [NoCall EXCEPT !.pc = "dep", !.dep = d])
  /\ UNCHANGED <<serverStatus, depStatus, wfStatus, recUnchanged>>

ReadDeployment(x) ==
  /\ In(x, "dep")
  /\ \/ /\ depStatus[rec[x].dep] \notin Active
        /\ Finish(x)
     \/ /\ depStatus[rec[x].dep] \in Active
        /\ Proceed(x, [rec[x] EXCEPT !.pc = "wf", !.since = startedAt[rec[x].dep]])
  /\ UNCHANGED <<serverStatus, depStatus, wfStatus, recUnchanged>>

RunningRows(d) == {i \in DOMAIN wfRows : runDep[wfRows[i]] = d /\ wfStatus[wfRows[i]] = "running"}
(* The newest workflow run of d that is running.                             *)
Newest(d) == wfRows[CHOOSE i \in RunningRows(d) : \A j \in RunningRows(d) : j <= i]

(* The log row is searched for by LIKE '%deployment_id=<id>%' among those of *)
(* the server, so that of a later deployment of the server whose id begins   *)
(* with the same digits will do.                                             *)
Accessed(d) ==
  \E e \in accessed : depServer[e] = depServer[d] /\ (e = d \/ <<d, e>> \in IdPrefix)

(* Mutation: an SSH check or lab evidence is not asked for.                  *)
Evidenced_NoProof(d, since) == d \in booted /\ Accessed(d)

(* deploymentPhysicalEvidence: boot events and metadata accesses count       *)
(* whenever they happened, proofs since started_at or else created_at.       *)
Evidenced(d, since) ==
  LET instant == IF since = NoRun THEN d ELSE since
  IN  /\ d \in booted
      /\ Accessed(d)
      /\ \/ instant \in labbed
         \/ depServer[d] \in sshOk /\ instant \in checked

ReadWorkflow(x) ==
  LET d == rec[x].dep
      complete == RunningRows(d) # {} /\ Newest(d) \in tasked /\ Evidenced(d, rec[x].since)
  IN  /\ In(x, "wf")
      /\ \/ ~complete /\ Finish(x)
         \/ complete /\ Proceed(x, [rec[x] EXCEPT !.pc = "wf_write", !.wf = Newest(d)])
      /\ UNCHANGED <<serverStatus, depStatus, wfStatus, recUnchanged>>

CloseWorkflow(x) ==
  /\ In(x, "wf_write")
  /\ wfStatus' = [wfStatus EXCEPT ![rec[x].wf] = IF @ = "running" THEN "success" ELSE @]
  /\ Proceed(x, [rec[x] EXCEPT !.pc = "dep_write"])
  /\ UNCHANGED <<serverStatus, depStatus, recUnchanged>>

(* Mutation: the update to success is not guarded by the status.             *)
SettleDeployment_Unguarded(x) ==
  /\ In(x, "dep_write")
  /\ depStatus' = [depStatus EXCEPT ![rec[x].dep] = "success"]
  /\ Proceed(x, [rec[x] EXCEPT !.pc = "server_write"])
  /\ UNCHANGED <<serverStatus, wfStatus, recUnchanged>>

SettleDeployment(x) ==
  /\ In(x, "dep_write")
  /\ \/ /\ depStatus[rec[x].dep] = "running"
        /\ depStatus' = [depStatus EXCEPT ![rec[x].dep] = "success"]
        /\ Proceed(x, [rec[x] EXCEPT !.pc = "server_write"])
     \/ /\ depStatus[rec[x].dep] # "running"
        /\ Finish(x)
        /\ UNCHANGED depStatus
  /\ UNCHANGED <<serverStatus, wfStatus, recUnchanged>>

(* Mutation: the server is left deploying.                                   *)
ReleaseServer_Kept(x) ==
  /\ In(x, "server_write")
  /\ Finish(x)
  /\ UNCHANGED <<serverStatus, depStatus, wfStatus, recUnchanged>>

ReleaseServer(x) ==
  /\ In(x, "server_write")
  /\ serverStatus' = [serverStatus EXCEPT ![depServer[rec[x].dep]] = "running"]
  /\ Finish(x)
  /\ UNCHANGED <<depStatus, wfStatus, recUnchanged>>

-----------------------------------------------------------------------------
(* Start-up reconciles, one after the other, the active deployments it does  *)
(* not resume.                                                               *)
StartupReconcile(d) ==
  /\ up
  /\ d \in starting
  /\ ~ResumeAtBoot(d)
  /\ Call(Main, "dep", d, NoServer)
  /\ UNCHANGED <<apiVars, wfRows, tasked, startedAt, evidenceVars>>

(* Start-up resumes a deployment only between two such calls, and a crash    *)
(* ends every call.                                                          *)
CallsAfterApi ==
  /\ (up /\ up' /\ starting' # starting) => rec[Main] = NoCall
  /\ rec' = IF up' THEN rec ELSE [x \in Callers |-> NoCall]

(* Mutation: queueing a deployment again leaves started_at as it was.        *)
ApiStep_StartedAtKept ==
  /\ ApiNext
  /\ CallsAfterApi
  /\ UNCHANGED <<wfRows, tasked, startedAt, evidenceVars>>

(* Queueing a deployment again clears started_at.                            *)
ApiStep ==
  /\ ApiNext
  /\ CallsAfterApi
  /\ startedAt' = [d \in Deployments |-> IF depStatus'[d] = "pending" THEN NoRun ELSE startedAt[d]]
  /\ UNCHANGED <<wfRows, tasked, evidenceVars>>

RunStep(r) ==
  AcquireSlot(r) \/ Begin(r) \/ MarkRunning(r) \/ CreateTasks(r) \/ Return(r)

ReconcileStep(x) ==
  \/ RecordBoot(x)
  \/ FindActive(x) \/ ReadDeployment(x) \/ ReadWorkflow(x)
  \/ CloseWorkflow(x) \/ SettleDeployment(x) \/ ReleaseServer(x)

EvidenceStep(x) ==
  \/ \E d \in Deployments : ServeBoot(x, d) \/ RecordAccess(x, d) \/ GetDeployment(x, d)
  \/ \E s \in Servers : RecordLabEvidence(x, s) \/ CheckSSH(x, s)

Next ==
  \/ ApiStep
  \/ \E r \in Runs : RunStep(r)
  \/ \E x \in Pollers : EvidenceStep(x)
  \/ \E x \in Callers : ReconcileStep(x)
  \/ \E d \in Deployments : StartupReconcile(d)

Spec == Init /\ [][Next]_vars

(* Goroutines and calls in progress go on, and so does a received cancel;    *)
(* nobody need boot a server, read metadata, or look.                        *)
CancelGoesOn(q) ==
  /\ CancelReadServer(q) \/ CancelWriteServer(q)
  /\ UNCHANGED physVars

Fairness ==
  /\ \A r \in Runs : WF_vars(RunStep(r))
  /\ \A x \in Callers : WF_vars(ReconcileStep(x))
  /\ \A q \in Requests : WF_vars(CancelGoesOn(q))

FairSpec == Spec /\ Fairness

-----------------------------------------------------------------------------
(* Who holds server s: as in DeploymentWorkflow, with the ReconcileDeployment *)
(* calls that have settled a deployment in place of goroutines.               *)
Holders(s) ==
  ActiveOn(s)
    \union {rec[x].dep : x \in {y \in Callers : /\ rec[y].pc = "server_write"
                                                /\ depServer[rec[y].dep] = s}}
    \union {req[q].dep : q \in {p \in Requests : /\ req[p].op \in {"cancel_read", "cancel_write"}
                                                 /\ depServer[req[p].dep] = s}}

Lease == INSTANCE ServerLease WITH phase <- depStatus, holders <- [s \in Servers |-> Holders(s)]

(* Deployments to servers without a BMC implement the same exclusive lease,  *)
(* however many ReconcileDeployment calls overlap a cancel and a retry.      *)
ImplementsLease == Lease!Spec

(* A server whose deployment is pending or running reads deploying, wherever *)
(* the process dies: no late ReconcileDeployment gives it away.              *)
ActiveHoldsServer ==
  \A d \in Deployments : depStatus[d] \in Active => serverStatus[depServer[d]] = "deploying"

(* A deployment succeeds only when its server has booted over PXE for it, an *)
(* SSH or lab check of that server has passed since it was created, and      *)
(* metadata has been read for it, or for a deployment of the same server     *)
(* whose id begins with the digits of its own: nobody else's reading will    *)
(* do.  A retried deployment may succeed on what an earlier attempt left.    *)
SuccessHasEvidence ==
  \A d \in Deployments :
    depStatus[d] = "success" => d \in booted /\ Accessed(d) /\ d \in labbed \union checked

(* A running deployment has an open workflow run, or a call that has just    *)
(* closed it and is about to settle the deployment: while the process lives, *)
(* nothing strands a deployment where no evidence can settle it any more.    *)
RunningCanSettle ==
  \A d \in Deployments :
    depStatus[d] = "running" =>
      RunningRows(d) # {} \/ \E x \in Callers : rec[x].pc = "dep_write" /\ rec[x].dep = d

(* A goroutine that outlived a cancel and a retry has opened a workflow run  *)
(* after the one at work.  It never gets tasks, so whoever reconciles before *)
(* it is closed sees no physical workflow and overlooks the evidence.  The   *)
(* goroutine closes it as soon as it finds that it has lost.                 *)
Overtaken(d) ==
  \E i, j \in DOMAIN wfRows : /\ i < j
                            /\ wfRows[i] = startedAt[d]
                            /\ runDep[wfRows[j]] = d
                            /\ wfStatus[wfRows[j]] = "running"

(* A running deployment whose evidence is complete when somebody looks at it *)
(* is settled: a look is not lost, not even one between the moment it turns  *)
(* running and the creation of its tasks, unless a row that overtakes the    *)
(* attempt is open meanwhile, or the SSH check it relied on has since failed *)
(* (a look in progress when that happens is not answered for).               *)
EvidenceSettles ==
  \A d \in Deployments :
    (/\ depStatus[d] = "running"
     /\ Evidenced(d, startedAt[d])
     /\ \E x \in Callers : rec[x].pc = "dep" /\ rec[x].dep = d)
      ~> (depStatus[d] # "running" \/ ~Evidenced(d, startedAt[d]) \/ Overtaken(d))

(* A server whose deployment has settled does not stay deploying.            *)
SettledServerReleased ==
  \A s \in Servers : (serverStatus[s] = "deploying" /\ ActiveOn(s) = {}) ~> serverStatus[s] # "deploying"

(* Claims of the documentation that the code does not keep.                  *)

(* A physical deployment waits for the evidence and no longer: once it is    *)
(* complete the deployment is settled without anybody looking at it.         *)
EvidenceNotOverlooked ==
  \A d \in Deployments :
    (depStatus[d] = "running" /\ Evidenced(d, startedAt[d]))
      ~> (depStatus[d] # "running" \/ ~Evidenced(d, startedAt[d]))

(* After a restart of the API every pending deployment has a goroutine that  *)
(* carries it on: restarting recovers pending physical deployments.          *)
RestartResumesPending ==
  Serving => \A d \in Deployments : depStatus[d] = "pending" =>
               \E r \in Runs : runDep[r] = d /\ runPc[r] \in {"slot", "begin", "mark"}
================================================================================
