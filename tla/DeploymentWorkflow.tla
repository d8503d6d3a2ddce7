-------------------------- MODULE DeploymentWorkflow --------------------------
(***************************************************************************)
(* WorkflowService.run for servers that have a BMC endpoint: the simulated *)
(* installation.  One goroutine per StartDeployment takes an execution     *)
(* slot, creates a workflow run, moves the deployment to running, executes *)
(* the steps (350 ms each) and writes the outcome back, re-reading the     *)
(* deployment between steps to see whether it was cancelled.  The task     *)
(* rows of the steps are written by their own goroutine only and are       *)
(* left out.                                                               *)
(***************************************************************************)
EXTENDS DeploymentApi

CONSTANTS
  Concurrency,  \* capacity of the slots channel, DEPLOYMENT_CONCURRENCY
  NumSteps      \* steps of the workflow template

ASSUME WorkflowAssumption ==
  /\ Concurrency \in Nat \ {0}
  /\ NumSteps \in Nat \ {0}

VARIABLE runStep   \* steps each goroutine has completed

vars == <<apiVars, runStep>>

(* A goroutine in Working has moved its deployment to running and has not    *)
(* yet written the outcome; one in Releasing has written it and owes the     *)
(* server a new status.                                                      *)
Working == {"check", "sleep", "fail_wf", "fail_dep", "finish_wf", "finish_dep"}
Releasing == {"fail_read", "fail_write", "server_write"}
HoldingSlot == {"begin", "mark"} \union Working \union Releasing
RunPcs == {"unused", "slot", "done"} \union HoldingSlot

TypeOK ==
  /\ ApiTypeOK
  /\ runPc \in [Runs -> RunPcs]
  /\ runStep \in [Runs -> 0..NumSteps]

Init ==
  /\ ApiInit
  /\ runStep = [r \in Runs |-> 0]

-----------------------------------------------------------------------------
At(r, pc) == runPc[r] = pc
Goto(r, to) ==
  /\ runPc' = [runPc EXCEPT ![r] = to]
  /\ UNCHANGED <<depServer, runDep, requestVars>>

SetWorkflow(r, st) == wfStatus' = [wfStatus EXCEPT ![r] = st]
CloseWorkflow(r, st) ==  \* finishCancelledWorkflow, finishFailedWorkflow: WHERE status = running
  wfStatus' = [wfStatus EXCEPT ![r] = IF @ = "running" THEN st ELSE @]
SetDeployment(r, st) == depStatus' = [depStatus EXCEPT ![runDep[r]] = st]
SetServer(r, st) == serverStatus' = [serverStatus EXCEPT ![depServer[runDep[r]]] = st]

SlotHolders == {r \in Runs : runPc[r] \in HoldingSlot}

(* Mutation: one goroutine too many gets a slot.                             *)
AcquireSlot_OneTooMany(r) ==
  /\ At(r, "slot")
  /\ Cardinality(SlotHolders) <= Concurrency
  /\ Goto(r, "begin")
  /\ UNCHANGED <<serverStatus, depStatus, wfStatus, runStep>>

(* acquireSlot: a send on a channel of capacity Concurrency; the deferred    *)
(* receive gives the slot back when run returns (pc "done").                 *)
AcquireSlot(r) ==
  /\ At(r, "slot")
  /\ Cardinality(SlotHolders) < Concurrency
  /\ Goto(r, "begin")
  /\ UNCHANGED <<serverStatus, depStatus, wfStatus, runStep>>

(* run reads the deployment; nothing is done for a cancelled one.            *)
Begin(r) ==
  /\ At(r, "begin")
  /\ \/ /\ depStatus[runDep[r]] = "cancelled"
        /\ Goto(r, "done")
        /\ UNCHANGED wfStatus
     \/ /\ depStatus[runDep[r]] # "cancelled"
        /\ Goto(r, "mark")
        /\ SetWorkflow(r, "running")
  /\ UNCHANGED <<serverStatus, depStatus, runStep>>

(* Mutation: the update to running is not guarded by the status.             *)
MarkRunning_Unguarded(r) ==
  /\ At(r, "mark")
  /\ Goto(r, "check")
  /\ SetDeployment(r, "running")
  /\ UNCHANGED <<serverStatus, wfStatus, runStep>>

(* The guarded update pending -> running; a run that loses it gives up.      *)
MarkRunning(r) ==
  /\ At(r, "mark")
  /\ \/ /\ depStatus[runDep[r]] = "pending"
        /\ Goto(r, "check")
        /\ SetDeployment(r, "running")
        /\ UNCHANGED wfStatus
     \/ /\ depStatus[runDep[r]] # "pending"
        /\ Goto(r, "done")
        /\ CloseWorkflow(r, "cancelled")
        /\ UNCHANGED depStatus
  /\ UNCHANGED <<serverStatus, runStep>>

(* The head of the step loop.                                                *)
StartStep(r) ==
  /\ At(r, "check")
  /\ \/ /\ depStatus[runDep[r]] = "cancelled"
        /\ Goto(r, "done")
        /\ CloseWorkflow(r, "cancelled")
     \/ /\ depStatus[runDep[r]] # "cancelled"
        /\ Goto(r, "sleep")
        /\ UNCHANGED wfStatus
  /\ UNCHANGED <<serverStatus, depStatus, runStep>>

(* Mutation: the loop runs one step past the last.                           *)
EndStep_OneTooMany(r) ==
  /\ At(r, "sleep")
  /\ depStatus[runDep[r]] # "cancelled"
  /\ Goto(r, IF runStep[r] = NumSteps THEN "finish_wf" ELSE "check")
  /\ runStep' = [runStep EXCEPT ![r] = @ + 1]
  /\ UNCHANGED <<wfStatus, serverStatus, depStatus>>

(* 350 ms later the deployment is read again; a step whose action is a       *)
(* simulated failure fails, any other succeeds.                              *)
EndStep(r) ==
  /\ At(r, "sleep")
  /\ \/ /\ depStatus[runDep[r]] = "cancelled"
        /\ Goto(r, "done")
        /\ CloseWorkflow(r, "cancelled")
        /\ UNCHANGED runStep
     \/ /\ depStatus[runDep[r]] # "cancelled"
        /\ Goto(r, "fail_wf")
        /\ UNCHANGED <<wfStatus, runStep>>
     \/ /\ depStatus[runDep[r]] # "cancelled"
        /\ Goto(r, IF runStep[r] + 1 = NumSteps THEN "finish_wf" ELSE "check")
        /\ runStep' = [runStep EXCEPT ![r] = @ + 1]
        /\ UNCHANGED wfStatus
  /\ UNCHANGED <<serverStatus, depStatus>>

(* The end of run: the workflow row is updated without a guard, the          *)
(* deployment only if it is still running, and then the server.              *)
FinishWorkflow(r) ==
  /\ At(r, "finish_wf")
  /\ Goto(r, "finish_dep")
  /\ SetWorkflow(r, "success")
  /\ UNCHANGED <<serverStatus, depStatus, runStep>>

(* Mutation: success is written whatever the status has become.              *)
FinishDeployment_Unguarded(r) ==
  /\ At(r, "finish_dep")
  /\ Goto(r, "server_write")
  /\ SetDeployment(r, "success")
  /\ UNCHANGED <<serverStatus, wfStatus, runStep>>

FinishDeployment(r) ==
  /\ At(r, "finish_dep")
  /\ \/ /\ depStatus[runDep[r]] = "running"
        /\ Goto(r, "server_write")
        /\ SetDeployment(r, "success")
     \/ /\ depStatus[runDep[r]] # "running"
        /\ Goto(r, "done")
        /\ UNCHANGED depStatus
  /\ UNCHANGED <<serverStatus, wfStatus, runStep>>

WriteServerRunning(r) ==
  /\ At(r, "server_write")
  /\ Goto(r, "done")
  /\ SetServer(r, "running")
  /\ UNCHANGED <<depStatus, wfStatus, runStep>>

(* finishFailedWorkflow: guarded updates of the workflow and the deployment, *)
(* then a read of the server and, if it is deploying, an unguarded write.    *)
FailWorkflow(r) ==
  /\ At(r, "fail_wf")
  /\ Goto(r, "fail_dep")
  /\ CloseWorkflow(r, "failed")
  /\ UNCHANGED <<serverStatus, depStatus, runStep>>

FailDeployment(r) ==
  /\ At(r, "fail_dep")
  /\ \/ /\ depStatus[runDep[r]] = "running"
        /\ Goto(r, "fail_read")
        /\ SetDeployment(r, "failed")
     \/ /\ depStatus[runDep[r]] # "running"
        /\ Goto(r, "done")
        /\ UNCHANGED depStatus
  /\ UNCHANGED <<serverStatus, wfStatus, runStep>>

(* Mutation: a failed deployment keeps its server.                           *)
FailReadServer_Kept(r) ==
  /\ At(r, "fail_read")
  /\ Goto(r, "done")
  /\ UNCHANGED <<serverStatus, depStatus, wfStatus, runStep>>

FailReadServer(r) ==
  /\ At(r, "fail_read")
  /\ Goto(r, IF serverStatus[depServer[runDep[r]]] = "deploying"
                          THEN "fail_write" ELSE "done")
  /\ UNCHANGED <<serverStatus, depStatus, wfStatus, runStep>>

FailWriteServer(r) ==
  /\ At(r, "fail_write")
  /\ Goto(r, "done")
  /\ SetServer(r, "ready")
  /\ UNCHANGED <<depStatus, wfStatus, runStep>>

(* ReconcileDeployment, called at start-up for the other active rows, leaves *)
(* a deployment whose tasks are not the physical PXE ones as it is.          *)
StartupLeave(d) ==
  /\ up
  /\ d \in starting
  /\ ~ResumeAtBoot(d)
  /\ starting' = starting \ {d}
  /\ UNCHANGED <<serverStatus, depStatus, depServer, wfStatus, runPc, runDep, req, up, runStep>>

-----------------------------------------------------------------------------
RunStep(r) ==
  \/ AcquireSlot(r) \/ Begin(r) \/ MarkRunning(r)
  \/ StartStep(r) \/ EndStep(r)
  \/ FinishWorkflow(r) \/ FinishDeployment(r) \/ WriteServerRunning(r)
  \/ FailWorkflow(r) \/ FailDeployment(r) \/ FailReadServer(r) \/ FailWriteServer(r)

Next ==
  \/ ApiNext /\ UNCHANGED runStep
  \/ \E r \in Runs : RunStep(r)
  \/ \E d \in Deployments : StartupLeave(d)

Spec == Init /\ [][Next]_vars

(* A goroutine that can run does, the channel serves blocked senders in      *)
(* order, and a cancel request that has been received completes; users need  *)
(* not act.                                                                  *)
Fairness ==
  /\ \A r \in Runs : WF_vars(RunStep(r))
  /\ \A q \in Requests : WF_vars((CancelReadServer(q) \/ CancelWriteServer(q)) /\ UNCHANGED runStep)

FairSpec == Spec /\ Fairness

-----------------------------------------------------------------------------
(* The deployments that hold server s: the active ones, and those whose      *)
(* goroutine or cancel request has yet to give the server back.              *)
ReleasingRuns(s) == {r \in Runs : runPc[r] \in Releasing /\ depServer[runDep[r]] = s}
ReleasingRequests(s) ==
  {q \in Requests : /\ req[q].op \in {"cancel_read", "cancel_write"}
                    /\ depServer[req[q].dep] = s}
Holders(s) ==
  ActiveOn(s) \union {runDep[r] : r \in ReleasingRuns(s)}
              \union {req[q].dep : q \in ReleasingRequests(s)}

Lease == INSTANCE ServerLease WITH phase <- depStatus, holders <- [s \in Servers |-> Holders(s)]

(* The handlers and goroutines together implement the exclusive lease, when  *)
(* no operator edits the server row and the process does not die: no two     *)
(* deployments, nor a deployment and the clean-up of an earlier one, ever    *)
(* hold one server, and a settled deployment is only ever queued again.      *)
ImplementsLease == Lease!Spec

(* At most one deployment of a server is pending or running, whatever edits  *)
(* operators make to the server row and wherever the process dies            *)
(* (createDeploymentInTx and retryDeployment count the others).              *)
AtMostOneActive ==
  \A d, e \in Deployments :
    depStatus[d] \in Active /\ depStatus[e] \in Active /\ depServer[d] = depServer[e] => d = e

(* A server whose deployment is pending or running reads deploying, so no    *)
(* late clean-up of an earlier deployment or attempt has given it away.      *)
ActiveHoldsServer ==
  \A d \in Deployments : depStatus[d] \in Active => serverStatus[depServer[d]] = "deploying"

(* Conversely a server never reads deploying with nobody left to release it. *)
DeployingIsHeld == \A s \in Servers : serverStatus[s] = "deploying" => Holders(s) # {}

(* No more BMC deployments are running than DEPLOYMENT_CONCURRENCY allows,   *)
(* also when the goroutine of a cancelled attempt outlives it.  (A physical  *)
(* deployment stays running after its goroutine has given its slot back.)    *)
RunningWithinConcurrency ==
  Cardinality({d \in Deployments : depStatus[d] = "running"}) <= Concurrency

(* A goroutine has yet to move d to running, or to find that another did.    *)
OnItsWay(d) == \E r \in Runs : runDep[r] = d /\ runPc[r] \in {"slot", "begin", "mark"}

(* A goroutine of d died with its workflow run open: one that returns closes *)
(* it.  The row is never closed, and start-up takes it for a live attempt.   *)
LeftOpen(d) == \E r \in Runs : runDep[r] = d /\ runPc[r] = "done" /\ wfStatus[r] = "running"

(* While requests are served, a pending deployment has a goroutine on its    *)
(* way to it, unless a crash left one of its workflow runs open: then        *)
(* start-up skips it (workflow.go:48) and it IS forgotten, until it is       *)
(* cancelled (PhysicalRestart.cfg shows this go wrong).  Nothing else        *)
(* forgets one: no cancel, retry, lost update or crash at another step.      *)
ForgottenOnlyByCrash ==
  Serving => \A d \in Deployments : depStatus[d] = "pending" => OnItsWay(d) \/ LeftOpen(d)

(* Every deployment that is queued settles, and a server that is deploying   *)
(* is eventually usable again.                                               *)
DeploymentSettles == \A d \in Deployments : depStatus[d] \in Active ~> depStatus[d] \in Settled
ServerReleased == \A s \in Servers : serverStatus[s] = "deploying" ~> serverStatus[s] # "deploying"

(* Claims of the documentation that the code does not keep.                  *)

(* A deployment that succeeded is never queued again: only a failed or       *)
(* cancelled deployment can be retried.                                      *)
OnlyFailedOrCancelledRetried ==
  [][\A d \in Deployments : depStatus[d] = "success" => depStatus'[d] = "success"]_vars

(* A goroutine whose deployment has been cancelled does not record success,  *)
(* neither on the workflow run nor, after a retry, on the new attempt: the   *)
(* workflow of a cancelled deployment stops.                                 *)
CancelStopsWorkflow ==
  [][\A r \in Runs : wfStatus[r] # "success" /\ wfStatus'[r] = "success"
                       => depStatus[runDep[r]] # "cancelled"]_vars
================================================================================
