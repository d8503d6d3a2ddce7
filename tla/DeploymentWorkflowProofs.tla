----------------------- MODULE DeploymentWorkflowProofs -----------------------
(***************************************************************************)
(* Proofs about DeploymentWorkflow for any number of servers, deployments, *)
(* goroutines and requests.                                                *)
(***************************************************************************)
EXTENDS DeploymentWorkflow, TLAPS

USE ApiAssumption, WorkflowAssumption

(***************************************************************************)
(* What ties the rows, goroutines and requests to each other: whatever     *)
(* refers to a deployment refers to a row that exists, a row names a       *)
(* server, and a goroutine inside the step loop has steps left.            *)
(***************************************************************************)
RowsLinked == \A d \in Deployments : depStatus[d] # "none" => depServer[d] \in Servers
RunsLinked ==
  \A r \in Runs : runPc[r] \notin {"unused", "done"} =>
    runDep[r] \in Deployments /\ depStatus[runDep[r]] # "none"
RequestsLinked ==
  \A q \in Requests :
    /\ req[q].op \in {"cancel_read", "cancel_write", "retry"} =>
         req[q].dep \in Deployments /\ depStatus[req[q].dep] # "none"
    /\ req[q].op = "edit" => req[q].server \in Servers
StepsLeft ==
  \A r \in Runs : runPc[r] \in {"unused", "slot", "begin", "mark", "check", "sleep"} =>
    runStep[r] < NumSteps

TypeInv == TypeOK /\ RowsLinked /\ RunsLinked /\ RequestsLinked /\ StepsLeft

LEMMA InitTypeInv == Init => TypeInv
BY DEF Init, ApiInit, TypeInv, TypeOK, ApiTypeOK, RowsLinked, RunsLinked, RequestsLinked,
       StepsLeft, ServerStatuses, DepStatuses, WfStatuses, RunPcs, RequestType, Idle

(* Starting goroutines for a batch: each is given the deployment it was      *)
(* started for.                                                              *)
LEMMA StartedRuns ==
  ASSUME NEW D \in SUBSET Deployments, NEW job \in Injection(D, Runs)
  PROVE  \A r \in Range(job) : r \in Runs /\ (CHOOSE d \in DOMAIN job : job[d] = r) \in D
BY DEF Injection, IsInjective, Range

(***************************************************************************)
(* Every step preserves TypeInv: first the goroutines' steps, then the     *)
(* handlers', then those of the process.                                   *)
(***************************************************************************)
LEMMA RunStepTypeInv ==
  ASSUME TypeInv, NEW r \in Runs, RunStep(r)
  PROVE  TypeInv'
<1> USE DEF TypeInv, TypeOK, ApiTypeOK, RowsLinked, RunsLinked, RequestsLinked, StepsLeft,
        At, Goto, SetWorkflow, CloseWorkflow, SetDeployment, SetServer, requestVars,
        ServerStatuses, Active, Settled, DepStatuses, WfStatuses,
        RunPcs, HoldingSlot, Working, Releasing
<1>1. CASE AcquireSlot(r)
  BY <1>1 DEF AcquireSlot
<1>2. CASE Begin(r)
  BY <1>2 DEF Begin
<1>3. CASE MarkRunning(r)
  BY <1>3 DEF MarkRunning
<1>4. CASE StartStep(r)
  BY <1>4 DEF StartStep
<1>5. CASE EndStep(r)
  BY <1>5 DEF EndStep
<1>6. CASE FinishWorkflow(r)
  BY <1>6 DEF FinishWorkflow
<1>7. CASE FinishDeployment(r)
  BY <1>7 DEF FinishDeployment
<1>8. CASE WriteServerRunning(r)
  BY <1>8 DEF WriteServerRunning
<1>9. CASE FailWorkflow(r)
  BY <1>9 DEF FailWorkflow
<1>10. CASE FailDeployment(r)
  BY <1>10 DEF FailDeployment
<1>11. CASE FailReadServer(r)
  BY <1>11 DEF FailReadServer
<1>12. CASE FailWriteServer(r)
  BY <1>12 DEF FailWriteServer
<1> QED
  BY <1>1, <1>2, <1>3, <1>4, <1>5, <1>6, <1>7, <1>8, <1>9, <1>10, <1>11, <1>12 DEF RunStep

LEMMA RequestStepTypeInv ==
  ASSUME TypeInv, NEW q \in Requests, RequestStep(q), UNCHANGED runStep
  PROVE  TypeInv'
<1> USE DEF TypeInv, TypeOK, ApiTypeOK, RowsLinked, RunsLinked, RequestsLinked, StepsLeft,
        requestVars, processVars, ServerStatuses, Active, Settled, DepStatuses, WfStatuses,
        RunPcs, HoldingSlot, Working, Releasing, RequestType, Idle
<1>1. ASSUME NEW d \in Deployments, CancelDeployment(q, d) PROVE TypeInv'
  <2> DEFINE c == [Idle EXCEPT !.op = "cancel_read", !.dep = d]
  <2>1. c \in RequestType /\ c.op = "cancel_read" /\ c.dep = d
    OBVIOUS
  <2>2. /\ req' = [req EXCEPT ![q] = c] /\ depStatus[d] # "none"
        /\ depStatus' = [depStatus EXCEPT ![d] = "cancelled"]
        /\ UNCHANGED <<serverStatus, depServer, wfStatus, runPc, runDep, processVars>>
    BY <1>1 DEF CancelDeployment
  <2> HIDE DEF c
  <2> QED
    BY <2>1, <2>2
<1>2. ASSUME NEW d \in Deployments, RetryRead(q, d) PROVE TypeInv'
  BY <1>2 DEF RetryRead
<1>3. CASE CancelReadServer(q)
  BY <1>3 DEF CancelReadServer
<1>4. CASE CancelWriteServer(q)
  BY <1>4 DEF CancelWriteServer
<1>5. ASSUME NEW r \in Runs, RetryCommit(q, r) PROVE TypeInv'
  BY <1>5 DEF RetryCommit, StartDeployment
<1>6. CASE RetryRefused(q)
  BY <1>6 DEF RetryRefused
<1>7. ASSUME NEW s \in Servers, NEW st \in ServerStatuses, BeginEdit(q, s, st) PROVE TypeInv'
  <2> DEFINE c == [Idle EXCEPT !.op = "edit", !.server = s, !.status = st]
  <2>1. c \in RequestType /\ c.op = "edit" /\ c.server = s
    OBVIOUS
  <2>2. req' = [req EXCEPT ![q] = c]
        /\ UNCHANGED <<serverStatus, depStatus, depServer, wfStatus, runPc, runDep, processVars>>
    BY <1>7 DEF BeginEdit
  <2> HIDE DEF c
  <2> QED
    BY <2>1, <2>2
<1>8. CASE SaveServer(q)
  BY <1>8 DEF SaveServer
<1> QED
  BY <1>1, <1>2, <1>3, <1>4, <1>5, <1>6, <1>7, <1>8
  DEF RequestStep, UpdateServer, RetireServer, ScrapServer

LEMMA CreateStepTypeInv ==
  ASSUME TypeInv, CreateStep, UNCHANGED runStep
  PROVE  TypeInv'
<1> USE DEF TypeInv, TypeOK, ApiTypeOK, RowsLinked, RunsLinked, RequestsLinked, StepsLeft,
        requestVars, processVars, ServerStatuses, Active, Settled, DepStatuses, WfStatuses,
        RunPcs, HoldingSlot, Working, Releasing, RequestType, Idle
<1>1. ASSUME NEW d \in Deployments, NEW s \in Servers, NEW r \in Runs, CreateDeployment(d, s, r)
      PROVE  TypeInv'
  BY <1>1 DEF CreateDeployment, CreateInTx, StartDeployment, Range
<1>2. ASSUME NEW D \in SUBSET Deployments, NEW target \in [D -> Servers],
             NEW job \in Injection(D, Runs), CreateDeploymentBatch(target, job)
      PROVE  TypeInv'
  <2>1. \A r \in Range(job) : r \in Runs /\ (CHOOSE d \in DOMAIN job : job[d] = r) \in D
    <3> HIDE DEF TypeInv
    <3> QED
      BY StartedRuns
  <2>2. DOMAIN target = D
    OBVIOUS
  <2> QED
    BY <1>2, <2>1, <2>2 DEF CreateDeploymentBatch, CreateInTx, StartDeployments
<1> QED
  BY <1>1, <1>2 DEF CreateStep

LEMMA ProcessStepTypeInv ==
  ASSUME TypeInv,
         \/ ProcessStep /\ UNCHANGED runStep
         \/ \E d \in Deployments : StartupLeave(d)
  PROVE  TypeInv'
<1> USE DEF TypeInv, TypeOK, ApiTypeOK, RowsLinked, RunsLinked, RequestsLinked, StepsLeft,
        requestVars, processVars, ServerStatuses, Active, Settled, DepStatuses, WfStatuses,
        RunPcs, HoldingSlot, Working, Releasing, RequestType, Idle
<1>1. ASSUME Crash, UNCHANGED runStep PROVE TypeInv'
  BY <1>1 DEF Crash
<1>2. ASSUME Boot, UNCHANGED runStep PROVE TypeInv'
  BY <1>2 DEF Boot
<1>3. ASSUME NEW d \in Deployments, NEW r \in Runs, StartupResume(d, r), UNCHANGED runStep PROVE TypeInv'
  BY <1>3 DEF StartupResume, StartDeployment, ResumeAtBoot
<1>4. ASSUME NEW d \in Deployments, StartupLeave(d) PROVE TypeInv'
  BY <1>4 DEF StartupLeave
<1> QED
  BY <1>1, <1>2, <1>3, <1>4 DEF ProcessStep

LEMMA NextTypeInv ==
  ASSUME TypeInv, [Next]_vars
  PROVE  TypeInv'
<1>1. CASE UNCHANGED vars
  BY <1>1 DEF vars, apiVars, TypeInv, TypeOK, ApiTypeOK, RowsLinked, RunsLinked,
              RequestsLinked, StepsLeft
<1> QED
  BY <1>1, RunStepTypeInv, RequestStepTypeInv, CreateStepTypeInv, ProcessStepTypeInv
  DEF Next, ApiNext

(* Every variable keeps its type, and every reference from a goroutine or a  *)
(* request to a deployment, and from a deployment to a server, resolves.     *)
THEOREM TypeCorrect == Spec => []TypeInv
<1>1. Init => TypeInv
  BY InitTypeInv
<1>2. TypeInv /\ [Next]_vars => TypeInv'
  BY NextTypeInv
<1> QED
  BY <1>1, <1>2, PTL DEF Spec

(* The rows, goroutines and requests keep their types, across crashes and    *)
(* edits of server rows.                                                     *)
THEOREM TypeOKAlways == Spec => []TypeOK
BY TypeCorrect, PTL DEF TypeInv

================================================================================
