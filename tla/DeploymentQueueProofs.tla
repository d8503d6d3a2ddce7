------------------------- MODULE DeploymentQueueProofs -------------------------
(***************************************************************************)
(* That nothing is forgotten: a deploying server has somebody who releases *)
(* it, a running deployment has a goroutine (and a slot), a pending one    *)
(* has a goroutine, unless a crash left a workflow run of it open.         *)
(***************************************************************************)
EXTENDS DeploymentLeaseProofs, FiniteSetTheorems

(***************************************************************************)
(* A deploying server is held.                                             *)
(***************************************************************************)
HeldBySomebody ==
  \A s \in Servers : serverStatus[s] = "deploying" => \E d \in Deployments : Holding(d, s)

LEMMA HeldMeansHolders == ASSUME TypeInv PROVE HeldBySomebody <=> DeployingIsHeld
BY HoldersAre DEF HeldBySomebody, DeployingIsHeld

LEMMA CreateHeld ==
  ASSUME LeaseInv, HeldBySomebody, CreateStep
  PROVE  HeldBySomebody'
<1> USE DEF LeaseInv, TypeInv, TypeOK, ApiTypeOK
<1>0. PICK D \in SUBSET Deployments : \E target \in [D -> Servers] : Creates(D, target)
  BY CreateEffect
<1>1. PICK target \in [D -> Servers] : Creates(D, target)
  BY <1>0
<1>2. /\ DOMAIN target = D
      /\ \A s \in Servers : s \in Range(target) <=> \E d \in D : target[d] = s
  BY DEF Range
<1>3. /\ \A d \in Deployments : /\ d \in D => /\ depStatus[d] = "none"
                                              /\ depStatus'[d] = "pending"
                                              /\ depServer'[d] = target[d]
                                /\ d \notin D => /\ depStatus'[d] = depStatus[d]
                                                 /\ depServer'[d] = depServer[d]
      /\ \A s \in Servers : (\A d \in D : target[d] # s) => serverStatus'[s] = serverStatus[s]
  BY <1>1, <1>2 DEF Creates, CreateInTx
<1>4. \A r \in Runs : OwedBy(r) => OwedBy(r)' /\ runDep'[r] = runDep[r] /\ runDep[r] \in Deployments \ D
  BY <1>1, <1>3 DEF Creates, OwedBy, Releasing, RunsLinked
<1>5. /\ UNCHANGED req
      /\ \A q \in Requests : OwedByRequest(q) => req[q].dep \in Deployments \ D
  BY <1>1, <1>3 DEF Creates, OwedByRequest, RequestsLinked, requestVars
<1>6. \A d \in D : Holding(d, target[d])'
  BY <1>3 DEF Holding, IsActive, Active
<1>7. \A e \in Deployments, s \in Servers : Holding(e, s) => e \notin D /\ Holding(e, s)'
  BY <1>3, <1>4, <1>5 DEF Holding, IsActive, Active, OwedByRequest
<1> QED
  BY <1>3, <1>6, <1>7 DEF HeldBySomebody

LEMMA RequestHeld ==
  ASSUME LeaseInv, HeldBySomebody, NEW q \in Requests, RequestStep(q), Edits = {}
  PROVE  HeldBySomebody'
<1> USE DEF LeaseInv, TypeInv, TypeOK, ApiTypeOK, HeldBySomebody, Holding, IsActive, OwedBy, OwedByRequest,
            RunsLinked, RequestsLinked, RowsLinked, RequestType, Idle
<1>1. ASSUME NEW d \in Deployments, CancelDeployment(q, d) PROVE HeldBySomebody'
  BY <1>1 DEF CancelDeployment
<1>2. ASSUME NEW d \in Deployments, RetryRead(q, d) PROVE HeldBySomebody'
  BY <1>2 DEF RetryRead
<1>3. CASE CancelReadServer(q)
  BY <1>3 DEF CancelReadServer
<1>4. CASE CancelWriteServer(q)
  BY <1>4 DEF CancelWriteServer
<1>5. ASSUME NEW r \in Runs, RetryCommit(q, r) PROVE HeldBySomebody'
  BY <1>5 DEF RetryCommit, StartDeployment, Releasing, Active
<1>6. CASE RetryRefused(q)
  BY <1>6 DEF RetryRefused
<1>7. ~SaveServer(q)
  BY DEF SaveServer, NoEditing
<1> QED
  BY <1>1, <1>2, <1>3, <1>4, <1>5, <1>6, <1>7
  DEF RequestStep, UpdateServer, RetireServer, ScrapServer

LEMMA RunHeld ==
  ASSUME LeaseInv, HeldBySomebody, NEW r \in Runs, RunStep(r)
  PROVE  HeldBySomebody'
<1> USE DEF LeaseInv, TypeInv, TypeOK, ApiTypeOK, HeldBySomebody, Holding, IsActive, OwedBy, OwedByRequest,
            RunsLinked, Releasing, Active, At, Goto, SetDeployment, SetServer, requestVars
<1>1. CASE AcquireSlot(r) \/ Begin(r) \/ StartStep(r) \/ EndStep(r) \/ FinishWorkflow(r) \/ FailWorkflow(r)
  BY <1>1 DEF AcquireSlot, Begin, StartStep, EndStep, FinishWorkflow, FailWorkflow
<1>2. CASE MarkRunning(r)
  BY <1>2 DEF MarkRunning
<1>3. CASE FinishDeployment(r)
  BY <1>3 DEF FinishDeployment
<1>4. CASE FailDeployment(r)
  BY <1>4 DEF FailDeployment
<1>5. CASE FailReadServer(r)
  BY <1>5 DEF FailReadServer
<1>6. CASE WriteServerRunning(r)
  BY <1>6 DEF WriteServerRunning
<1>7. CASE FailWriteServer(r)
  BY <1>7 DEF FailWriteServer
<1> QED
  BY <1>1, <1>2, <1>3, <1>4, <1>5, <1>6, <1>7 DEF RunStep

LEMMA NextHeld ==
  ASSUME Edits = {}, ~MayCrash, LeaseInv, HeldBySomebody, [Next]_vars
  PROVE  HeldBySomebody'
<1> USE DEF HeldBySomebody, Holding, IsActive, OwedBy, OwedByRequest
<1>1. CASE UNCHANGED vars
  BY <1>1 DEF vars, apiVars
<1>2. CASE Boot
  BY <1>2 DEF Boot
<1>3. ASSUME NEW d \in Deployments, NEW r \in Runs, StartupResume(d, r) PROVE HeldBySomebody'
  BY <1>3 DEF StartupResume, StartDeployment, LeaseInv, TypeInv, TypeOK, Releasing
<1>4. ASSUME NEW d \in Deployments, StartupLeave(d) PROVE HeldBySomebody'
  BY <1>4 DEF StartupLeave
<1> HIDE DEF HeldBySomebody
<1>5. ~Crash
  BY DEF Crash
<1> QED
  BY <1>1, <1>2, <1>3, <1>4, <1>5, CreateHeld, RequestHeld, RunHeld DEF Next, ApiNext, ProcessStep

(* A server never reads deploying with no deployment, goroutine or cancel    *)
(* request left that will give it back, as long as nobody edits server rows  *)
(* and the process lives (run, finishFailedWorkflow, cancelDeployment).      *)
THEOREM DeployingHeld == ASSUME Edits = {}, ~MayCrash PROVE Spec => []DeployingIsHeld
<1>1. Init => HeldBySomebody
  BY DEF Init, ApiInit, HeldBySomebody
<1>2. LeaseInv /\ HeldBySomebody /\ [Next]_vars => HeldBySomebody'
  BY NextHeld
<1>3. LeaseInv /\ HeldBySomebody => DeployingIsHeld
  BY HeldMeansHolders DEF LeaseInv
<1> QED
  BY <1>1, <1>2, <1>3, LeaseCorrect, PTL DEF Spec

-----------------------------------------------------------------------------
(***************************************************************************)
(* The execution slots.  A running deployment is being worked on by a      *)
(* goroutine, a goroutine holds a slot, and slots are limited.             *)
(***************************************************************************)
RunningIsWorked ==
  \A d \in Deployments : depStatus[d] = "running" =>
    \E r \in Runs : runDep[r] = d /\ runPc[r] \in Working
SlotsBounded == IsFiniteSet(SlotHolders) /\ Cardinality(SlotHolders) <= Concurrency

SlotInv == TypeInv /\ RunningIsWorked /\ SlotsBounded

LEMMA FewerHolders ==
  ASSUME SlotsBounded, SlotHolders' \subseteq SlotHolders
  PROVE  SlotsBounded'
<1>1. IsFiniteSet(SlotHolders') /\ Cardinality(SlotHolders') <= Cardinality(SlotHolders)
  BY FS_Subset DEF SlotsBounded
<1>2. Cardinality(SlotHolders) \in Nat /\ Cardinality(SlotHolders') \in Nat
  BY <1>1, FS_CardinalityType DEF SlotsBounded
<1> QED
  BY <1>1, <1>2, WorkflowAssumption DEF SlotsBounded

LEMMA AcquireBounded ==
  ASSUME TypeInv, SlotsBounded, NEW r \in Runs, AcquireSlot(r)
  PROVE  SlotsBounded'
<1>1. SlotHolders' = SlotHolders \union {r} /\ r \notin SlotHolders
  BY DEF AcquireSlot, At, Goto, SlotHolders, HoldingSlot, Working, Releasing, TypeInv, TypeOK
<1>2. IsFiniteSet(SlotHolders') /\ Cardinality(SlotHolders') = Cardinality(SlotHolders) + 1
  BY <1>1, FS_AddElement DEF SlotsBounded
<1>3. Cardinality(SlotHolders) \in Nat /\ Cardinality(SlotHolders) < Concurrency
  BY FS_CardinalityType DEF AcquireSlot, SlotsBounded
<1> QED
  BY <1>2, <1>3, WorkflowAssumption DEF SlotsBounded

LEMMA RunSlots ==
  ASSUME SlotInv, NEW r \in Runs, RunStep(r)
  PROVE  RunningIsWorked' /\ SlotsBounded'
<1> USE DEF SlotInv, TypeInv, TypeOK, ApiTypeOK, RunningIsWorked, At, Goto, SetDeployment,
            requestVars, RunsLinked, Working, Releasing, HoldingSlot
<1>1. ASSUME ~AcquireSlot(r) PROVE SlotHolders' \subseteq SlotHolders
  BY <1>1
  DEF RunStep, Begin, MarkRunning, StartStep, EndStep, FinishWorkflow, FinishDeployment,
      WriteServerRunning, FailWorkflow, FailDeployment, FailReadServer, FailWriteServer, SlotHolders
<1>2. SlotsBounded'
  BY <1>1, FewerHolders, AcquireBounded
<1>3. CASE AcquireSlot(r) \/ Begin(r) \/ WriteServerRunning(r) \/ FailReadServer(r) \/ FailWriteServer(r)
  BY <1>2, <1>3 DEF AcquireSlot, Begin, WriteServerRunning, FailReadServer, FailWriteServer
<1>4. CASE MarkRunning(r)
  BY <1>2, <1>4 DEF MarkRunning
<1>5. CASE StartStep(r) \/ EndStep(r)
  BY <1>2, <1>5 DEF StartStep, EndStep
<1>6. CASE FinishWorkflow(r) \/ FailWorkflow(r)
  BY <1>2, <1>6 DEF FinishWorkflow, FailWorkflow
<1>7. CASE FinishDeployment(r)
  BY <1>2, <1>7 DEF FinishDeployment
<1>8. CASE FailDeployment(r)
  BY <1>2, <1>8 DEF FailDeployment
<1> QED
  BY <1>3, <1>4, <1>5, <1>6, <1>7, <1>8 DEF RunStep

(* The handlers start goroutines, which do not hold a slot yet, and never    *)
(* make a deployment running.                                                *)
LeavesSlots ==
  /\ \A r \in Runs : /\ runPc[r] \in Working => runPc'[r] = runPc[r] /\ runDep'[r] = runDep[r]
                     /\ runPc'[r] \in HoldingSlot => runPc'[r] = runPc[r]
  /\ \A d \in Deployments : depStatus'[d] = "running" => depStatus[d] = "running"

LEMMA OthersLeaveSlots ==
  ASSUME TypeInv, ~MayCrash,
         \/ CreateStep
         \/ \E q \in Requests : RequestStep(q)
         \/ ProcessStep
         \/ \E d \in Deployments : StartupLeave(d)
  PROVE  LeavesSlots
<1> USE DEF TypeInv, TypeOK, ApiTypeOK, LeavesSlots, Working, HoldingSlot, Releasing
<1>1. CASE CreateStep
  <2>0. PICK D \in SUBSET Deployments : \E target \in [D -> Servers] : Creates(D, target)
    BY <1>1, CreateEffect
  <2>1. PICK target \in [D -> Servers] : Creates(D, target)
    BY <2>0
  <2> QED
    BY <2>1 DEF Creates, CreateInTx
<1>2. ASSUME NEW q \in Requests, RequestStep(q) PROVE LeavesSlots
  <2>1. ASSUME NEW d \in Deployments, CancelDeployment(q, d) PROVE LeavesSlots
    BY <2>1 DEF CancelDeployment
  <2>2. ASSUME NEW r \in Runs, RetryCommit(q, r) PROVE LeavesSlots
    BY <2>2 DEF RetryCommit, StartDeployment
  <2>3. CASE UNCHANGED <<depStatus, runPc, runDep>>
    BY <2>3
  <2> QED
    BY <1>2, <2>1, <2>2, <2>3
    DEF RequestStep, RetryRead, CancelReadServer, CancelWriteServer, RetryRefused, UpdateServer,
        RetireServer, ScrapServer, BeginEdit, SaveServer
<1>3. CASE ProcessStep
  BY <1>3 DEF ProcessStep, Crash, Boot, StartupResume, StartDeployment
<1>4. ASSUME NEW d \in Deployments, StartupLeave(d) PROVE LeavesSlots
  BY <1>4 DEF StartupLeave
<1> QED
  BY <1>1, <1>2, <1>3, <1>4

LEMMA NextSlots ==
  ASSUME ~MayCrash, SlotInv, [Next]_vars
  PROVE  SlotInv'
<1>1. TypeInv'
  BY NextTypeInv DEF SlotInv
<1>2. CASE UNCHANGED vars
  BY <1>1, <1>2 DEF SlotInv, RunningIsWorked, SlotsBounded, SlotHolders, vars, apiVars
<1>3. CASE LeavesSlots
  <2>1. SlotHolders' \subseteq SlotHolders
    BY <1>3 DEF LeavesSlots, SlotHolders
  <2>2. RunningIsWorked'
    BY <1>3 DEF LeavesSlots, RunningIsWorked, SlotInv
  <2> QED
    BY <1>1, <2>1, <2>2, FewerHolders DEF SlotInv
<1>4. ASSUME NEW r \in Runs, RunStep(r) PROVE SlotInv'
  BY <1>1, <1>4, RunSlots DEF SlotInv
<1> QED
  BY <1>2, <1>3, <1>4, OthersLeaveSlots DEF Next, ApiNext, SlotInv

(* Each running deployment has a slot of its own.                            *)
LEMMA SlotInvImplies == SlotInv => RunningWithinConcurrency
<1> SUFFICES ASSUME SlotInv PROVE RunningWithinConcurrency
  OBVIOUS
<1> DEFINE Running == {d \in Deployments : depStatus[d] = "running"}
           worker == [d \in Running |-> CHOOSE r \in Runs : runDep[r] = d /\ runPc[r] \in Working]
<1>1. \A d \in Running : worker[d] \in SlotHolders /\ runDep[worker[d]] = d
  BY DEF SlotInv, RunningIsWorked, SlotHolders, HoldingSlot
<1>2. worker \in Injection(Running, SlotHolders)
  <2>1. worker \in [Running -> SlotHolders]
    BY <1>1
  <2>2. \A d, e \in Running : worker[d] = worker[e] => d = e
    BY <1>1
  <2>3. IsInjective(worker)
    BY <2>1, <2>2 DEF IsInjective
  <2> QED
    BY <2>1, <2>3 DEF Injection
<1>3. IsFiniteSet(Running) /\ Cardinality(Running) <= Cardinality(SlotHolders)
  BY <1>2, FS_Injection DEF SlotInv, SlotsBounded
<1>4. Cardinality(SlotHolders) \in Nat /\ Cardinality(Running) \in Nat
  BY <1>3, FS_CardinalityType DEF SlotInv, SlotsBounded
<1> QED
  BY <1>3, <1>4, WorkflowAssumption DEF SlotInv, SlotsBounded, RunningWithinConcurrency

(* No more deployments are running than there are slots, while the process   *)
(* lives: also when a cancelled attempt's goroutine goes on holding one      *)
(* (acquireSlot, run).                                                       *)
THEOREM WithinConcurrency == ASSUME ~MayCrash PROVE Spec => []RunningWithinConcurrency
<1>1. Init => SlotInv
  <2>1. Init => SlotHolders = {}
    BY DEF Init, ApiInit, SlotHolders, HoldingSlot, Working, Releasing
  <2> QED
    BY <2>1, InitTypeInv, FS_EmptySet, WorkflowAssumption
    DEF SlotInv, SlotsBounded, RunningIsWorked, Init, ApiInit
<1>2. SlotInv /\ [Next]_vars => SlotInv'
  BY NextSlots
<1> QED
  BY <1>1, <1>2, SlotInvImplies, PTL DEF Spec

-----------------------------------------------------------------------------
(***************************************************************************)
(* Pending deployments across restarts.  ClaimInv also says of those that  *)
(* start-up has handled what ForgottenOnlyByCrash says of all, and that    *)
(* while start-up is handling a deployment no goroutine and no request     *)
(* exists that could interfere.                                            *)
(***************************************************************************)
Finished(r) == runPc[r] \in {"unused", "done"}

ClaimInv ==
  /\ up => \A d \in Deployments \ starting : depStatus[d] = "pending" => OnItsWay(d) \/ LeftOpen(d)
  /\ \A d \in starting, r \in Runs : runDep[r] = d => Finished(r)
  /\ ~up => starting = {} /\ \A r \in Runs : Finished(r)
  /\ ~Serving => \A q \in Requests : req[q].op = "idle"
  /\ \A r \in Runs : runPc[r] = "unused" => wfStatus[r] = "none"

LEMMA CreateClaim ==
  ASSUME TypeInv, ClaimInv, CreateStep
  PROVE  ClaimInv'
<1> USE DEF ClaimInv, Finished, OnItsWay, LeftOpen, Serving, TypeInv, TypeOK, ApiTypeOK
<1>0. PICK D \in SUBSET Deployments : \E target \in [D -> Servers] : Creates(D, target)
  BY CreateEffect
<1>1. PICK target \in [D -> Servers] : Creates(D, target)
  BY <1>0
<1>2. Serving
  BY DEF CreateStep, CreateDeployment, CreateDeploymentBatch
<1>3. /\ UNCHANGED <<wfStatus, req, up, starting>>
      /\ \A d \in Deployments \ D : depStatus'[d] = depStatus[d]
  BY <1>1 DEF Creates, CreateInTx, requestVars
<1>4. /\ \A r \in Runs : \/ runPc'[r] = runPc[r] /\ runDep'[r] = runDep[r]
                         \/ runPc[r] = "unused" /\ runPc'[r] = "slot" /\ runDep'[r] \in D
      /\ \A d \in D : \E r \in Runs : runPc'[r] = "slot" /\ runDep'[r] = d
  BY <1>1 DEF Creates
<1> QED
  BY <1>2, <1>3, <1>4

LEMMA RequestClaim ==
  ASSUME TypeInv, ClaimInv, NEW q \in Requests, RequestStep(q)
  PROVE  ClaimInv'
<1> USE DEF ClaimInv, Finished, OnItsWay, LeftOpen, Serving, TypeInv, TypeOK, ApiTypeOK,
            RequestsLinked, processVars, Idle, RequestType
<1>1. ASSUME NEW d \in Deployments, CancelDeployment(q, d) PROVE ClaimInv'
  BY <1>1 DEF CancelDeployment
<1>2. ASSUME NEW d \in Deployments, RetryRead(q, d) PROVE ClaimInv'
  BY <1>2 DEF RetryRead
<1>3. CASE CancelReadServer(q) \/ CancelWriteServer(q) \/ RetryRefused(q) \/ SaveServer(q)
  BY <1>3 DEF CancelReadServer, CancelWriteServer, RetryRefused, SaveServer
<1>4. ASSUME NEW r \in Runs, RetryCommit(q, r) PROVE ClaimInv'
  BY <1>4 DEF RetryCommit, StartDeployment
<1>5. ASSUME NEW s \in Servers, NEW st \in ServerStatuses, BeginEdit(q, s, st) PROVE ClaimInv'
  BY <1>5 DEF BeginEdit
<1>6. {"retired", "scrapped"} \subseteq ServerStatuses
  BY DEF ServerStatuses
<1> QED
  BY <1>1, <1>2, <1>3, <1>4, <1>5, <1>6
  DEF RequestStep, UpdateServer, RetireServer, ScrapServer

LEMMA RunClaim ==
  ASSUME TypeInv, ClaimInv, NEW r \in Runs, RunStep(r)
  PROVE  ClaimInv'
<1> USE DEF ClaimInv, Finished, OnItsWay, LeftOpen, Serving, TypeInv, TypeOK, ApiTypeOK, At, Goto,
            SetDeployment, SetWorkflow, CloseWorkflow, requestVars, RunsLinked
<1>1. CASE AcquireSlot(r)
  BY <1>1 DEF AcquireSlot
<1>2. CASE Begin(r)
  BY <1>2 DEF Begin
<1>3. CASE MarkRunning(r)
  BY <1>3 DEF MarkRunning
<1>4. CASE StartStep(r) \/ EndStep(r)
  BY <1>4 DEF StartStep, EndStep
<1>5. CASE FinishWorkflow(r) \/ FailWorkflow(r)
  BY <1>5 DEF FinishWorkflow, FailWorkflow
<1>6. CASE FinishDeployment(r) \/ FailDeployment(r)
  BY <1>6 DEF FinishDeployment, FailDeployment
<1>7. CASE WriteServerRunning(r) \/ FailReadServer(r) \/ FailWriteServer(r)
  BY <1>7 DEF WriteServerRunning, FailReadServer, FailWriteServer
<1> QED
  BY <1>1, <1>2, <1>3, <1>4, <1>5, <1>6, <1>7 DEF RunStep

LEMMA ProcessClaim ==
  ASSUME TypeInv, ClaimInv, ProcessStep \/ \E d \in Deployments : StartupLeave(d)
  PROVE  ClaimInv'
<1> USE DEF ClaimInv, Finished, OnItsWay, LeftOpen, Serving, TypeInv, TypeOK, ApiTypeOK, Idle
<1>1. CASE Crash
  BY <1>1 DEF Crash
<1>2. CASE Boot
  BY <1>2 DEF Boot, Active
<1>3. ASSUME NEW d \in Deployments, NEW r \in Runs, StartupResume(d, r) PROVE ClaimInv'
  BY <1>3 DEF StartupResume, StartDeployment
<1>4. ASSUME NEW d \in Deployments, StartupLeave(d) PROVE ClaimInv'
  BY <1>4 DEF StartupLeave, ResumeAtBoot, HasRunningWorkflow
<1> QED
  BY <1>1, <1>2, <1>3, <1>4 DEF ProcessStep

LEMMA NextClaim ==
  ASSUME TypeInv, ClaimInv, [Next]_vars
  PROVE  ClaimInv'
<1>1. CASE UNCHANGED vars
  BY <1>1 DEF vars, apiVars, ClaimInv, Finished, OnItsWay, LeftOpen, Serving
<1> QED
  BY <1>1, CreateClaim, RequestClaim, RunClaim, ProcessClaim DEF Next, ApiNext

(* Whenever requests are served, a pending deployment has a goroutine on its *)
(* way, or a crash left one of its workflow runs open: start-up resumes every *)
(* other one, at whatever step the process died, and no cancel, retry or lost *)
(* update strands one (ReconcileRunningDeployments, run, retryDeployment).    *)
THEOREM PendingForgottenOnlyByCrash == Spec => []ForgottenOnlyByCrash
<1>1. Init => ClaimInv
  BY DEF Init, ApiInit, ClaimInv, Finished, Serving, Idle
<1>2. TypeInv /\ ClaimInv /\ [Next]_vars => ClaimInv'
  BY NextClaim
<1>3. ClaimInv => ForgottenOnlyByCrash
  BY DEF ClaimInv, ForgottenOnlyByCrash, Serving
<1> QED
  BY <1>1, <1>2, <1>3, TypeCorrect, PTL DEF Spec

(***************************************************************************)
(* While the process lives: a goroutine that returns has closed its        *)
(* workflow run, on each of its ways out.                                  *)
(***************************************************************************)
RowsClosed ==
  \A r \in Runs : /\ runPc[r] \in {"unused", "slot", "begin"} => wfStatus[r] = "none"
                  /\ runPc[r] \in Releasing \union {"finish_dep", "fail_dep", "done"} => wfStatus[r] # "running"
LivingInv == Serving /\ RowsClosed

(* What a goroutine does at the end of a step.                               *)
LEMMA EndStepMoves ==
  ASSUME NEW r, EndStep(r)
  PROVE  /\ UNCHANGED processVars
         /\ \E pc \in {"done", "fail_wf", "finish_wf", "check"} :
              /\ runPc' = [runPc EXCEPT ![r] = pc]
              /\ wfStatus' = IF pc = "done" THEN [wfStatus EXCEPT ![r] = IF @ = "running" THEN "cancelled" ELSE @]
                             ELSE wfStatus
<1>1. CASE depStatus[runDep[r]] = "cancelled"
  <2>1. Goto(r, "done") /\ CloseWorkflow(r, "cancelled")
    BY <1>1 DEF EndStep
  <2> QED
    BY <2>1 DEF Goto, CloseWorkflow, requestVars, processVars
<1>2. CASE depStatus[runDep[r]] # "cancelled"
  <2>1. wfStatus' = wfStatus /\ \E pc \in {"fail_wf", "finish_wf", "check"} : Goto(r, pc)
    BY <1>2 DEF EndStep
  <2> QED
    BY <2>1 DEF Goto, requestVars, processVars
<1> QED
  BY <1>1, <1>2

LEMMA RunLiving ==
  ASSUME TypeInv, LivingInv, NEW r \in Runs, RunStep(r)
  PROVE  LivingInv'
<1> USE DEF LivingInv, Serving, RowsClosed, Releasing, TypeInv, TypeOK, ApiTypeOK, At, Goto, SetWorkflow, CloseWorkflow,
            requestVars
<1>1. CASE AcquireSlot(r) \/ Begin(r)
  BY <1>1 DEF AcquireSlot, Begin
<1>2. CASE MarkRunning(r)
  BY <1>2 DEF MarkRunning
<1>3. CASE FinishWorkflow(r) \/ FailWorkflow(r)
  BY <1>3 DEF FinishWorkflow, FailWorkflow
<1>4. CASE StartStep(r)
  BY <1>4 DEF StartStep
<1>5. CASE EndStep(r)
  BY <1>5, EndStepMoves DEF processVars
<1>6. CASE FinishDeployment(r) \/ FailDeployment(r)
  BY <1>6 DEF FinishDeployment, FailDeployment
<1>7. CASE WriteServerRunning(r) \/ FailReadServer(r) \/ FailWriteServer(r)
  BY <1>7 DEF WriteServerRunning, FailReadServer, FailWriteServer
<1> QED
  BY <1>1, <1>2, <1>3, <1>6, <1>7, <1>4, <1>5 DEF RunStep

(* The handlers start goroutines and leave workflow rows alone.              *)
LEMMA OthersLiving ==
  ASSUME TypeInv, ~MayCrash, LivingInv, ApiNext
  PROVE  LivingInv'
<1> USE DEF TypeInv, TypeOK, ApiTypeOK, LivingInv, RowsClosed, Serving, Releasing, requestVars, processVars
<1>1. CASE CreateStep
  <2>0. PICK D \in SUBSET Deployments : \E target \in [D -> Servers] : Creates(D, target)
    BY <1>1, CreateEffect
  <2>1. PICK target \in [D -> Servers] : Creates(D, target)
    BY <2>0
  <2> QED
    BY <2>1 DEF Creates, CreateInTx
<1>2. ASSUME NEW q \in Requests, RequestStep(q) PROVE LivingInv'
  <2>1. ASSUME NEW d \in Deployments, CancelDeployment(q, d) PROVE LivingInv'
    BY <2>1 DEF CancelDeployment
  <2>2. ASSUME NEW r \in Runs, RetryCommit(q, r) PROVE LivingInv'
    BY <2>2 DEF RetryCommit, StartDeployment
  <2>3. CASE UNCHANGED <<wfStatus, runPc, processVars>>
    BY <2>3
  <2> QED
    BY <1>2, <2>1, <2>2, <2>3
    DEF RequestStep, RetryRead, CancelReadServer, CancelWriteServer, RetryRefused, UpdateServer,
        RetireServer, ScrapServer, BeginEdit, SaveServer
<1>3. ~ProcessStep
  BY DEF ProcessStep, Crash, Boot, StartupResume
<1> QED
  BY <1>1, <1>2, <1>3 DEF ApiNext

(* While the process lives, every pending deployment has a goroutine on its  *)
(* way to it, whatever creates, batches, cancels and retries overlap (run,   *)
(* createDeployment, retryDeployment, cancelDeployment).                     *)
THEOREM PendingOnItsWay ==
  ASSUME ~MayCrash
  PROVE  Spec => [](\A d \in Deployments : depStatus[d] = "pending" => OnItsWay(d))
<1>1. Init => LivingInv
  BY DEF Init, ApiInit, LivingInv, RowsClosed, Serving, Releasing
<1>2. TypeInv /\ LivingInv /\ [Next]_vars => LivingInv'
  <2> SUFFICES ASSUME TypeInv, LivingInv, [Next]_vars PROVE LivingInv'
    OBVIOUS
  <2>1. CASE UNCHANGED vars
    BY <2>1 DEF vars, apiVars, LivingInv, RowsClosed, Serving
  <2>2. ASSUME NEW d \in Deployments, StartupLeave(d) PROVE LivingInv'
    BY <2>2 DEF StartupLeave, LivingInv, Serving
  <2> QED
    BY <2>1, <2>2, RunLiving, OthersLiving DEF Next
<1>3. LivingInv /\ ForgottenOnlyByCrash => \A d \in Deployments : depStatus[d] = "pending" => OnItsWay(d)
  BY DEF LivingInv, RowsClosed, ForgottenOnlyByCrash, LeftOpen
<1> QED
  BY <1>1, <1>2, <1>3, PendingForgottenOnlyByCrash, TypeCorrect, PTL DEF Spec

================================================================================
