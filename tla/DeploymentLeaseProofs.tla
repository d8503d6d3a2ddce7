------------------------- MODULE DeploymentLeaseProofs -------------------------
(***************************************************************************)
(* Why a server is never installed by two deployments at once, for any     *)
(* number of servers, deployments, goroutines and requests.                *)
(***************************************************************************)
EXTENDS DeploymentWorkflowProofs

(* What both forms of creation do: the rows are queued for distinct free     *)
(* servers and each is given a goroutine that has not been started before.   *)
Creates(D, target) ==
  /\ IsInjective(target)
  /\ CreateInTx(target)
  /\ \A r \in Runs : \/ runPc'[r] = runPc[r] /\ runDep'[r] = runDep[r]
                     \/ runPc[r] = "unused" /\ runPc'[r] = "slot" /\ runDep'[r] \in D
  /\ \A d \in D : \E r \in Runs : runPc'[r] = "slot" /\ runDep'[r] = d
  /\ UNCHANGED <<wfStatus, requestVars>>

LEMMA CreateEffect ==
  ASSUME TypeInv, CreateStep
  PROVE  \E D \in SUBSET Deployments : \E target \in [D -> Servers] : Creates(D, target)
<1> USE DEF TypeInv, TypeOK, ApiTypeOK
<1>1. ASSUME NEW d \in Deployments, NEW s \in Servers, NEW r \in Runs, CreateDeployment(d, s, r)
      PROVE  Creates({d}, [x \in {d} |-> s])
  BY <1>1 DEF CreateDeployment, StartDeployment, Creates, IsInjective
<1>2. ASSUME NEW D \in SUBSET Deployments, NEW target \in [D -> Servers],
             NEW job \in Injection(D, Runs), CreateDeploymentBatch(target, job)
      PROVE  Creates(D, target)
  <2>1. DOMAIN target = D /\ DOMAIN job = D /\ \A d \in D : job[d] \in Runs /\ job[d] \in Range(job)
    BY DEF Injection, IsInjective, Range
  <2>2. \A d \in D : (CHOOSE x \in DOMAIN job : job[x] = job[d]) = d
    BY <2>1 DEF Injection, IsInjective
  <2>3. \A r \in Range(job) : runPc[r] = "unused" /\ (CHOOSE x \in DOMAIN job : job[x] = r) \in D
    BY <1>2, <2>1, StartedRuns DEF CreateDeploymentBatch, StartDeployments, Range
  <2> QED
    BY <1>2, <2>1, <2>2, <2>3 DEF CreateDeploymentBatch, StartDeployments, Creates
<1>3. ASSUME NEW d \in Deployments, NEW s \in Servers, NEW r \in Runs, CreateDeployment(d, s, r)
      PROVE  \E D \in SUBSET Deployments : \E target \in [D -> Servers] : Creates(D, target)
  <2>1. {d} \in SUBSET Deployments /\ [x \in {d} |-> s] \in [{d} -> Servers]
    OBVIOUS
  <2>2. Creates({d}, [x \in {d} |-> s])
    BY <1>1, <1>3
  <2> QED
    BY <2>1, <2>2
<1> QED
  BY <1>2, <1>3 DEF CreateStep

(***************************************************************************)
(* At most one active deployment per server.  It is inductive with TypeInv *)
(* alone: only createDeploymentInTx and retryDeployment make a deployment  *)
(* active, and both count the others in the transaction that does.         *)
(***************************************************************************)
LEMMA CreateOneActive ==
  ASSUME TypeInv, AtMostOneActive, CreateStep
  PROVE  AtMostOneActive'
<1>0. PICK D \in SUBSET Deployments : \E target \in [D -> Servers] : Creates(D, target)
  BY CreateEffect
<1>1. PICK target \in [D -> Servers] : Creates(D, target)
  BY <1>0
<1>2. \A d \in D : ActiveOn(target[d]) = {}
  BY <1>1 DEF Creates, CreateInTx
<1>3. \A d \in D, e \in D : target[d] = target[e] => d = e
  BY <1>1 DEF Creates, IsInjective
<1> QED
  BY <1>1, <1>2, <1>3
  DEF Creates, CreateInTx, ActiveOn, AtMostOneActive, TypeInv, TypeOK, ApiTypeOK

LEMMA NextOneActive ==
  ASSUME TypeInv, AtMostOneActive, [Next]_vars
  PROVE  AtMostOneActive'
<1> USE DEF AtMostOneActive, TypeInv, TypeOK, ApiTypeOK
<1>1. CASE CreateStep
  BY <1>1, CreateOneActive
<1>2. ASSUME NEW q \in Requests, RequestStep(q) PROVE AtMostOneActive'
  <2>1. ASSUME NEW d \in Deployments, CancelDeployment(q, d) PROVE AtMostOneActive'
    BY <2>1 DEF CancelDeployment, Active
  <2>2. ASSUME NEW r \in Runs, RetryCommit(q, r) PROVE AtMostOneActive'
    BY <2>2 DEF RetryCommit, ActiveOn, RequestsLinked, Active
  <2>3. CASE UNCHANGED <<depStatus, depServer>>
    BY <2>3
  <2> QED
    BY <1>2, <2>1, <2>2, <2>3
    DEF RequestStep, RetryRead, CancelReadServer, CancelWriteServer, RetryRefused, UpdateServer,
        RetireServer, ScrapServer, BeginEdit, SaveServer
<1>3. ASSUME NEW r \in Runs, RunStep(r) PROVE AtMostOneActive'
  <2>1. \A d \in Deployments : depStatus'[d] \in Active => depStatus[d] \in Active
    BY <1>3
    DEF RunStep, AcquireSlot, Begin, MarkRunning, StartStep, EndStep, FinishWorkflow,
        FinishDeployment, WriteServerRunning, FailWorkflow, FailDeployment, FailReadServer,
        FailWriteServer, SetDeployment, Active
  <2>2. depServer' = depServer
    BY <1>3
    DEF RunStep, AcquireSlot, Begin, MarkRunning, StartStep, EndStep, FinishWorkflow,
        FinishDeployment, WriteServerRunning, FailWorkflow, FailDeployment, FailReadServer,
        FailWriteServer, Goto
  <2> QED
    BY <2>1, <2>2
<1>4. CASE UNCHANGED <<depStatus, depServer>>
  BY <1>4
<1> QED
  BY <1>1, <1>2, <1>3, <1>4
  DEF Next, ApiNext, ProcessStep, Crash, Boot, StartupResume, StartupLeave, vars, apiVars

(* At most one deployment of a server is pending or running, whatever the    *)
(* operators do to the server row and wherever the process dies              *)
(* (createDeploymentInTx, retryDeployment).                                  *)
THEOREM OneActive == Spec => []AtMostOneActive
<1>1. Init => AtMostOneActive
  BY DEF Init, ApiInit, AtMostOneActive, Active
<1>2. TypeInv /\ AtMostOneActive /\ [Next]_vars => AtMostOneActive'
  BY NextOneActive
<1> QED
  BY <1>1, <1>2, TypeCorrect, PTL DEF Spec

-----------------------------------------------------------------------------
(***************************************************************************)
(* The strengthening behind ActiveHoldsServer.  ActiveHoldsServer is not   *)
(* inductive: a goroutine or a cancel request that has yet to give a       *)
(* server back would, in some unreachable states, give away the server of  *)
(* another deployment.  Exclusive says that an active deployment, such a   *)
(* goroutine and such a request are never on the same server, nor are two  *)
(* of a kind; HeldIsDeploying, that the server of each reads deploying     *)
(* until it is given back.  Both need that no operator edits server rows.  *)
(***************************************************************************)
OwedBy(r) == runPc[r] \in Releasing                          \* goroutine r owes its server a status
OwedByRequest(q) == req[q].op \in {"cancel_read", "cancel_write"}
IsActive(d) == depStatus[d] \in Active

Exclusive ==
  /\ AtMostOneActive
  /\ \A r \in Runs, d \in Deployments :
       OwedBy(r) /\ IsActive(d) => depServer[d] # depServer[runDep[r]]
  /\ \A q \in Requests, d \in Deployments :
       OwedByRequest(q) /\ IsActive(d) => depServer[d] # depServer[req[q].dep]
  /\ \A r, t \in Runs :
       OwedBy(r) /\ OwedBy(t) /\ depServer[runDep[r]] = depServer[runDep[t]] => r = t
  /\ \A q, p \in Requests :
       OwedByRequest(q) /\ OwedByRequest(p) /\ depServer[req[q].dep] = depServer[req[p].dep] => q = p
  /\ \A r \in Runs, q \in Requests :
       OwedBy(r) /\ OwedByRequest(q) => depServer[runDep[r]] # depServer[req[q].dep]

HeldIsDeploying ==
  /\ ActiveHoldsServer
  /\ \A r \in Runs : OwedBy(r) => serverStatus[depServer[runDep[r]]] = "deploying"
  /\ \A q \in Requests : OwedByRequest(q) => serverStatus[depServer[req[q].dep]] = "deploying"

NoEditing == \A q \in Requests : req[q].op # "edit"

LeaseInv == TypeInv /\ NoEditing /\ Exclusive /\ HeldIsDeploying

LEMMA CreateLease ==
  ASSUME LeaseInv, CreateStep
  PROVE  (NoEditing /\ Exclusive /\ HeldIsDeploying)'
<1> USE DEF LeaseInv, NoEditing, TypeInv, TypeOK, ApiTypeOK
<1>0. PICK D \in SUBSET Deployments : \E target \in [D -> Servers] : Creates(D, target)
  BY CreateEffect
<1>1. PICK target \in [D -> Servers] : Creates(D, target)
  BY <1>0
<1>2. /\ DOMAIN target = D
      /\ \A s \in Servers : s \in Range(target) <=> \E d \in D : target[d] = s
  BY DEF Range
(* The servers chosen are held by nobody, and other rows are left alone.     *)
<1>3. /\ \A d \in D : depStatus[d] = "none" /\ serverStatus[target[d]] # "deploying"
      /\ \A d \in Deployments : /\ d \in D => IsActive(d)' /\ depServer'[d] = target[d]
                                /\ d \notin D => /\ depStatus'[d] = depStatus[d]
                                                 /\ depServer'[d] = depServer[d]
      /\ \A d \in D : serverStatus'[target[d]] = "deploying"
      /\ \A s \in Servers : serverStatus[s] = "deploying" => serverStatus'[s] = "deploying"
  BY <1>1, <1>2 DEF Creates, CreateInTx, Deployable, DeployableStatuses, IsActive, Active
(* Whoever owes a server its status did so before, to the same deployment.   *)
<1>4. \A r \in Runs : OwedBy(r)' =>
        /\ OwedBy(r)
        /\ runDep'[r] = runDep[r]
        /\ runDep[r] \in Deployments \ D
  BY <1>1, <1>3 DEF Creates, OwedBy, Releasing, RunsLinked
<1>5. /\ UNCHANGED req
      /\ \A q \in Requests : OwedByRequest(q) => req[q].dep \in Deployments \ D
  BY <1>1, <1>3 DEF Creates, OwedByRequest, RequestsLinked, requestVars
<1>6. /\ \A r \in Runs : OwedBy(r) => depServer[runDep[r]] \in Servers
      /\ \A q \in Requests : OwedByRequest(q) => depServer[req[q].dep] \in Servers
      /\ \A d \in Deployments : IsActive(d) => depServer[d] \in Servers
  BY DEF OwedBy, OwedByRequest, Releasing, RunsLinked, RequestsLinked, RowsLinked, IsActive, Active
<1>7. AtMostOneActive'
  BY CreateOneActive DEF Exclusive
<1>8. Exclusive'
  BY <1>3, <1>4, <1>5, <1>6, <1>7 DEF Exclusive, HeldIsDeploying, OwedByRequest, IsActive
<1>9. HeldIsDeploying'
  BY <1>3, <1>4, <1>5, <1>6 DEF HeldIsDeploying, ActiveHoldsServer, OwedByRequest, IsActive
<1> QED
  BY <1>5, <1>8, <1>9

LEMMA RequestLease ==
  ASSUME Edits = {}, LeaseInv, NEW q \in Requests, RequestStep(q)
  PROVE  (NoEditing /\ Exclusive /\ HeldIsDeploying)'
<1> USE DEF LeaseInv, NoEditing, Exclusive, HeldIsDeploying, AtMostOneActive, ActiveHoldsServer,
            OwedBy, OwedByRequest, IsActive,
            TypeInv, TypeOK, ApiTypeOK, RowsLinked, RunsLinked, RequestsLinked, Idle, RequestType
<1>1. ASSUME NEW d \in Deployments, CancelDeployment(q, d)
      PROVE  (NoEditing /\ Exclusive /\ HeldIsDeploying)'
  BY <1>1 DEF CancelDeployment, Active, Releasing
<1>2. ASSUME NEW d \in Deployments, RetryRead(q, d)
      PROVE  (NoEditing /\ Exclusive /\ HeldIsDeploying)'
  BY <1>2 DEF RetryRead
<1>3. CASE CancelReadServer(q)
  BY <1>3 DEF CancelReadServer
<1>4. CASE CancelWriteServer(q)
  BY <1>4 DEF CancelWriteServer, Active, Releasing
<1>5. ASSUME NEW r \in Runs, RetryCommit(q, r)
      PROVE  (NoEditing /\ Exclusive /\ HeldIsDeploying)'
  BY <1>5 DEF RetryCommit, StartDeployment, ActiveOn, Deployable, DeployableStatuses, Active, Releasing
<1>6. CASE RetryRefused(q)
  BY <1>6 DEF RetryRefused
<1>7. ~SaveServer(q)
  BY DEF SaveServer
<1> QED
  BY <1>1, <1>2, <1>3, <1>4, <1>5, <1>6, <1>7
  DEF RequestStep, UpdateServer, RetireServer, ScrapServer

LEMMA RunLease ==
  ASSUME LeaseInv, NEW r \in Runs, RunStep(r)
  PROVE  (NoEditing /\ Exclusive /\ HeldIsDeploying)'
<1> USE DEF LeaseInv, NoEditing, Exclusive, HeldIsDeploying, AtMostOneActive, ActiveHoldsServer,
            OwedBy, OwedByRequest, IsActive, At, Goto, SetDeployment, SetServer, requestVars,
            TypeInv, TypeOK, ApiTypeOK, RowsLinked, RunsLinked, RequestsLinked, Active, Releasing
<1>1. CASE AcquireSlot(r)
  BY <1>1 DEF AcquireSlot
<1>2. CASE Begin(r)
  BY <1>2 DEF Begin
<1>3. CASE MarkRunning(r)
  BY <1>3 DEF MarkRunning
<1>4. CASE StartStep(r)
  BY <1>4 DEF StartStep
<1>5. CASE EndStep(r)
  BY <1>5 DEF EndStep
<1>6. CASE FinishWorkflow(r)
  BY <1>6 DEF FinishWorkflow
<1>7. CASE FinishDeployment(r)
  BY <1>7 DEF FinishDeployment
<1>8. CASE WriteServerRunning(r)
  BY <1>8 DEF WriteServerRunning
<1>9. CASE FailWorkflow(r)
  BY <1>9 DEF FailWorkflow
<1>10. CASE FailDeployment(r)
  BY <1>10 DEF FailDeployment
<1>11. CASE FailReadServer(r)
  BY <1>11 DEF FailReadServer
<1>12. CASE FailWriteServer(r)
  BY <1>12 DEF FailWriteServer
<1> QED
  BY <1>1, <1>2, <1>3, <1>4, <1>5, <1>6, <1>7, <1>8, <1>9, <1>10, <1>11, <1>12 DEF RunStep

LEMMA ProcessLease ==
  ASSUME LeaseInv, ProcessStep \/ \E d \in Deployments : StartupLeave(d)
  PROVE  (NoEditing /\ Exclusive /\ HeldIsDeploying)'
<1> USE DEF LeaseInv, NoEditing, Exclusive, HeldIsDeploying, AtMostOneActive, ActiveHoldsServer,
            OwedBy, OwedByRequest, IsActive, Releasing, TypeInv, TypeOK, ApiTypeOK, Idle
<1>1. CASE Crash
  BY <1>1 DEF Crash
<1>2. CASE Boot
  BY <1>2 DEF Boot
<1>3. ASSUME NEW d \in Deployments, NEW r \in Runs, StartupResume(d, r)
      PROVE  (NoEditing /\ Exclusive /\ HeldIsDeploying)'
  BY <1>3 DEF StartupResume, StartDeployment
<1>4. ASSUME NEW d \in Deployments, StartupLeave(d)
      PROVE  (NoEditing /\ Exclusive /\ HeldIsDeploying)'
  BY <1>4 DEF StartupLeave
<1> QED
  BY <1>1, <1>2, <1>3, <1>4 DEF ProcessStep

LEMMA NextLease ==
  ASSUME Edits = {}, LeaseInv, [Next]_vars
  PROVE  LeaseInv'
<1>1. TypeInv'
  BY NextTypeInv DEF LeaseInv
<1>2. CASE UNCHANGED vars
  BY <1>2, <1>1
  DEF vars, apiVars, LeaseInv, NoEditing, Exclusive, HeldIsDeploying, AtMostOneActive,
      ActiveHoldsServer, OwedBy, OwedByRequest, IsActive
<1> QED
  BY <1>1, <1>2, CreateLease, RequestLease, RunLease, ProcessLease DEF Next, ApiNext, LeaseInv

LEMMA InitLease == Init => LeaseInv
BY InitTypeInv
DEF Init, ApiInit, LeaseInv, NoEditing, Exclusive, HeldIsDeploying, AtMostOneActive,
    ActiveHoldsServer, OwedBy, OwedByRequest, IsActive, Active, Releasing, Idle

LEMMA LeaseCorrect == ASSUME Edits = {} PROVE Spec => []LeaseInv
<1>1. LeaseInv /\ [Next]_vars => LeaseInv'
  BY NextLease
<1> QED
  BY <1>1, InitLease, PTL DEF Spec

(* As long as no operator edits server rows, the server of a pending or      *)
(* running deployment reads deploying: no clean-up of an earlier deployment, *)
(* attempt or cancel gives it away (finishFailedWorkflow, cancelDeployment,  *)
(* the end of run).  A crash of the process does not change this.            *)
THEOREM ActiveHolds == ASSUME Edits = {} PROVE Spec => []ActiveHoldsServer
BY LeaseCorrect, PTL DEF LeaseInv, HeldIsDeploying

-----------------------------------------------------------------------------
(***************************************************************************)
(* That the program implements ServerLease, and that a deploying server    *)
(* has somebody to release it.  Holding says who holds a server row by     *)
(* row; the lemmas give, for each step, what becomes of the holders.       *)
(***************************************************************************)
Holding(d, s) ==
  /\ depServer[d] = s
  /\ \/ IsActive(d)
     \/ \E r \in Runs : OwedBy(r) /\ runDep[r] = d
     \/ \E q \in Requests : OwedByRequest(q) /\ req[q].dep = d

LEMMA HoldersAre ==
  ASSUME TypeInv
  PROVE  \A s \in Servers : Holders(s) = {d \in Deployments : Holding(d, s)}
BY DEF Holders, ActiveOn, ReleasingRuns, ReleasingRequests, Holding, IsActive, OwedBy, OwedByRequest,
       TypeInv, RunsLinked, RequestsLinked, Releasing

LEMMA HoldersAreNext ==
  ASSUME TypeInv'
  PROVE  \A s \in Servers : Holders(s)' = {d \in Deployments : Holding(d, s)'}
BY DEF Holders, ActiveOn, ReleasingRuns, ReleasingRequests, Holding, IsActive, OwedBy, OwedByRequest,
       TypeInv, RunsLinked, RequestsLinked, Releasing

HoldersFn == [s \in Servers |-> Holders(s)]

(* A step that changes nobody's hold on a server.                            *)
LEMMA SameHolders ==
  ASSUME TypeInv, TypeInv', \A d \in Deployments, s \in Servers : Holding(d, s)' <=> Holding(d, s)
  PROVE  UNCHANGED HoldersFn
<1>1. \A s \in Servers : Holders(s)' = Holders(s)
  BY HoldersAre, HoldersAreNext
<1> QED
  BY <1>1 DEF HoldersFn

(* A step that gives server s back and changes nobody else's hold.           *)
LEMMA Released ==
  ASSUME TypeInv, TypeInv', NEW s \in Servers, UNCHANGED depStatus,
         \A d \in Deployments : Holding(d, s) => ~IsActive(d),
         \A d \in Deployments, t \in Servers \ {s} : Holding(d, t)' <=> Holding(d, t),
         \A d \in Deployments : ~Holding(d, s)'
  PROVE  Lease!Release(s)
<1>1. Holders(s)' = {} /\ \A t \in Servers \ {s} : Holders(t)' = Holders(t)
  BY HoldersAre, HoldersAreNext
<1>2. HoldersFn' = [HoldersFn EXCEPT ![s] = {}]
  BY <1>1 DEF HoldersFn
<1>3. \A d \in HoldersFn[s] : depStatus[d] \notin Lease!Unsettled
  BY HoldersAre DEF HoldersFn, IsActive, Active, Lease!Unsettled
<1> QED
  BY <1>2, <1>3 DEF Lease!Release, HoldersFn

(* A step that queues the deployments in the domain of target.               *)
LEMMA Queued ==
  ASSUME TypeInv, TypeInv', NEW D \in SUBSET Deployments, NEW target \in [D -> Servers],
         IsInjective(target),
         \A d \in D : ~IsActive(d),
         \A d \in D, e \in Deployments : ~Holding(e, target[d]),
         depStatus' = [d \in Deployments |-> IF d \in D THEN "pending" ELSE depStatus[d]],
         \A d \in D, e \in Deployments : Holding(e, target[d])' <=> e = d,
         \A s \in Servers, e \in Deployments :
           (\A d \in D : target[d] # s) => (Holding(e, s)' <=> Holding(e, s))
  PROVE  Lease!Queue(target)
<1>1. /\ DOMAIN target = D
      /\ \A s \in Servers : s \in Range(target) <=> \E d \in D : target[d] = s
  BY DEF Range
<1>2. \A d \in D : depStatus[d] \notin Lease!Unsettled /\ HoldersFn[target[d]] = {}
  BY HoldersAre DEF HoldersFn, IsActive, Active, Lease!Unsettled
<1>3. \A s \in Servers : Holders(s)' = IF s \in Range(target) THEN {d \in D : target[d] = s} ELSE Holders(s)
  <2>1. ASSUME NEW s \in Servers, NEW d \in D, target[d] = s
        PROVE  Holders(s)' = {d} /\ {e \in D : target[e] = s} = {d}
    BY <2>1, HoldersAreNext DEF IsInjective
  <2>2. ASSUME NEW s \in Servers, \A d \in D : target[d] # s
        PROVE  Holders(s)' = Holders(s)
    BY <2>2, HoldersAre, HoldersAreNext
  <2> QED
    BY <1>1, <2>1, <2>2
<1>4. Lease!IsInjective(target) /\ Lease!Range(target) = Range(target)
  BY DEF IsInjective, Range, Lease!IsInjective, Lease!Range
<1>5. HoldersFn' = [s \in Servers |-> IF s \in Range(target) THEN {d \in D : target[d] = s} ELSE HoldersFn[s]]
  BY <1>3 DEF HoldersFn
<1> QED
  BY <1>1, <1>2, <1>4, <1>5 DEF Lease!Queue, Lease!Free, HoldersFn

Refined == Lease!Next \/ UNCHANGED <<depStatus, HoldersFn>>

LEMMA CreateRefines ==
  ASSUME LeaseInv, LeaseInv', CreateStep
  PROVE  Refined
<1> USE DEF LeaseInv, TypeInv, TypeOK, ApiTypeOK
<1>0. PICK D \in SUBSET Deployments : \E target \in [D -> Servers] : Creates(D, target)
  BY CreateEffect
<1>1. PICK target \in [D -> Servers] : Creates(D, target)
  BY <1>0
<1>2. /\ DOMAIN target = D
      /\ \A s \in Servers : s \in Range(target) <=> \E d \in D : target[d] = s
  BY DEF Range
<1>3. /\ \A d \in D : depStatus[d] = "none" /\ serverStatus[target[d]] # "deploying"
      /\ \A d \in Deployments : /\ d \in D => IsActive(d)' /\ depServer'[d] = target[d]
                                /\ d \notin D => /\ depStatus'[d] = depStatus[d]
                                                 /\ depServer'[d] = depServer[d]
  BY <1>1, <1>2 DEF Creates, CreateInTx, Deployable, DeployableStatuses, IsActive, Active
<1>4. \A r \in Runs : /\ OwedBy(r)' <=> OwedBy(r)
                      /\ OwedBy(r) => runDep'[r] = runDep[r] /\ runDep[r] \in Deployments \ D
  BY <1>1, <1>3 DEF Creates, OwedBy, Releasing, RunsLinked
<1>5. /\ UNCHANGED req
      /\ \A q \in Requests : OwedByRequest(q) => req[q].dep \in Deployments \ D
  BY <1>1, <1>3 DEF Creates, OwedByRequest, RequestsLinked, requestVars
<1>6. \A d \in D : ~IsActive(d)
  BY <1>3 DEF IsActive, Active
<1>7. \A d \in D, e \in Deployments : ~Holding(e, target[d])
  BY <1>3 DEF Holding, HeldIsDeploying, ActiveHoldsServer, IsActive
<1>8. \A e \in Deployments \ D, s \in Servers : Holding(e, s)' <=> Holding(e, s)
  BY <1>3, <1>4, <1>5 DEF Holding, IsActive, OwedByRequest
<1>9. \A e \in D, s \in Servers : (Holding(e, s)' <=> target[e] = s) /\ ~Holding(e, s)
  BY <1>3, <1>4, <1>5, <1>6 DEF Holding, OwedByRequest
<1>10. \A d \in D, e \in Deployments : Holding(e, target[d])' <=> e = d
  BY <1>1, <1>7, <1>8, <1>9 DEF Creates, IsInjective
<1>11. \A s \in Servers, e \in Deployments :
         (\A d \in D : target[d] # s) => (Holding(e, s)' <=> Holding(e, s))
  BY <1>8, <1>9
<1>12. depStatus' = [d \in Deployments |-> IF d \in D THEN "pending" ELSE depStatus[d]]
  BY <1>1, <1>2 DEF Creates, CreateInTx
<1>13. Lease!Queue(target)
  BY <1>1, <1>6, <1>7, <1>10, <1>11, <1>12, Queued DEF Creates
<1> QED
  BY <1>13 DEF Refined, Lease!Next

LEMMA RequestRefines ==
  ASSUME Edits = {}, LeaseInv, LeaseInv', NEW q \in Requests, RequestStep(q)
  PROVE  Refined
<1> USE DEF LeaseInv, TypeInv, TypeOK, ApiTypeOK, Idle, RequestType, Holding,
            OwedBy, OwedByRequest, RunsLinked, RequestsLinked, RowsLinked
<1>1. ASSUME NEW d \in Deployments, CancelDeployment(q, d) PROVE Refined
  <2>1. UNCHANGED HoldersFn
    BY <1>1, SameHolders DEF CancelDeployment, IsActive, Active
  <2>2. Lease!Settle(d, "cancelled")
    BY <1>1, <2>1 DEF CancelDeployment, Active, Lease!Settle, Lease!Unsettled, HoldersFn
  <2> QED
    BY <2>2 DEF Refined, Lease!Next
<1>2. ASSUME NEW d \in Deployments, RetryRead(q, d) PROVE Refined
  BY <1>2, SameHolders DEF RetryRead, IsActive, Refined
<1>3. CASE CancelReadServer(q)
  BY <1>3, SameHolders DEF CancelReadServer, HeldIsDeploying, IsActive, Refined
<1>4. CASE CancelWriteServer(q)
  <2>1. PICK c \in Deployments, s \in Servers : c = req[q].dep /\ s = depServer[c]
    BY <1>4 DEF CancelWriteServer
  <2>2. /\ \A d \in Deployments : depServer[d] = s => ~IsActive(d)
        /\ \A r \in Runs : OwedBy(r) => depServer[runDep[r]] # s
        /\ \A p \in Requests \ {q} : OwedByRequest(p) => depServer[req[p].dep] # s
    BY <1>4, <2>1 DEF CancelWriteServer, Exclusive
  <2>3. /\ UNCHANGED <<depStatus, depServer, runPc, runDep>>
        /\ ~OwedByRequest(q)'
        /\ \A p \in Requests \ {q} : req'[p] = req[p]
    BY <1>4 DEF CancelWriteServer
  <2>4. \A d \in Deployments, t \in Servers \ {s} : Holding(d, t)' <=> Holding(d, t)
    BY <2>1, <2>3 DEF IsActive
  <2>5. \A d \in Deployments : ~Holding(d, s)'
    BY <2>2, <2>3 DEF IsActive
  <2>6. Lease!Release(s)
    BY <2>2, <2>3, <2>4, <2>5, Released
  <2> QED
    BY <2>6 DEF Refined, Lease!Next
<1>5. ASSUME NEW r \in Runs, RetryCommit(q, r) PROVE Refined
  <2>1. PICK d \in Deployments, s \in Servers : d = req[q].dep /\ s = depServer[d]
    BY <1>5 DEF RetryCommit
  <2>2. /\ serverStatus[s] # "deploying"
        /\ depStatus' = [depStatus EXCEPT ![d] = "pending"]
        /\ depServer' = depServer
    BY <1>5, <2>1 DEF RetryCommit, Deployable, DeployableStatuses
  <2>3. \A e \in Deployments : ~Holding(e, s)
    BY <2>2 DEF HeldIsDeploying, ActiveHoldsServer, IsActive
  <2>4. ~IsActive(d)
    BY <2>1, <2>3
  <2>5. /\ \A x \in Runs : /\ OwedBy(x)' <=> OwedBy(x)
                           /\ OwedBy(x) => runDep'[x] = runDep[x]
        /\ \A p \in Requests : /\ OwedByRequest(p)' <=> OwedByRequest(p)
                               /\ OwedByRequest(p) => req'[p] = req[p]
    BY <1>5 DEF RetryCommit, StartDeployment, Releasing
  <2>6. \A e \in Deployments \ {d}, t \in Servers : Holding(e, t)' <=> Holding(e, t)
    BY <2>2, <2>5 DEF IsActive
  <2>7. IsActive(d)' /\ \A t \in Servers : (Holding(d, t)' <=> t = s) /\ (Holding(d, t) => t = s)
    BY <2>1, <2>2 DEF IsActive, Active
  <2>8. PICK target \in [{d} -> Servers] : IsInjective(target) /\ target[d] = s
    <3>1. [x \in {d} |-> s] \in [{d} -> Servers] /\ IsInjective([x \in {d} |-> s])
      BY DEF IsInjective
    <3> QED
      BY <3>1
  <2>9. depStatus' = [e \in Deployments |-> IF e \in {d} THEN "pending" ELSE depStatus[e]]
    BY <2>2
  <2>10. Lease!Queue(target)
    <3>0. TypeInv /\ TypeInv'
      OBVIOUS
    <3> HIDE DEF Holding, TypeInv, OwedBy, OwedByRequest
    <3>1. {d} \in SUBSET Deployments /\ \A x \in {d} : ~IsActive(x)
      BY <2>4
    <3>2. \A x \in {d}, e \in Deployments : /\ ~Holding(e, target[x])
                                            /\ Holding(e, target[x])' <=> e = x
      BY <2>3, <2>6, <2>7, <2>8
    <3>3. \A t \in Servers, e \in Deployments :
            (\A x \in {d} : target[x] # t) => (Holding(e, t)' <=> Holding(e, t))
      BY <2>6, <2>7, <2>8
    <3> QED
      BY <2>8, <2>9, <3>0, <3>1, <3>2, <3>3, Queued
  <2> QED
    BY <2>8, <2>10 DEF Refined, Lease!Next
<1>6. CASE RetryRefused(q)
  BY <1>6, SameHolders DEF RetryRefused, IsActive, Refined
<1>7. ~SaveServer(q)
  BY DEF SaveServer, NoEditing
<1> QED
  BY <1>1, <1>2, <1>3, <1>4, <1>5, <1>6, <1>7
  DEF RequestStep, UpdateServer, RetireServer, ScrapServer

(* A goroutine that gives its server back: nobody else held it.              *)
LEMMA RunReleases ==
  ASSUME LeaseInv, LeaseInv', NEW r \in Runs, OwedBy(r), ~OwedBy(r)',
         UNCHANGED <<depStatus, depServer, runDep, req>>,
         \A t \in Runs \ {r} : runPc'[t] = runPc[t]
  PROVE  Refined
<1> USE DEF LeaseInv, TypeInv, TypeOK, ApiTypeOK, Holding, OwedBy, OwedByRequest
<1>1. PICK c \in Deployments, s \in Servers : c = runDep[r] /\ s = depServer[c]
  BY DEF RunsLinked, RowsLinked, Releasing
<1>2. /\ \A d \in Deployments : depServer[d] = s => ~IsActive(d)
      /\ \A t \in Runs \ {r} : OwedBy(t) => depServer[runDep[t]] # s
      /\ \A q \in Requests : OwedByRequest(q) => depServer[req[q].dep] # s
  BY <1>1 DEF Exclusive
<1>3. \A d \in Deployments, t \in Servers \ {s} : Holding(d, t)' <=> Holding(d, t)
  BY <1>1 DEF IsActive
<1>4. \A d \in Deployments : ~Holding(d, s)'
  BY <1>2 DEF IsActive
<1>5. Lease!Release(s)
  BY <1>2, <1>3, <1>4, Released
<1> QED
  BY <1>5 DEF Refined, Lease!Next

(* A goroutine that settles its deployment still owes the server a status,   *)
(* so the deployment goes on holding it.                                     *)
LEMMA RunSettles ==
  ASSUME LeaseInv, LeaseInv', NEW r \in Runs, NEW outcome \in {"success", "failed"},
         OwedBy(r)', ~OwedBy(r), depStatus[runDep[r]] = "running",
         runDep[r] \in Deployments,
         depStatus' = [depStatus EXCEPT ![runDep[r]] = outcome],
         UNCHANGED <<depServer, runDep, req>>,
         \A t \in Runs \ {r} : runPc'[t] = runPc[t]
  PROVE  Refined
<1>1. UNCHANGED HoldersFn
  BY SameHolders
  DEF LeaseInv, TypeInv, TypeOK, ApiTypeOK, Holding, OwedBy, OwedByRequest, IsActive, Active
<1>2. Lease!Settle(runDep[r], outcome)
  BY <1>1 DEF Lease!Settle, HoldersFn
<1> QED
  BY <1>2 DEF Refined, Lease!Next

LEMMA RunRefines ==
  ASSUME LeaseInv, LeaseInv', NEW r \in Runs, RunStep(r)
  PROVE  Refined
<1> USE DEF LeaseInv, TypeInv, TypeOK, ApiTypeOK, Holding, OwedBy, OwedByRequest, Releasing,
            At, Goto, SetDeployment, SetServer, requestVars, RunsLinked
<1>1. CASE AcquireSlot(r) \/ Begin(r) \/ StartStep(r) \/ EndStep(r) \/ FinishWorkflow(r) \/ FailWorkflow(r)
  BY <1>1, SameHolders
  DEF AcquireSlot, Begin, StartStep, EndStep, FinishWorkflow, FailWorkflow, IsActive, Refined
<1>2. CASE MarkRunning(r)
  <2>1. UNCHANGED HoldersFn
    BY <1>2, SameHolders DEF MarkRunning, IsActive, Active
  <2>2. CASE depStatus[runDep[r]] = "pending"
    BY <1>2, <2>1, <2>2 DEF MarkRunning, Refined, Lease!Next, Lease!Start, HoldersFn
  <2>3. CASE depStatus[runDep[r]] # "pending"
    BY <1>2, <2>1, <2>3 DEF MarkRunning, Refined
  <2> QED
    BY <2>2, <2>3
<1>3. CASE FinishDeployment(r)
  <2>1. CASE depStatus[runDep[r]] = "running"
    BY <1>3, <2>1, RunSettles DEF FinishDeployment
  <2>2. CASE depStatus[runDep[r]] # "running"
    BY <1>3, <2>2, SameHolders DEF FinishDeployment, IsActive, Refined
  <2> QED
    BY <2>1, <2>2
<1>4. CASE FailDeployment(r)
  <2>1. CASE depStatus[runDep[r]] = "running"
    BY <1>4, <2>1, RunSettles DEF FailDeployment
  <2>2. CASE depStatus[runDep[r]] # "running"
    BY <1>4, <2>2, SameHolders DEF FailDeployment, IsActive, Refined
  <2> QED
    BY <2>1, <2>2
<1>5. CASE FailReadServer(r)
  BY <1>5, SameHolders DEF FailReadServer, HeldIsDeploying, IsActive, Refined
<1>6. CASE WriteServerRunning(r) \/ FailWriteServer(r)
  BY <1>6, RunReleases DEF WriteServerRunning, FailWriteServer
<1> QED
  BY <1>1, <1>2, <1>3, <1>4, <1>5, <1>6 DEF RunStep

LEMMA ProcessRefines ==
  ASSUME ~MayCrash, LeaseInv, LeaseInv', ProcessStep \/ \E d \in Deployments : StartupLeave(d)
  PROVE  Refined
<1> USE DEF LeaseInv, TypeInv, TypeOK, ApiTypeOK, Holding, OwedBy, OwedByRequest, Releasing, IsActive
<1>1. ~Crash
  BY DEF Crash
<1>2. CASE Boot
  BY <1>2, SameHolders DEF Boot, Refined
<1>3. ASSUME NEW d \in Deployments, NEW r \in Runs, StartupResume(d, r) PROVE Refined
  BY <1>3, SameHolders DEF StartupResume, StartDeployment, Refined
<1>4. ASSUME NEW d \in Deployments, StartupLeave(d) PROVE Refined
  BY <1>4, SameHolders DEF StartupLeave, Refined
<1> QED
  BY <1>1, <1>2, <1>3, <1>4 DEF ProcessStep

LEMMA NextRefines ==
  ASSUME Edits = {}, ~MayCrash, LeaseInv, LeaseInv', [Next]_vars
  PROVE  [Lease!Next]_(Lease!leaseVars)
<1>1. CASE UNCHANGED vars
  BY <1>1, SameHolders
  DEF vars, apiVars, LeaseInv, Holding, OwedBy, OwedByRequest, IsActive, Lease!leaseVars, HoldersFn
<1>2. CASE Refined
  BY <1>2 DEF Refined, Lease!leaseVars, HoldersFn
<1> QED
  BY <1>1, <1>2, CreateRefines, RequestRefines, RunRefines, ProcessRefines DEF Next, ApiNext

LEMMA InitRefines == Init => Lease!Init
BY HoldersAre, InitTypeInv
DEF Init, ApiInit, Lease!Init, Holding, IsActive, OwedBy, OwedByRequest, Active, Releasing, Idle

(* The handlers and goroutines implement the exclusive lease: a deployment   *)
(* is queued only for a server nobody holds, settles at most once per        *)
(* attempt, and the server is given back only when every deployment that     *)
(* held it has settled.  Operators do not edit server rows and the process   *)
(* does not die; DeploymentHostile shows what is left without that.          *)
THEOREM LeaseImplemented == ASSUME Edits = {}, ~MayCrash PROVE Spec => ImplementsLease
<1>1. Init => Lease!Init
  BY InitRefines
<1>2. LeaseInv /\ LeaseInv' /\ [Next]_vars => [Lease!Next]_(Lease!leaseVars)
  BY NextRefines
<1> QED
  BY <1>1, <1>2, LeaseCorrect, PTL DEF Spec, ImplementsLease, Lease!Spec

================================================================================
