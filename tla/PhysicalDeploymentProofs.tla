----------------------- MODULE PhysicalDeploymentProofs -----------------------
(***************************************************************************)
(* Proofs about deployments to servers without a BMC, for any number of    *)
(* servers, deployments, goroutines, requests and lookers.                 *)
(***************************************************************************)
EXTENDS PhysicalDeployment, NaturalsInduction, WellFoundedInduction, TLAPS

USE ApiAssumption, PhysicalAssumption

(***************************************************************************)
(* What ties the rows, goroutines, requests and ReconcileDeployment calls  *)
(* to each other.  A goroutine keeps its deployment for good, so that an   *)
(* instant or a workflow row named by it speaks of that deployment.        *)
(***************************************************************************)
RowsLinked ==
  /\ \A d \in Deployments : depStatus[d] # "none" => depServer[d] \in Servers
  /\ \A d \in Deployments : d \in starting => depStatus[d] # "none"
RunsLinked ==
  \A r \in Runs : runPc[r] # "unused" => runDep[r] \in Deployments /\ depStatus[runDep[r]] # "none"
RequestsLinked ==
  \A q \in Requests :
    /\ req[q].op \in {"cancel_read", "cancel_write", "retry"} =>
         req[q].dep \in Deployments /\ depStatus[req[q].dep] # "none"
    /\ req[q].op = "edit" => req[q].server \in Servers

RunOf(r, d) == r \in Runs /\ runPc[r] # "unused" /\ runDep[r] = d

LinkedCall(c) ==
  /\ c.pc = "find" => c.server \in Servers
  /\ c.pc \notin {"idle", "find"} => c.dep \in Deployments /\ depStatus[c.dep] # "none"
  /\ c.pc = "wf_write" => RunOf(c.wf, c.dep) /\ c.wf \in tasked
  /\ c.pc = "wf" /\ c.since # NoRun => RunOf(c.since, c.dep)

CallsLinked == \A x \in Callers : LinkedCall(rec[x])

(* A row is opened and an attempt starts before its goroutine has tasks.    *)
AttemptsLinked ==
  \A d \in Deployments : startedAt[d] # NoRun =>
    RunOf(startedAt[d], d) /\ runPc[startedAt[d]] \notin {"slot", "begin", "mark"}
StartsLinked ==
  /\ AttemptsLinked
  /\ \A r \in tasked : runPc[r] \in {"reconcile", "done"}
  /\ \A i \in DOMAIN wfRows : runPc[wfRows[i]] # "unused"

TypeInv == TypeOK /\ RowsLinked /\ RunsLinked /\ RequestsLinked /\ CallsLinked /\ StartsLinked
-----------------------------------------------------------------------------
(* Evidence since a goroutine's instant is evidence since its deployment.  *)
InstantsImply ==
  \A r \in Runs : /\ r \in labbed => runPc[r] # "unused" /\ runDep[r] \in labbed
                  /\ r \in checked => runPc[r] # "unused" /\ runDep[r] \in checked

Proved(d) == d \in booted /\ Accessed(d) /\ d \in labbed \union checked
Known(d) == d \in Deployments /\ depStatus[d] # "none"

EvidenceInv ==
  /\ InstantsImply
  /\ \A e \in accessed : Known(e)
  /\ \A x \in Callers : rec[x].pc \in {"wf_write", "dep_write"} => Proved(rec[x].dep)
  /\ SuccessHasEvidence
-----------------------------------------------------------------------------
Opened(r) == wfStatus[r] = "running" /\ \E i \in DOMAIN wfRows : wfRows[i] = r
Settling(d) == \E x \in Callers : rec[x].pc = "dep_write" /\ rec[x].dep = d

SettleInv ==
  /\ up
  /\ \A r \in Runs : runPc[r] = "mark" => Opened(r)
  /\ \A d \in Deployments : depStatus[d] = "running" => Opened(startedAt[d]) \/ Settling(d)
-----------------------------------------------------------------------------
AtMostOneActive ==
  \A d, e \in Deployments :
    depStatus[d] \in Active /\ depStatus[e] \in Active /\ depServer[d] = depServer[e] => d = e
OwedBy(x) == rec[x].pc = "server_write"              \* call x owes its server a status
OwedByRequest(q) == req[q].op \in {"cancel_read", "cancel_write"}
IsActive(d) == depStatus[d] \in Active

Exclusive ==
  /\ AtMostOneActive
  /\ \A x \in Callers, d \in Deployments :
       OwedBy(x) /\ IsActive(d) => depServer[d] # depServer[rec[x].dep]
  /\ \A q \in Requests, d \in Deployments :
       OwedByRequest(q) /\ IsActive(d) => depServer[d] # depServer[req[q].dep]
  /\ \A x, y \in Callers :
       OwedBy(x) /\ OwedBy(y) /\ depServer[rec[x].dep] = depServer[rec[y].dep] => x = y
  /\ \A q, p \in Requests :
       OwedByRequest(q) /\ OwedByRequest(p) /\ depServer[req[q].dep] = depServer[req[p].dep] => q = p
  /\ \A x \in Callers, q \in Requests :
       OwedBy(x) /\ OwedByRequest(q) => depServer[rec[x].dep] # depServer[req[q].dep]

HeldIsDeploying ==
  /\ ActiveHoldsServer
  /\ \A x \in Callers : OwedBy(x) => serverStatus[depServer[rec[x].dep]] = "deploying"
  /\ \A q \in Requests : OwedByRequest(q) => serverStatus[depServer[req[q].dep]] = "deploying"

NoEditing == \A q \in Requests : req[q].op # "edit"

LeaseInv == TypeInv /\ NoEditing /\ Exclusive /\ HeldIsDeploying

CallType == [pc : RecPcs, dep : Deployments \union {NoDeployment}, server : Servers \union {NoServer},
             since : Runs \union {NoRun}, wf : Runs \union {NoRun}]

(* The records the calls are made of.                                       *)
LEMMA NoCallTyped ==
  NoCall \in CallType /\ NoCall.pc = "idle" /\ NoCall.dep = NoDeployment /\ NoCall.server = NoServer
    /\ NoCall.since = NoRun /\ NoCall.wf = NoRun
BY DEF NoCall, CallType, RecPcs

(* A bounded set of numbers has a greatest.                                 *)
LEMMA GreatestOf ==
  ASSUME NEW n \in Nat, NEW T \in SUBSET (1..n), T # {}
  PROVE  \E i \in T : \A j \in T : j <= i
<1> DEFINE R == {pair \in Nat \X Nat : pair[1] < pair[2]}
           U == {n - i : i \in T}
<1>1. IsWellFoundedOn(R, Nat)
  BY NatLessThanWellFounded DEF OpToRel
<1>2. U \in SUBSET Nat /\ U # {}
  <2>1. \A i \in T : n - i \in Nat
    OBVIOUS
  <2> QED
    BY <2>1
<1>3. PICK u \in U : \A v \in U : ~(<<v, u>> \in R)
  <2> HIDE DEF R, U
  <2> QED
    BY <1>1, <1>2, WFMin
<1>4. \A v \in U : ~(v < u)
  BY <1>2, <1>3
<1>5. PICK i \in T : u = n - i
  BY <1>3
<1>6. \A j \in T : j <= i
  <2>1. \A j \in T : n - j \in U
    OBVIOUS
  <2> HIDE DEF U
  <2>2. \A j \in T : ~(n - j < n - i)
    BY <1>4, <1>5, <2>1
  <2> QED
    BY <2>2
<1> QED
  BY <1>6

LEMMA NewestIs ==
  ASSUME TypeInv, NEW d \in Deployments, RunningRows(d) # {}
  PROVE  RunOf(Newest(d), d) /\ Opened(Newest(d))
<1>1. wfRows \in Seq(Runs) /\ DOMAIN wfRows = 1..Len(wfRows) /\ Len(wfRows) \in Nat
  BY DEF TypeInv, TypeOK
<1>2. RunningRows(d) \in SUBSET (1..Len(wfRows))
  BY <1>1 DEF RunningRows
<1>3. \E i \in RunningRows(d) : \A j \in RunningRows(d) : j <= i
  BY <1>1, <1>2, GreatestOf
<1>4. PICK i \in RunningRows(d) : Newest(d) = wfRows[i]
  BY <1>3 DEF Newest
<1>5. wfRows[i] \in Runs
  BY <1>1, <1>2
<1> QED
  BY <1>4, <1>5 DEF RunningRows, RunOf, Opened, TypeInv, StartsLinked

-----------------------------------------------------------------------------
(***************************************************************************)
(* What the API handlers and the process may do to what a goroutine or a   *)
(* call relies on.                                                         *)
(***************************************************************************)

(* What both forms of creation do: the rows are queued for distinct free     *)
(* servers and each is given a goroutine that has not been started before.   *)
Creates(D, target) ==
  /\ IsInjective(target)
  /\ CreateInTx(target)
  /\ \A r \in Runs : \/ runPc'[r] = runPc[r] /\ runDep'[r] = runDep[r]
                     \/ runPc[r] = "unused" /\ runPc'[r] = "slot" /\ runDep'[r] \in D
  /\ runPc' \in [Runs -> RunPcs] /\ runDep' \in [Runs -> Deployments \union {NoDeployment}]
  /\ UNCHANGED <<wfStatus, requestVars>>

LEMMA CreateEffect ==
  ASSUME TypeInv, CreateStep
  PROVE  \E D \in SUBSET Deployments : \E target \in [D -> Servers] : Creates(D, target)
<1> USE DEF TypeInv, TypeOK, ApiTypeOK
<1>1. ASSUME NEW d \in Deployments, NEW s \in Servers, NEW r \in Runs, CreateDeployment(d, s, r)
      PROVE  \E D \in SUBSET Deployments : \E target \in [D -> Servers] : Creates(D, target)
  <2>1. {d} \in SUBSET Deployments /\ [x \in {d} |-> s] \in [{d} -> Servers]
    OBVIOUS
  <2>2. Creates({d}, [x \in {d} |-> s])
    BY <1>1 DEF CreateDeployment, StartDeployment, Creates, IsInjective, RunPcs
  <2> QED
    BY <2>1, <2>2
<1>2. ASSUME NEW D \in SUBSET Deployments, NEW target \in [D -> Servers],
             NEW job \in Injection(D, Runs), CreateDeploymentBatch(target, job)
      PROVE  Creates(D, target)
  <2>1. DOMAIN target = D /\ DOMAIN job = D
    BY DEF Injection
  <2>2. \A r \in Range(job) : r \in Runs /\ runPc[r] = "unused" /\ (CHOOSE x \in DOMAIN job : job[x] = r) \in D
    BY <1>2, <2>1 DEF CreateDeploymentBatch, StartDeployments, Range, Injection, IsInjective
  <2> QED
    BY <1>2, <2>1, <2>2 DEF CreateDeploymentBatch, StartDeployments, Creates, RunPcs
<1> QED
  BY <1>1, <1>2 DEF CreateStep

(* A goroutine in use keeps its deployment, a row its server; a deployment   *)
(* becomes pending, or cancelled if it was active, and nothing else.         *)
ApiKept ==
  /\ \A r \in Runs : \/ runPc[r] # "unused" /\ runDep'[r] = runDep[r] /\ runPc'[r] \in {runPc[r], "done"}
                     \/ runPc[r] = "unused" /\ runPc'[r] \in {"unused", "slot"}
  /\ \A d \in Deployments : depStatus[d] # "none" => depStatus'[d] # "none" /\ depServer'[d] = depServer[d]
  /\ \A d \in Deployments : depStatus'[d] \in {depStatus[d], "pending", "cancelled"}
  /\ UNCHANGED wfStatus

LinksKept == ApiTypeOK /\ runPc \in [Runs -> RunPcs] /\ RowsLinked /\ RunsLinked /\ RequestsLinked

LEMMA CreateKeeps ==
  ASSUME TypeInv, CreateStep
  PROVE  ApiKept /\ LinksKept'
<1> USE DEF TypeInv, TypeOK, ApiTypeOK
<1>0. PICK D \in SUBSET Deployments : \E target \in [D -> Servers] : Creates(D, target)
  BY CreateEffect
<1>1. PICK target \in [D -> Servers] : Creates(D, target)
  BY <1>0
<1>2. /\ DOMAIN target = D /\ \A d \in D : target[d] \in Servers
      /\ \A d \in D : depStatus[d] = "none"
      /\ \A d \in Deployments : depStatus'[d] = IF d \in D THEN "pending" ELSE depStatus[d]
      /\ \A d \in Deployments : depServer'[d] = IF d \in D THEN target[d] ELSE depServer[d]
  BY <1>1 DEF Creates, CreateInTx
<1>3. ApiKept
  BY <1>1, <1>2 DEF Creates, ApiKept
<1>4. ApiTypeOK' /\ runPc' \in [Runs -> RunPcs]
  BY <1>1 DEF Creates, CreateInTx, requestVars, ServerStatuses, DepStatuses, Active, Settled
<1>5. RowsLinked'
  BY <1>1, <1>2 DEF Creates, requestVars, RowsLinked
<1>6. RunsLinked'
  BY <1>1, <1>2 DEF Creates, RunsLinked
<1>7. RequestsLinked'
  BY <1>1, <1>2 DEF Creates, RequestsLinked, requestVars
<1> QED
  BY <1>3, <1>4, <1>5, <1>6, <1>7 DEF LinksKept

(* The records the requests are made of.                                    *)
LEMMA RequestMade ==
  /\ Idle \in RequestType /\ Idle.op = "idle"
  /\ \A op \in {"cancel_read", "retry"}, d \in Deployments :
       LET c == [Idle EXCEPT !.op = op, !.dep = d] IN c \in RequestType /\ c.op = op /\ c.dep = d
  /\ \A s \in Servers, st \in ServerStatuses :
       LET c == [Idle EXCEPT !.op = "edit", !.server = s, !.status = st]
       IN  c \in RequestType /\ c.op = "edit" /\ c.server = s
  /\ \A c \in RequestType :
       LET e == [c EXCEPT !.op = "cancel_write"] IN e \in RequestType /\ e.op = "cancel_write" /\ e.dep = c.dep
BY DEF Idle, RequestType, ServerStatuses

(* A request that goes on, to a deployment or server that is there.          *)
LEMMA RequestMoves ==
  ASSUME TypeInv, NEW q \in Requests, NEW c \in RequestType, req' = [req EXCEPT ![q] = c],
         UNCHANGED <<depServer, wfStatus, processVars>>,
         serverStatus' \in [Servers -> ServerStatuses],
         NEW d \in Deployments, depStatus[d] # "none",
         \/ depStatus' = depStatus
         \/ depStatus' = [depStatus EXCEPT ![d] = "cancelled"]
         \/ depStatus' = [depStatus EXCEPT ![d] = "pending"],
         \/ UNCHANGED <<runPc, runDep>>
         \/ \E r \in Runs : StartDeployment(d, r),
         c.op \in {"cancel_read", "cancel_write", "retry"} => c.dep \in Deployments /\ depStatus[c.dep] # "none",
         c.op = "edit" => c.server \in Servers
  PROVE  ApiKept /\ LinksKept'
<1>0. /\ runPc \in [Runs -> RunPcs] /\ runDep \in [Runs -> Deployments \union {NoDeployment}]
      /\ req \in [Requests -> RequestType] /\ depStatus \in [Deployments -> DepStatuses]
  BY DEF TypeInv, TypeOK, ApiTypeOK
<1>1. /\ runPc' \in [Runs -> RunPcs] /\ runDep' \in [Runs -> Deployments \union {NoDeployment}]
      /\ \A r \in Runs : \/ runPc'[r] = runPc[r] /\ runDep'[r] = runDep[r]
                         \/ runPc[r] = "unused" /\ runPc'[r] = "slot" /\ runDep'[r] = d
  <2>1. CASE UNCHANGED <<runPc, runDep>>
    BY <1>0, <2>1
  <2>2. ASSUME NEW r \in Runs, StartDeployment(d, r)
        PROVE  /\ runPc' \in [Runs -> RunPcs] /\ runDep' \in [Runs -> Deployments \union {NoDeployment}]
               /\ \A t \in Runs : \/ runPc'[t] = runPc[t] /\ runDep'[t] = runDep[t]
                                  \/ runPc[t] = "unused" /\ runPc'[t] = "slot" /\ runDep'[t] = d
    BY <1>0, <2>2 DEF StartDeployment, RunPcs
  <2> QED
    BY <2>1, <2>2
<1>2. /\ depStatus' \in [Deployments -> DepStatuses]
      /\ \A e \in Deployments : /\ depStatus[e] # "none" => depStatus'[e] # "none"
                                /\ depStatus'[e] \in {depStatus[e], "pending", "cancelled"}
  BY <1>0 DEF DepStatuses, Active, Settled
<1>3. ApiKept
  BY <1>1, <1>2 DEF ApiKept, TypeInv
<1>4. req' \in [Requests -> RequestType] /\ \A p \in Requests : req'[p] = IF p = q THEN c ELSE req[p]
  BY <1>0
<1>5. RowsLinked' /\ RunsLinked' /\ RequestsLinked'
  BY <1>1, <1>2, <1>4 DEF RowsLinked, RunsLinked, RequestsLinked, TypeInv, processVars
<1> QED
  BY <1>1, <1>2, <1>3, <1>4, <1>5 DEF LinksKept, processVars, TypeInv, TypeOK, ApiTypeOK

LEMMA RequestKeeps ==
  ASSUME TypeInv, NEW q \in Requests, RequestStep(q)
  PROVE  ApiKept /\ LinksKept'
<1>0. /\ req[q] \in RequestType /\ serverStatus \in [Servers -> ServerStatuses]
      /\ req[q].op \in {"cancel_read", "cancel_write", "retry"} =>
           req[q].dep \in Deployments /\ depStatus[req[q].dep] # "none" /\ depServer[req[q].dep] \in Servers
  BY DEF TypeInv, TypeOK, ApiTypeOK, RequestsLinked, RowsLinked
<1>1. ASSUME NEW d \in Deployments, CancelDeployment(q, d) PROVE ApiKept /\ LinksKept'
  <2>1. depStatus[d] # "none"
    BY <1>1 DEF CancelDeployment, Active
  <2> DEFINE c == [Idle EXCEPT !.op = "cancel_read", !.dep = d]
  <2>2. c \in RequestType /\ c.op = "cancel_read" /\ c.dep = d
    BY RequestMade
  <2>3. req' = [req EXCEPT ![q] = c]
    BY <1>1 DEF CancelDeployment
  <2> HIDE DEF c
  <2> QED
    BY <1>0, <1>1, <2>1, <2>2, <2>3, RequestMoves DEF CancelDeployment
<1>2. ASSUME NEW d \in Deployments, RetryRead(q, d) PROVE ApiKept /\ LinksKept'
  <2> DEFINE c == [Idle EXCEPT !.op = "retry", !.dep = d]
  <2>2. c \in RequestType /\ c.op = "retry" /\ c.dep = d
    BY RequestMade
  <2>3. req' = [req EXCEPT ![q] = c] /\ depStatus[d] # "none"
    BY <1>2 DEF RetryRead
  <2> HIDE DEF c
  <2> QED
    BY <1>0, <1>2, <2>2, <2>3, RequestMoves DEF RetryRead
<1>3. ASSUME CancelReadServer(q) PROVE ApiKept /\ LinksKept'
  <2> DEFINE c == IF serverStatus[depServer[req[q].dep]] = "deploying"
                  THEN [req[q] EXCEPT !.op = "cancel_write"] ELSE Idle
  <2>1. c \in RequestType /\ c.op \in {"idle", "cancel_write"} /\ (c.op = "cancel_write" => c.dep = req[q].dep)
    BY <1>0, RequestMade
  <2>2. req' = [req EXCEPT ![q] = c] /\ req[q].op = "cancel_read"
    BY <1>3 DEF CancelReadServer
  <2> HIDE DEF c
  <2> QED
    BY <1>0, <1>3, <2>1, <2>2, RequestMoves DEF CancelReadServer
<1>4. ASSUME CancelWriteServer(q) \/ (\E r \in Runs : RetryCommit(q, r)) \/ RetryRefused(q)
      PROVE  ApiKept /\ LinksKept'
  <2>1. /\ req' = [req EXCEPT ![q] = Idle] /\ req[q].op \in {"cancel_write", "retry"}
        /\ \/ depStatus' = depStatus
           \/ depStatus' = [depStatus EXCEPT ![req[q].dep] = "pending"]
        /\ \/ UNCHANGED <<runPc, runDep>>
           \/ \E r \in Runs : StartDeployment(req[q].dep, r)
        /\ UNCHANGED <<depServer, wfStatus, processVars>>
    BY <1>4 DEF CancelWriteServer, RetryCommit, RetryRefused
  <2>2. serverStatus' \in [Servers -> ServerStatuses]
    BY <1>0, <1>4 DEF CancelWriteServer, RetryCommit, RetryRefused, ServerStatuses
  <2>3. Idle \in RequestType /\ Idle.op = "idle"
    BY RequestMade
  <2> DEFINE d == req[q].dep
  <2>4. d \in Deployments /\ depStatus[d] # "none"
    BY <1>0, <2>1
  <2> QED
    BY <2>1, <2>2, <2>3, <2>4, RequestMoves
<1>5. ASSUME NEW s \in Servers, NEW st \in ServerStatuses, BeginEdit(q, s, st) PROVE ApiKept /\ LinksKept'
  <2> DEFINE c == [Idle EXCEPT !.op = "edit", !.server = s, !.status = st]
  <2>1. c \in RequestType /\ c.op = "edit" /\ c.server = s
    BY RequestMade
  <2>2. req' = [req EXCEPT ![q] = c]
    BY <1>5 DEF BeginEdit
  <2> HIDE DEF c
  <2> QED
    BY <1>5, <2>1, <2>2
    DEF BeginEdit, ApiKept, LinksKept, TypeInv, TypeOK, ApiTypeOK, RowsLinked, RunsLinked, RequestsLinked, processVars
<1>6. ASSUME SaveServer(q) PROVE ApiKept /\ LinksKept'
  <2>1. serverStatus' \in [Servers -> ServerStatuses] /\ req' = [req EXCEPT ![q] = Idle]
    BY <1>0, <1>6 DEF SaveServer, RequestType
  <2>2. Idle \in RequestType /\ Idle.op = "idle"
    BY RequestMade
  <2> QED
    BY <1>6, <2>1, <2>2
    DEF SaveServer, ApiKept, LinksKept, TypeInv, TypeOK, ApiTypeOK, RowsLinked, RunsLinked, RequestsLinked, processVars
<1> QED
  BY <1>1, <1>2, <1>3, <1>4, <1>5, <1>6
  DEF RequestStep, UpdateServer, RetireServer, ScrapServer, ServerStatuses

LEMMA ProcessKeeps ==
  ASSUME TypeInv, ProcessStep
  PROVE  ApiKept /\ LinksKept'
<1> USE DEF TypeInv, TypeOK, ApiTypeOK, RowsLinked, RunsLinked, RequestsLinked, LinksKept, ApiKept,
        RunPcs, RequestType, Idle
<1>1. CASE Crash
  BY <1>1 DEF Crash, ServerStatuses
<1>2. CASE Boot
  BY <1>2 DEF Boot, Active
<1>3. ASSUME NEW d \in Deployments, NEW r \in Runs, StartupResume(d, r) PROVE ApiKept /\ LinksKept'
  BY <1>3 DEF StartupResume, StartDeployment, ResumeAtBoot
<1> QED
  BY <1>1, <1>2, <1>3 DEF ProcessStep

LEMMA ApiKeeps ==
  ASSUME TypeInv, ApiNext
  PROVE  ApiKept /\ LinksKept'
BY CreateKeeps, RequestKeeps, ProcessKeeps DEF ApiNext

-----------------------------------------------------------------------------
(* Every step keeps what a call refers to.                                   *)
Stable ==
  /\ \A r \in Runs : runPc[r] # "unused" => runPc'[r] # "unused" /\ runDep'[r] = runDep[r]
  /\ \A d \in Deployments : depStatus[d] # "none" => depStatus'[d] # "none"
  /\ tasked \subseteq tasked'

LEMMA CallsStay ==
  ASSUME TypeInv, Stable, UNCHANGED rec
  PROVE  CallsLinked'
BY DEF Stable, CallsLinked, LinkedCall, RunOf, TypeInv, Callers

LEMMA CallMoves ==
  ASSUME TypeInv, Stable, NEW x \in Callers, NEW c \in CallType, LinkedCall(c), rec' = [rec EXCEPT ![x] = c]
  PROVE  CallsLinked' /\ rec' \in [Callers -> CallType] /\ \A y \in Callers : rec'[y] = IF y = x THEN c ELSE rec[y]
<1>1. rec \in [Callers -> CallType]
  BY DEF TypeInv, TypeOK, CallType
<1>2. rec' \in [Callers -> CallType] /\ \A y \in Callers : rec'[y] = IF y = x THEN c ELSE rec[y]
  BY <1>1
<1>3. CallsLinked'
  BY <1>2 DEF Stable, CallsLinked, LinkedCall, RunOf, TypeInv
<1> QED
  BY <1>2, <1>3

LEMMA AppendIs ==
  ASSUME NEW S, NEW s \in Seq(S), NEW e \in S
  PROVE  /\ Append(s, e) \in Seq(S)
         /\ \A i \in DOMAIN s : i \in DOMAIN Append(s, e) /\ Append(s, e)[i] = s[i]
         /\ \A i \in DOMAIN Append(s, e) : i \in DOMAIN s \/ Append(s, e)[i] = e
         /\ \E i \in DOMAIN Append(s, e) : Append(s, e)[i] = e
<1>1. /\ Append(s, e) \in Seq(S) /\ Len(s) \in Nat /\ Len(Append(s, e)) = Len(s) + 1
      /\ DOMAIN s = 1..Len(s) /\ DOMAIN Append(s, e) = 1..(Len(s) + 1)
      /\ Append(s, e)[Len(s) + 1] = e
  OBVIOUS
<1>2. \A i \in 1..Len(s) : Append(s, e)[i] = s[i]
  OBVIOUS
<1>3. Len(s) + 1 \in 1..(Len(s) + 1) /\ \A i \in 1..(Len(s) + 1) : i \in 1..Len(s) \/ i = Len(s) + 1
  BY <1>1
<1> QED
  BY <1>1, <1>2, <1>3

(* Goroutines, and what they write.                                          *)
LEMMA RunStepTypeInv ==
  ASSUME TypeInv, NEW r \in Runs, RunStep(r)
  PROVE  TypeInv'
<1>0. /\ runPc \in [Runs -> RunPcs] /\ wfStatus \in [Runs -> WfStatuses]
      /\ depStatus \in [Deployments -> DepStatuses]
      /\ startedAt \in [Deployments -> Runs \union {NoRun}]
      /\ wfRows \in Seq(Runs) /\ tasked \subseteq Runs
      /\ rec \in [Callers -> CallType]
      /\ runPc[r] # "unused" => runDep[r] \in Deployments /\ depStatus[runDep[r]] # "none"
      /\ r \in Callers
  BY DEF TypeInv, TypeOK, ApiTypeOK, RunsLinked, CallType, Callers
<1>1. /\ \E pc \in RunPcs \ {"unused", "slot"} : runPc' = [runPc EXCEPT ![r] = pc]
      /\ runPc[r] # "unused"
      /\ UNCHANGED <<serverStatus, depServer, runDep, requestVars, evidenceVars>>
  BY DEF RunStep, AcquireSlot, Begin, MarkRunning, CreateTasks, Return, Goto, At, RunPcs
<1>2. /\ depStatus' \in [Deployments -> DepStatuses]
      /\ startedAt' \in [Deployments -> Runs \union {NoRun}]
      /\ \A d \in Deployments : depStatus[d] # "none" => depStatus'[d] # "none"
  <2>1. CASE MarkRunning(r)
    BY <1>0, <2>1 DEF MarkRunning, DepStatuses, Active
  <2>2. CASE UNCHANGED <<depStatus, startedAt>>
    BY <1>0, <2>2
  <2> QED
    BY <2>1, <2>2 DEF RunStep, AcquireSlot, Begin, CreateTasks, Return
<1>2a. wfStatus' \in [Runs -> WfStatuses]
  <2>1. CASE MarkRunning(r) \/ Begin(r)
    BY <1>0, <2>1 DEF MarkRunning, Begin, WfStatuses
  <2>2. CASE UNCHANGED wfStatus
    BY <1>0, <2>2
  <2> QED
    BY <2>1, <2>2 DEF RunStep, AcquireSlot, CreateTasks, Return
<1>2b. /\ tasked' \subseteq Runs /\ tasked \subseteq tasked'
       /\ wfRows' \in Seq(Runs)
       /\ \A i \in DOMAIN wfRows' : (i \in DOMAIN wfRows /\ wfRows'[i] = wfRows[i]) \/ wfRows'[i] = r
  <2>1. \/ wfRows' = wfRows
        \/ wfRows' = Append(wfRows, r)
    BY DEF RunStep, AcquireSlot, Begin, MarkRunning, CreateTasks, Return
  <2>2. tasked' \in {tasked, tasked \union {r}}
    BY DEF RunStep, AcquireSlot, Begin, MarkRunning, CreateTasks, Return
  <2>3. CASE wfRows' = Append(wfRows, r)
    <3>1. /\ Append(wfRows, r) \in Seq(Runs)
          /\ \A i \in DOMAIN wfRows : Append(wfRows, r)[i] = wfRows[i]
          /\ \A i \in DOMAIN Append(wfRows, r) : i \in DOMAIN wfRows \/ Append(wfRows, r)[i] = r
      BY <1>0, AppendIs
    <3> QED
      BY <1>0, <2>2, <2>3, <3>1
  <2>4. CASE wfRows' = wfRows
    BY <1>0, <2>2, <2>4
  <2> QED
    BY <2>1, <2>3, <2>4
<1>3. runPc' \in [Runs -> RunPcs] /\ Stable
  BY <1>0, <1>1, <1>2, <1>2b DEF Stable
<1>4. rec' \in [Callers -> CallType] /\ CallsLinked'
  <2>1. CASE UNCHANGED rec
    BY <1>0, <1>3, <2>1, CallsStay
  <2>2. CASE CreateTasks(r)
    <3> DEFINE c == [NoCall EXCEPT !.pc = "dep", !.dep = runDep[r]]
    <3>1. c \in CallType /\ c.pc = "dep" /\ c.dep = runDep[r]
      BY <1>0, <1>1 DEF CallType, NoCall, RecPcs
    <3>2. rec' = [rec EXCEPT ![r] = c]
      BY <2>2 DEF CreateTasks
    <3> HIDE DEF c
    <3>3. LinkedCall(c)
      BY <1>0, <1>1, <3>1 DEF LinkedCall
    <3> QED
      BY <1>0, <1>3, <3>1, <3>2, <3>3, CallMoves
  <2> QED
    BY <2>1, <2>2 DEF RunStep, AcquireSlot, Begin, MarkRunning, Return
<1>5. RowsLinked' /\ RunsLinked' /\ RequestsLinked'
  <2>1. \A d \in Deployments : depStatus[d] = "none" => depStatus'[d] = "none"
    BY <1>0 DEF RunStep, AcquireSlot, Begin, MarkRunning, CreateTasks, Return
  <2>2. RowsLinked'
    BY <1>0, <1>1, <1>2, <2>1 DEF TypeInv, RowsLinked, requestVars
  <2>3. RunsLinked' /\ RequestsLinked'
    BY <1>0, <1>1, <1>2 DEF TypeInv, RunsLinked, RequestsLinked, requestVars
  <2> QED
    BY <2>2, <2>3
<1>6. \A d \in Deployments : /\ depStatus'[d] \in {"none", "pending"} => startedAt'[d] = NoRun
                             /\ depStatus'[d] \in {"running", "success"} => startedAt'[d] # NoRun
  BY <1>0 DEF RunStep, AcquireSlot, Begin, MarkRunning, CreateTasks, Return, TypeInv, TypeOK
<1>7. \A t \in tasked' : runPc'[t] \in {"reconcile", "done"}
  BY <1>0 DEF RunStep, AcquireSlot, Begin, MarkRunning, CreateTasks, Return, Goto, At, TypeInv, StartsLinked
<1>8. \A i \in DOMAIN wfRows' : runPc'[wfRows'[i]] # "unused"
  BY <1>0, <1>1, <1>2b DEF TypeInv, StartsLinked
<1>9. AttemptsLinked'
  <2>1. CASE UNCHANGED startedAt
    <3>1. runPc[r] \in {"slot", "begin", "mark"} \/ runPc'[r] \notin {"slot", "begin", "mark"}
      BY <1>0 DEF RunStep, AcquireSlot, Begin, MarkRunning, CreateTasks, Return, Goto, At
    <3> QED
      BY <1>0, <1>1, <2>1, <3>1 DEF TypeInv, StartsLinked, AttemptsLinked, RunOf
  <2>2. CASE MarkRunning(r) /\ startedAt' # startedAt
    <3>1. startedAt' = [startedAt EXCEPT ![runDep[r]] = r] /\ runPc' = [runPc EXCEPT ![r] = "tasks"]
      BY <2>2 DEF MarkRunning, Goto
    <3> QED
      BY <1>0, <1>1, <3>1 DEF TypeInv, StartsLinked, AttemptsLinked, RunOf
  <2> QED
    BY <2>1, <2>2 DEF RunStep, AcquireSlot, Begin, CreateTasks, Return
<1> QED
  BY <1>1, <1>2, <1>2a, <1>2b, <1>3, <1>4, <1>5, <1>6, <1>7, <1>8, <1>9
  DEF TypeInv, TypeOK, ApiTypeOK, StartsLinked, CallType, requestVars, evidenceVars

(* Calls of ReconcileDeployment, and the requests that make them.            *)
EvidenceTyped ==
  /\ booted \subseteq Deployments /\ accessed \subseteq Deployments
  /\ labbed \subseteq Deployments \union Runs /\ checked \subseteq Deployments \union Runs
  /\ sshOk \subseteq Servers

LEMMA CallStepTypeInv ==
  ASSUME TypeInv, NEW x \in Callers, NEW c \in CallType, LinkedCall(c), rec' = [rec EXCEPT ![x] = c],
         UNCHANGED <<depServer, runPc, runDep, req, up, wfRows, tasked, startedAt>>,
         starting' \subseteq starting, serverStatus' \in [Servers -> ServerStatuses],
         wfStatus' \in [Runs -> WfStatuses], EvidenceTyped',
         \/ UNCHANGED depStatus
         \/ \E d \in Deployments : depStatus[d] = "running" /\ depStatus' = [depStatus EXCEPT ![d] = "success"]
  PROVE  TypeInv'
<1>0. /\ depStatus \in [Deployments -> DepStatuses]
      /\ startedAt \in [Deployments -> Runs \union {NoRun}]
      /\ \A d \in Deployments : /\ depStatus[d] \in {"none", "pending"} => startedAt[d] = NoRun
                                /\ depStatus[d] \in {"running", "success"} => startedAt[d] # NoRun
  BY DEF TypeInv, TypeOK, ApiTypeOK
<1>1. /\ depStatus' \in [Deployments -> DepStatuses]
      /\ \A d \in Deployments : depStatus'[d] = depStatus[d] \/ (depStatus[d] = "running" /\ depStatus'[d] = "success")
  BY <1>0 DEF DepStatuses, Settled
<1>2. Stable
  BY <1>1 DEF Stable
<1>3. CallsLinked' /\ rec' \in [Callers -> CallType]
  BY <1>2, CallMoves
<1>4. \A d \in Deployments : /\ depStatus'[d] \in {"none", "pending"} => startedAt'[d] = NoRun
                             /\ depStatus'[d] \in {"running", "success"} => startedAt'[d] # NoRun
  BY <1>0, <1>1
<1>5. RowsLinked' /\ RunsLinked' /\ RequestsLinked'
  BY <1>1 DEF TypeInv, RowsLinked, RunsLinked, RequestsLinked
<1>6. StartsLinked'
  BY DEF TypeInv, StartsLinked, AttemptsLinked, RunOf
<1> QED
  BY <1>1, <1>3, <1>4, <1>5, <1>6 DEF TypeInv, TypeOK, ApiTypeOK, EvidenceTyped, CallType

(* A request that makes a call.                                              *)
LEMMA CallTypeInv ==
  ASSUME TypeInv, NEW x \in Callers, NEW pc \in {"boot", "dhcp", "find", "dep"},
         NEW d \in Deployments \union {NoDeployment}, NEW s \in Servers \union {NoServer}, Call(x, pc, d, s),
         pc = "find" => s \in Servers,
         pc # "find" => d \in Deployments /\ depStatus[d] # "none",
         UNCHANGED <<apiVars, wfRows, tasked, startedAt>>, EvidenceTyped'
  PROVE  TypeInv'
<1> DEFINE c == [NoCall EXCEPT !.pc = pc, !.dep = d, !.server = s]
<1>1. c \in CallType /\ c.pc = pc /\ c.dep = d /\ c.server = s
  <2>1. pc \in RecPcs
    BY DEF RecPcs
  <2> QED
    BY <2>1 DEF CallType, NoCall
<1>2. rec' = [rec EXCEPT ![x] = c]
  BY DEF Call
<1> HIDE DEF c
<1>3. LinkedCall(c)
  BY <1>1 DEF LinkedCall
<1>4. /\ starting' \subseteq starting /\ serverStatus' \in [Servers -> ServerStatuses]
      /\ wfStatus' \in [Runs -> WfStatuses]
      /\ UNCHANGED <<depServer, runPc, runDep, req, up, wfRows, tasked, startedAt, depStatus>>
  BY DEF apiVars, TypeInv, TypeOK, ApiTypeOK
<1> QED
  BY <1>1, <1>2, <1>3, <1>4, CallStepTypeInv

LEMMA StaysTypeInv ==
  ASSUME TypeInv, UNCHANGED <<apiVars, wfRows, tasked, startedAt, rec>>, EvidenceTyped'
  PROVE  TypeInv'
<1>1. CallsLinked'
  BY CallsStay DEF apiVars, Stable
<1>2. RowsLinked' /\ RunsLinked' /\ RequestsLinked' /\ StartsLinked'
  BY DEF apiVars, TypeInv, RowsLinked, RunsLinked, RequestsLinked, StartsLinked, AttemptsLinked, RunOf
<1> QED
  BY <1>1, <1>2 DEF TypeInv, TypeOK, ApiTypeOK, apiVars, EvidenceTyped

LEMMA EvidenceStepTypeInv ==
  ASSUME TypeInv, NEW x \in Pollers,
         EvidenceStep(x)
  PROVE  TypeInv'
<1>0. x \in Callers /\ EvidenceTyped /\ \A s \in Servers : Instants(s) \subseteq Deployments \union Runs
  BY DEF Callers, EvidenceTyped, TypeInv, TypeOK, Instants
<1> USE <1>0
<1>1. ASSUME NEW d \in Deployments, ServeBoot(x, d) PROVE TypeInv'
  <2>1. Call(x, "boot", d, NoServer) \/ Call(x, "dhcp", d, NoServer)
    BY <1>1 DEF ServeBoot
  <2>2. depStatus[d] # "none" /\ UNCHANGED <<apiVars, wfRows, tasked, startedAt, evidenceVars>>
    BY <1>1 DEF ServeBoot, Active
  <2> QED
    BY <2>1, <2>2, CallTypeInv DEF EvidenceTyped, evidenceVars
<1>2. ASSUME NEW d \in Deployments, RecordAccess(x, d) PROVE TypeInv'
  BY <1>2, CallTypeInv DEF RecordAccess, EvidenceTyped
<1>3. ASSUME NEW d \in Deployments, GetDeployment(x, d) PROVE TypeInv'
  BY <1>3, CallTypeInv DEF GetDeployment, EvidenceTyped, evidenceVars
<1>4. ASSUME NEW s \in Servers, RecordLabEvidence(x, s) PROVE TypeInv'
  BY <1>4, CallTypeInv DEF RecordLabEvidence, EvidenceTyped
<1>5. ASSUME NEW s \in Servers, CheckSSH(x, s) PROVE TypeInv'
  <2>1. EvidenceTyped' /\ UNCHANGED <<apiVars, wfRows, tasked, startedAt>>
    BY <1>5 DEF CheckSSH, EvidenceTyped
  <2>2. CASE Call(x, "find", NoDeployment, s)
    BY <2>1, <2>2, CallTypeInv
  <2>3. CASE UNCHANGED rec
    BY <2>1, <2>3, StaysTypeInv
  <2> QED
    BY <1>5, <2>2, <2>3 DEF CheckSSH
<1> QED
  BY <1>1, <1>2, <1>3, <1>4, <1>5 DEF EvidenceStep

LEMMA StartupReconcileTypeInv ==
  ASSUME TypeInv, NEW d \in Deployments, StartupReconcile(d)
  PROVE  TypeInv'
BY CallTypeInv DEF StartupReconcile, EvidenceTyped, evidenceVars, TypeInv, TypeOK, Callers, RowsLinked

(* Where a call of ReconcileDeployment goes, step by step.                   *)
Moved(x) ==
  LET c == rec'[x]
      d == rec[x].dep
  IN  \/ (RecordBoot(x) \/ FindActive(x)) /\ c.pc \in {"idle", "dep"}
      \/ ReleaseServer(x) /\ c.pc = "idle"
      \/ (ReadDeployment(x) \/ ReadWorkflow(x)) /\ c.pc = "idle"
      \/ ReadDeployment(x) /\ c.pc = "wf" /\ c.dep = d /\ c.since = startedAt[d]
      \/ ReadWorkflow(x) /\ c.pc = "wf_write" /\ c.dep = d /\ c.wf = Newest(d)
           /\ RunningRows(d) # {} /\ Newest(d) \in tasked /\ Evidenced(d, rec[x].since)
      \/ CloseWorkflow(x) /\ c.pc = "dep_write" /\ c.dep = d
      \/ SettleDeployment(x) /\ c.pc = "server_write" /\ c.dep = d /\ depStatus[d] = "running"
           /\ depStatus' = [depStatus EXCEPT ![d] = "success"]
      \/ SettleDeployment(x) /\ c.pc = "idle" /\ depStatus[d] # "running" /\ UNCHANGED depStatus

LEMMA CallGoesOn ==
  ASSUME TypeInv, NEW x \in Callers, ReconcileStep(x)
  PROVE  /\ Moved(x)
         /\ \E c \in CallType : LinkedCall(c) /\ rec' = [rec EXCEPT ![x] = c]
<1>0. /\ rec \in [Callers -> CallType] /\ rec[x] \in CallType /\ LinkedCall(rec[x])
      /\ startedAt \in [Deployments -> Runs \union {NoRun}]
      /\ \A d \in Deployments : depStatus[d] # "none" => depServer[d] \in Servers
  BY DEF TypeInv, TypeOK, CallType, CallsLinked, RowsLinked
<1>1. /\ NoCall \in CallType /\ NoCall.pc = "idle" /\ LinkedCall(NoCall)
  BY NoCallTyped DEF LinkedCall
<1> DEFINE Goes(c) == c \in CallType /\ LinkedCall(c) /\ rec' = [rec EXCEPT ![x] = c]
           Goal == Moved(x) /\ \E c \in CallType : LinkedCall(c) /\ rec' = [rec EXCEPT ![x] = c]
<1>2. ASSUME Finish(x) PROVE Goes(NoCall) /\ rec'[x].pc = "idle"
  BY <1>0, <1>1, <1>2 DEF Finish
<1>3. ASSUME NEW c, Goes(c) PROVE rec'[x] = c /\ \E e \in CallType : LinkedCall(e) /\ rec' = [rec EXCEPT ![x] = e]
  BY <1>0, <1>3
<1>4. CASE RecordBoot(x)
  <2> DEFINE c == [rec[x] EXCEPT !.pc = "dep"]
  <2>1. c \in CallType /\ c.pc = "dep" /\ c.dep = rec[x].dep
    BY <1>0 DEF CallType, RecPcs
  <2>2. LinkedCall(c)
    BY <1>0, <1>4, <2>1 DEF LinkedCall, RecordBoot
  <2>3. rec' = [rec EXCEPT ![x] = c] \/ rec' = [rec EXCEPT ![x] = NoCall]
    BY <1>0, <1>4 DEF RecordBoot
  <2> HIDE DEF c
  <2> QED
    BY <1>1, <1>3, <1>4, <2>1, <2>2, <2>3 DEF Moved
<1>5. CASE FindActive(x)
  <2>1. CASE Finish(x)
    BY <1>1, <1>2, <1>3, <1>5, <2>1 DEF Moved
  <2>2. ASSUME NEW d \in ActiveOn(rec[x].server), Proceed(x, [NoCall EXCEPT !.pc = "dep", !.dep = d]) PROVE Goal
    <3> DEFINE c == [NoCall EXCEPT !.pc = "dep", !.dep = d]
    <3>1. d \in Deployments /\ depStatus[d] # "none"
      BY DEF ActiveOn, Active
    <3>2. c \in CallType /\ c.pc = "dep" /\ c.dep = d
      BY <3>1 DEF CallType, RecPcs, NoCall
    <3>3. rec' = [rec EXCEPT ![x] = c]
      BY <2>2 DEF Proceed
    <3> HIDE DEF c
    <3>4. Goes(c)
      BY <3>1, <3>2, <3>3 DEF LinkedCall
    <3> QED
      BY <1>3, <1>5, <3>2, <3>4 DEF Moved
  <2> QED
    BY <1>5, <2>1, <2>2 DEF FindActive
<1>6. CASE ReadDeployment(x)
  <2>1. CASE Finish(x)
    BY <1>1, <1>2, <1>3, <1>6, <2>1 DEF Moved
  <2>2. ASSUME Proceed(x, [rec[x] EXCEPT !.pc = "wf", !.since = startedAt[rec[x].dep]]) PROVE Goal
    <3> DEFINE d == rec[x].dep
               c == [rec[x] EXCEPT !.pc = "wf", !.since = startedAt[d]]
    <3>1. d \in Deployments /\ depStatus[d] # "none"
      BY <1>0, <1>6 DEF ReadDeployment, In, LinkedCall
    <3>2. c \in CallType /\ c.pc = "wf" /\ c.dep = d /\ c.since = startedAt[d]
      BY <1>0, <3>1 DEF CallType, RecPcs
    <3>3. rec' = [rec EXCEPT ![x] = c]
      BY <2>2 DEF Proceed
    <3> HIDE DEF c
    <3>4. LinkedCall(c)
      BY <3>1, <3>2 DEF LinkedCall, TypeInv, StartsLinked, AttemptsLinked
    <3> QED
      BY <1>3, <1>6, <3>2, <3>3, <3>4 DEF Moved
  <2> QED
    BY <1>6, <2>1, <2>2 DEF ReadDeployment
<1>7. CASE ReadWorkflow(x)
  <2>1. CASE Finish(x)
    BY <1>1, <1>2, <1>3, <1>7, <2>1 DEF Moved
  <2>2. ASSUME ~Finish(x) PROVE Goal
    <3> DEFINE d == rec[x].dep
               c == [rec[x] EXCEPT !.pc = "wf_write", !.wf = Newest(d)]
    <3>1. /\ RunningRows(d) # {} /\ Newest(d) \in tasked /\ Evidenced(d, rec[x].since)
          /\ rec' = [rec EXCEPT ![x] = c]
      BY <1>7, <2>2 DEF ReadWorkflow, Proceed
    <3>2. d \in Deployments /\ depStatus[d] # "none"
      BY <1>0, <1>7 DEF ReadWorkflow, In, LinkedCall
    <3>3. RunOf(Newest(d), d)
      BY <3>1, <3>2, NewestIs
    <3>4. c \in CallType /\ c.pc = "wf_write" /\ c.dep = d /\ c.wf = Newest(d)
      BY <1>0, <3>3 DEF CallType, RecPcs, RunOf
    <3> HIDE DEF c
    <3>5. LinkedCall(c)
      BY <3>1, <3>2, <3>3, <3>4 DEF LinkedCall
    <3> QED
      BY <1>3, <1>7, <3>1, <3>4, <3>5 DEF Moved
  <2> QED
    BY <2>1, <2>2
<1>8. CASE CloseWorkflow(x)
  <2> DEFINE c == [rec[x] EXCEPT !.pc = "dep_write"]
  <2>1. c \in CallType /\ c.pc = "dep_write" /\ c.dep = rec[x].dep
    BY <1>0 DEF CallType, RecPcs
  <2>2. rec' = [rec EXCEPT ![x] = c]
    BY <1>8 DEF CloseWorkflow, Proceed
  <2> HIDE DEF c
  <2>3. LinkedCall(c)
    BY <1>0, <1>8, <2>1 DEF LinkedCall, CloseWorkflow, In
  <2> QED
    BY <1>3, <1>8, <2>1, <2>2, <2>3 DEF Moved
<1>9. CASE SettleDeployment(x)
  <2>1. CASE depStatus[rec[x].dep] # "running"
    BY <1>1, <1>2, <1>3, <1>9, <2>1 DEF Moved, SettleDeployment
  <2>2. ASSUME depStatus[rec[x].dep] = "running" PROVE Goal
    <3> DEFINE c == [rec[x] EXCEPT !.pc = "server_write"]
    <3>1. c \in CallType /\ c.pc = "server_write" /\ c.dep = rec[x].dep
      BY <1>0 DEF CallType, RecPcs
    <3>2. rec' = [rec EXCEPT ![x] = c] /\ depStatus' = [depStatus EXCEPT ![rec[x].dep] = "success"]
      BY <1>9, <2>2 DEF SettleDeployment, Proceed
    <3> HIDE DEF c
    <3>3. LinkedCall(c)
      BY <1>0, <1>9, <3>1 DEF LinkedCall, SettleDeployment, In
    <3> QED
      BY <1>3, <1>9, <2>2, <3>1, <3>2, <3>3 DEF Moved
  <2> QED
    BY <2>1, <2>2
<1>10. CASE ReleaseServer(x)
  BY <1>1, <1>2, <1>3, <1>10 DEF Moved, ReleaseServer
<1> QED
  BY <1>4, <1>5, <1>6, <1>7, <1>8, <1>9, <1>10 DEF ReconcileStep

LEMMA ReconcileStepTypeInv ==
  ASSUME TypeInv, NEW x \in Callers, ReconcileStep(x)
  PROVE  TypeInv'
<1>0. /\ serverStatus \in [Servers -> ServerStatuses] /\ wfStatus \in [Runs -> WfStatuses]
      /\ depStatus \in [Deployments -> DepStatuses] /\ EvidenceTyped /\ LinkedCall(rec[x])
      /\ starting \in SUBSET Deployments
      /\ \A d \in Deployments : depStatus[d] # "none" => depServer[d] \in Servers
  BY DEF TypeInv, TypeOK, ApiTypeOK, EvidenceTyped, CallsLinked, RowsLinked
<1>1. PICK c \in CallType : LinkedCall(c) /\ rec' = [rec EXCEPT ![x] = c]
  BY CallGoesOn
<1>2. UNCHANGED <<depServer, runPc, runDep, req, up, wfRows, tasked, startedAt>> /\ starting' \subseteq starting
  BY DEF ReconcileStep, RecordBoot, FindActive, ReadDeployment, ReadWorkflow, CloseWorkflow, SettleDeployment,
         ReleaseServer, recUnchanged, apiVars, Finish, Proceed
<1>3. EvidenceTyped'
  <2>1. CASE RecordBoot(x)
    BY <1>0, <2>1 DEF RecordBoot, EvidenceTyped, LinkedCall
  <2>2. CASE UNCHANGED evidenceVars
    BY <1>0, <2>2 DEF evidenceVars, EvidenceTyped
  <2> QED
    BY <2>1, <2>2 DEF ReconcileStep, FindActive, ReadDeployment, ReadWorkflow, CloseWorkflow, SettleDeployment,
         ReleaseServer, recUnchanged
<1>4. /\ serverStatus' \in [Servers -> ServerStatuses] /\ wfStatus' \in [Runs -> WfStatuses]
      /\ \/ UNCHANGED depStatus
         \/ \E d \in Deployments : depStatus[d] = "running" /\ depStatus' = [depStatus EXCEPT ![d] = "success"]
  <2>1. CASE SettleDeployment(x)
    BY <1>0, <2>1 DEF SettleDeployment, In, LinkedCall
  <2>2. CASE CloseWorkflow(x)
    BY <1>0, <2>2 DEF CloseWorkflow, WfStatuses
  <2>3. CASE ReleaseServer(x)
    BY <1>0, <2>3 DEF ReleaseServer, ServerStatuses
  <2>4. CASE RecordBoot(x) \/ FindActive(x) \/ ReadDeployment(x) \/ ReadWorkflow(x)
    BY <1>0, <2>4 DEF RecordBoot, FindActive, ReadDeployment, ReadWorkflow, apiVars
  <2> QED
    BY <2>1, <2>2, <2>3, <2>4 DEF ReconcileStep
<1> QED
  BY <1>1, <1>2, <1>3, <1>4, CallStepTypeInv

(* The handlers and the process, with what they do to calls and started_at.  *)
LEMMA ApiStepTypeInv ==
  ASSUME TypeInv, ApiStep
  PROVE  TypeInv'
<1>0. /\ ApiKept /\ LinksKept' /\ rec \in [Callers -> CallType]
      /\ startedAt \in [Deployments -> Runs \union {NoRun}]
      /\ \A d \in Deployments : /\ depStatus[d] \in {"none", "pending"} => startedAt[d] = NoRun
                                /\ depStatus[d] \in {"running", "success"} => startedAt[d] # NoRun
  BY ApiKeeps DEF ApiStep, TypeInv, TypeOK, CallType
<1>1. /\ startedAt' = [d \in Deployments |-> IF depStatus'[d] = "pending" THEN NoRun ELSE startedAt[d]]
      /\ UNCHANGED <<wfRows, tasked, evidenceVars>>
      /\ rec' = IF up' THEN rec ELSE [x \in Callers |-> NoCall]
  BY DEF ApiStep, CallsAfterApi
<1>2. /\ startedAt' \in [Deployments -> Runs \union {NoRun}]
      /\ \A d \in Deployments : /\ depStatus'[d] \in {"none", "pending"} => startedAt'[d] = NoRun
                                /\ depStatus'[d] \in {"running", "success"} => startedAt'[d] # NoRun
  BY <1>0, <1>1 DEF ApiKept
<1>3. Stable
  BY <1>0, <1>1 DEF ApiKept, Stable
<1>4. rec' \in [Callers -> CallType] /\ CallsLinked'
  <2>1. CASE up'
    BY <1>0, <1>1, <1>3, <2>1, CallsStay
  <2>2. CASE ~up'
    BY <1>0, <1>1, <2>2, NoCallTyped DEF CallsLinked, LinkedCall
  <2> QED
    BY <2>1, <2>2
<1>5. StartsLinked'
  <2>1. AttemptsLinked'
    BY <1>0, <1>1 DEF ApiKept, TypeInv, StartsLinked, AttemptsLinked, RunOf
  <2>2. tasked \subseteq Runs /\ \A i \in DOMAIN wfRows : wfRows[i] \in Runs
    BY DEF TypeInv, TypeOK
  <2> QED
    BY <1>0, <1>1, <2>1, <2>2 DEF ApiKept, TypeInv, StartsLinked, RunPcs
<1> QED
  BY <1>0, <1>1, <1>2, <1>4, <1>5 DEF LinksKept, TypeInv, TypeOK, CallType, evidenceVars

LEMMA NextTypeInv ==
  ASSUME TypeInv, [Next]_vars
  PROVE  TypeInv'
<1>1. CASE UNCHANGED vars
  BY <1>1, StaysTypeInv DEF vars, physVars, evidenceVars, EvidenceTyped, TypeInv, TypeOK
<1> QED
  BY <1>1, ApiStepTypeInv, RunStepTypeInv, EvidenceStepTypeInv, ReconcileStepTypeInv, StartupReconcileTypeInv DEF Next

LEMMA InitTypeInv == Init => TypeInv
<1> SUFFICES ASSUME Init PROVE TypeInv
  OBVIOUS
<1>1. rec \in [Callers -> CallType] /\ CallsLinked
  BY NoCallTyped DEF Init, CallsLinked, LinkedCall
<1>2. ApiTypeOK /\ RowsLinked /\ RunsLinked /\ RequestsLinked
  BY RequestMade DEF Init, ApiInit, ApiTypeOK, RowsLinked, RunsLinked, RequestsLinked, ServerStatuses, DepStatuses, WfStatuses
<1> QED
  BY <1>1, <1>2 DEF Init, ApiInit, TypeInv, TypeOK, StartsLinked, AttemptsLinked, RunPcs, CallType

(* Every variable keeps its type, started_at is set exactly while an attempt *)
(* is or was at work, and every reference from a call, a goroutine or a      *)
(* request to a row resolves (WorkflowService.run, ReconcileDeployment).     *)
THEOREM PhysicalTypeCorrect == Spec => []TypeInv
BY InitTypeInv, NextTypeInv, PTL DEF Spec

(* The rows, goroutines, requests and ReconcileDeployment calls of the       *)
(* physical workflow keep their types, across crashes and edits.             *)
THEOREM PhysicalTypeOK == Spec => []TypeOK
BY PhysicalTypeCorrect, PTL DEF TypeInv
-----------------------------------------------------------------------------
(***************************************************************************)
(* The evidence behind a success.  SuccessHasEvidence is not inductive: a  *)
(* call past its look at the evidence settles whatever it has found, and   *)
(* an attempt may be looked at since the instant of its goroutine.         *)
(***************************************************************************)
(* A deployment keeps its server, so that a metadata access that counts for  *)
(* it goes on counting.                                                      *)
ServersKept ==
  \A d \in Deployments : depStatus[d] # "none" => depStatus'[d] # "none" /\ depServer'[d] = depServer[d]

LEMMA ProvedStays ==
  ASSUME EvidenceInv, ServersKept,
         booted \subseteq booted', accessed \subseteq accessed', labbed \subseteq labbed', checked \subseteq checked',
         NEW d \in Deployments, Known(d), Proved(d)
  PROVE  d \in booted' /\ Accessed(d)' /\ d \in labbed' \union checked'
<1>1. PICK e \in accessed : depServer[e] = depServer[d] /\ (e = d \/ <<d, e>> \in IdPrefix)
  BY DEF Proved, Accessed
<1>2. depServer'[e] = depServer'[d]
  BY <1>1 DEF Known, ServersKept, EvidenceInv
<1> QED
  BY <1>1, <1>2 DEF Proved, Accessed

(* Evidence is added and never taken away, calls find it, and a success      *)
(* rests on it.                                                              *)
LEMMA EvidenceKept ==
  ASSUME TypeInv, EvidenceInv, ServersKept,
         booted \subseteq booted', accessed \subseteq accessed', labbed \subseteq labbed', checked \subseteq checked',
         \A e \in accessed' : e \in accessed \/ Known(e),
         InstantsImply',
         \A x \in Callers : rec'[x].pc \in {"wf_write", "dep_write"} =>
           \/ rec[x].pc \in {"wf_write", "dep_write"} /\ rec'[x].dep = rec[x].dep
           \/ Known(rec'[x].dep) /\ Proved(rec'[x].dep),
         \A d \in Deployments : depStatus'[d] = "success" => depStatus[d] = "success" \/ (Known(d) /\ Proved(d))
  PROVE  EvidenceInv'
<1>1. \A e \in accessed' : Known(e)'
  BY DEF Known, ServersKept, EvidenceInv
<1>2. \A d \in Deployments : depStatus'[d] = "success" => d \in booted' /\ Accessed(d)' /\ d \in labbed' \union checked'
  <2>1. \A d \in Deployments : depStatus[d] = "success" => Known(d) /\ Proved(d)
    BY DEF EvidenceInv, SuccessHasEvidence, Proved, Known
  <2> QED
    BY <2>1, ProvedStays
<1>3. ASSUME NEW x \in Callers, rec'[x].pc \in {"wf_write", "dep_write"}
      PROVE  Proved(rec[x].dep)'
  <2>1. \A y \in Callers : rec[y].pc \in {"wf_write", "dep_write"} => Known(rec[y].dep) /\ Proved(rec[y].dep)
    BY DEF EvidenceInv, TypeInv, CallsLinked, LinkedCall, Known
  <2>2. PICK d \in Deployments : d = rec'[x].dep /\ Known(d) /\ Proved(d)
    BY <1>3, <2>1 DEF Known
  <2>3. d \in booted' /\ Accessed(d)' /\ d \in labbed' \union checked'
    BY <2>2, ProvedStays
  <2> QED
    BY <2>2, <2>3 DEF Proved, Accessed
<1> QED
  BY <1>1, <1>2, <1>3 DEF EvidenceInv, SuccessHasEvidence

LEMMA InstantsStay ==
  ASSUME TypeInv, Stable, InstantsImply, UNCHANGED <<labbed, checked>>
  PROVE  InstantsImply'
BY DEF Stable, InstantsImply

(* What is recorded now counts for a deployment if it counts for one of its  *)
(* goroutines.                                                               *)
LEMMA InstantsOf ==
  ASSUME TypeInv, NEW s \in Servers, NEW r \in Runs, r \in Instants(s)
  PROVE  runPc[r] # "unused" /\ runDep[r] \in Instants(s)
BY DEF Instants, TypeInv, RunsLinked

LEMMA ApiEvidence ==
  ASSUME TypeInv, EvidenceInv, ApiStep
  PROVE  EvidenceInv'
<1>0. ApiKept /\ rec \in [Callers -> CallType] /\ depStatus \in [Deployments -> DepStatuses]
  BY ApiKeeps DEF ApiStep, TypeInv, TypeOK, ApiTypeOK, CallType
<1>1. UNCHANGED <<tasked, booted, accessed, labbed, checked>> /\ rec' = IF up' THEN rec ELSE [x \in Callers |-> NoCall]
  BY DEF ApiStep, CallsAfterApi, evidenceVars
<1>2. InstantsImply'
  BY <1>0, <1>1, InstantsStay DEF ApiKept, Stable, EvidenceInv
<1>3. \A x \in Callers : rec'[x].pc \in {"wf_write", "dep_write"} => rec'[x] = rec[x]
  BY <1>1, NoCallTyped
<1>4. \A d \in Deployments : depStatus'[d] = "success" => depStatus[d] = "success"
  BY <1>0 DEF ApiKept
<1>5. ServersKept
  BY <1>0 DEF ApiKept, ServersKept
<1> QED
  BY <1>1, <1>2, <1>3, <1>4, <1>5, EvidenceKept

LEMMA RunEvidence ==
  ASSUME TypeInv, EvidenceInv, NEW r \in Runs, RunStep(r)
  PROVE  EvidenceInv'
<1>0. /\ runPc \in [Runs -> RunPcs] /\ rec \in [Callers -> CallType] /\ depStatus \in [Deployments -> DepStatuses]
  BY DEF TypeInv, TypeOK, ApiTypeOK, CallType
<1>1. /\ \E pc \in RunPcs \ {"unused", "slot"} : runPc' = [runPc EXCEPT ![r] = pc]
      /\ UNCHANGED <<runDep, depServer, evidenceVars>>
      /\ \A d \in Deployments : depStatus'[d] = "success" => depStatus[d] = "success"
      /\ \A d \in Deployments : depStatus[d] # "none" => depStatus'[d] # "none"
  BY <1>0 DEF RunStep, AcquireSlot, Begin, MarkRunning, CreateTasks, Return, Goto, At, RunPcs
<1>2. InstantsImply'
  BY <1>0, <1>1 DEF EvidenceInv, InstantsImply, evidenceVars
<1>3. \A x \in Callers : rec'[x].pc \in {"wf_write", "dep_write"} => rec'[x] = rec[x]
  <2>1. CASE UNCHANGED rec
    BY <2>1
  <2>2. CASE CreateTasks(r)
    <3> DEFINE c == [NoCall EXCEPT !.pc = "dep", !.dep = runDep[r]]
    <3>1. c.pc = "dep"
      BY DEF NoCall
    <3>2. rec' = [rec EXCEPT ![r] = c]
      BY <2>2 DEF CreateTasks
    <3> HIDE DEF c
    <3> QED
      BY <1>0, <3>1, <3>2
  <2> QED
    BY <2>1, <2>2 DEF RunStep, AcquireSlot, Begin, MarkRunning, Return
<1>4. ServersKept
  BY <1>1 DEF ServersKept
<1> QED
  BY <1>1, <1>2, <1>3, <1>4, EvidenceKept DEF evidenceVars

(* A request that records evidence, or looks.                                *)
LEMMA CallEvidence ==
  ASSUME TypeInv, NEW x \in Callers, NEW pc \in {"boot", "dhcp", "find", "dep"},
         NEW d \in Deployments \union {NoDeployment}, NEW s \in Servers \union {NoServer}, Call(x, pc, d, s)
  PROVE  \A y \in Callers : rec'[y].pc \in {"wf_write", "dep_write"} => rec'[y] = rec[y]
<1> DEFINE c == [NoCall EXCEPT !.pc = pc, !.dep = d, !.server = s]
<1>1. c.pc = pc
  BY DEF NoCall
<1>2. rec' = [rec EXCEPT ![x] = c] /\ rec \in [Callers -> CallType]
  BY DEF Call, TypeInv, TypeOK, CallType
<1> HIDE DEF c
<1> QED
  BY <1>1, <1>2

LEMMA EvidenceStepEvidence ==
  ASSUME TypeInv, EvidenceInv, NEW x \in Callers,
         EvidenceStep(x) \/ \E d \in Deployments : StartupReconcile(d) /\ x = Main
  PROVE  EvidenceInv'
<1> USE DEF EvidenceInv
<1>1. UNCHANGED apiVars
  BY DEF EvidenceStep, StartupReconcile, ServeBoot, RecordAccess, GetDeployment, RecordLabEvidence, CheckSSH
<1>2. \A y \in Callers : rec'[y].pc \in {"wf_write", "dep_write"} => rec'[y] = rec[y]
  <2>1. \/ UNCHANGED rec
        \/ \E pc \in {"boot", "dhcp", "find", "dep"}, d \in Deployments \union {NoDeployment},
              s \in Servers \union {NoServer} : Call(x, pc, d, s)
    BY DEF EvidenceStep, StartupReconcile, ServeBoot, RecordAccess, GetDeployment, RecordLabEvidence, CheckSSH
  <2> QED
    BY <2>1, CallEvidence
<1>3. /\ booted \subseteq booted' /\ accessed \subseteq accessed'
      /\ \A e \in accessed' : e \in accessed \/ Known(e)
      /\ UNCHANGED <<runPc, runDep, depStatus, depServer>>
  BY <1>1 DEF EvidenceStep, StartupReconcile, ServeBoot, RecordAccess, GetDeployment, RecordLabEvidence, CheckSSH,
         evidenceVars, apiVars, Known
<1>4. /\ labbed' = labbed \/ \E s \in Servers : labbed' = labbed \union Instants(s)
      /\ checked' = checked \/ \E s \in Servers : checked' = checked \union Instants(s)
  BY DEF EvidenceStep, StartupReconcile, ServeBoot, RecordAccess, GetDeployment, RecordLabEvidence, CheckSSH, evidenceVars
<1>5. labbed \subseteq labbed' /\ checked \subseteq checked'
  BY <1>4
<1>6. InstantsImply'
  <2>1. ASSUME NEW r \in Runs, r \in labbed' PROVE runPc[r] # "unused" /\ runDep[r] \in labbed'
    BY <1>4, <2>1, InstantsOf DEF InstantsImply
  <2>2. ASSUME NEW r \in Runs, r \in checked' PROVE runPc[r] # "unused" /\ runDep[r] \in checked'
    BY <1>4, <2>2, InstantsOf DEF InstantsImply
  <2> QED
    BY <1>3, <2>1, <2>2 DEF InstantsImply
<1>7. ServersKept
  BY <1>3 DEF ServersKept
<1> QED
  BY <1>2, <1>3, <1>5, <1>6, <1>7, EvidenceKept

LEMMA ReconcileEvidence ==
  ASSUME TypeInv, EvidenceInv, NEW x \in Callers, ReconcileStep(x)
  PROVE  EvidenceInv'
<1>0. rec \in [Callers -> CallType] /\ LinkedCall(rec[x]) /\ depStatus \in [Deployments -> DepStatuses]
  BY DEF TypeInv, TypeOK, ApiTypeOK, CallType, CallsLinked
<1>1. Moved(x) /\ \A y \in Callers \ {x} : rec'[y] = rec[y]
  BY <1>0, CallGoesOn
<1>2. /\ booted \subseteq booted' /\ UNCHANGED <<accessed, labbed, checked, runPc, runDep, depServer, tasked>>
  BY DEF ReconcileStep, RecordBoot, FindActive, ReadDeployment, ReadWorkflow, CloseWorkflow, SettleDeployment,
         ReleaseServer, recUnchanged, apiVars, evidenceVars
<1>3. InstantsImply'
  BY <1>2 DEF EvidenceInv, InstantsImply
<1>4. rec'[x].pc \in {"wf_write", "dep_write"} =>
         \/ rec[x].pc \in {"wf_write", "dep_write"} /\ rec'[x].dep = rec[x].dep
         \/ Known(rec'[x].dep) /\ Proved(rec'[x].dep)
  <2>1. CASE ReadWorkflow(x) /\ rec'[x].pc = "wf_write" /\ rec'[x].dep = rec[x].dep /\ Evidenced(rec[x].dep, rec[x].since)
    BY <1>0, <2>1 DEF ReadWorkflow, In, LinkedCall, RunOf, Evidenced, Proved, Known, EvidenceInv, InstantsImply
  <2>2. CASE CloseWorkflow(x) /\ rec'[x].dep = rec[x].dep
    BY <2>2 DEF CloseWorkflow, In
  <2>3. CASE rec'[x].pc \notin {"wf_write", "dep_write"}
    BY <2>3
  <2> QED
    BY <1>1, <2>1, <2>2, <2>3 DEF Moved
<1>5. \A d \in Deployments : depStatus'[d] = "success" => depStatus[d] = "success" \/ (Known(d) /\ Proved(d))
  <2>1. CASE SettleDeployment(x)
    <3>1. Known(rec[x].dep) /\ Proved(rec[x].dep)
      BY <1>0, <2>1 DEF SettleDeployment, In, EvidenceInv, LinkedCall, Known
    <3> QED
      BY <1>0, <2>1, <3>1 DEF SettleDeployment
  <2>2. CASE UNCHANGED depStatus
    BY <2>2
  <2> QED
    BY <2>1, <2>2 DEF ReconcileStep, RecordBoot, FindActive, ReadDeployment, ReadWorkflow, CloseWorkflow, ReleaseServer, apiVars
<1>6. \A y \in Callers : rec'[y].pc \in {"wf_write", "dep_write"} =>
         \/ rec[y].pc \in {"wf_write", "dep_write"} /\ rec'[y].dep = rec[y].dep
         \/ Known(rec'[y].dep) /\ Proved(rec'[y].dep)
  BY <1>1, <1>4
<1>7. ServersKept
  <2>1. \A d \in Deployments : depStatus'[d] \in {depStatus[d], "success"}
    BY <1>0 DEF ReconcileStep, RecordBoot, FindActive, ReadDeployment, ReadWorkflow, CloseWorkflow, SettleDeployment,
           ReleaseServer, recUnchanged, apiVars
  <2> QED
    BY <1>2, <2>1 DEF ServersKept
<1> QED
  BY <1>2, <1>3, <1>5, <1>6, <1>7, EvidenceKept

LEMMA NextEvidence ==
  ASSUME TypeInv, EvidenceInv, [Next]_vars
  PROVE  EvidenceInv'
<1>1. CASE UNCHANGED vars
  BY <1>1 DEF vars, apiVars, physVars, evidenceVars, EvidenceInv, InstantsImply, Proved, Known, Accessed,
         SuccessHasEvidence
<1>2. Main \in Callers /\ Pollers \subseteq Callers
  BY DEF Callers
<1> QED
  BY <1>1, <1>2, ApiEvidence, RunEvidence, EvidenceStepEvidence, ReconcileEvidence DEF Next

(* A deployment is marked successful only on a PXE boot for it, an SSH or    *)
(* lab check of its server since it was created, and a metadata access for   *)
(* it or for a deployment of the same server whose id begins with its own,   *)
(* however calls, goroutines, cancels, retries, edits and crashes interleave *)
(* (ReconcileDeployment, deploymentPhysicalEvidence).                        *)
THEOREM SuccessEvidenced == Spec => []SuccessHasEvidence
<1>1. Init => EvidenceInv
  BY NoCallTyped DEF Init, ApiInit, EvidenceInv, InstantsImply, SuccessHasEvidence
<1> QED
  BY <1>1, NextEvidence, PhysicalTypeCorrect, PTL DEF Spec, EvidenceInv
-----------------------------------------------------------------------------
(***************************************************************************)
(* A goroutine has a call in progress only while it waits for it.          *)
(***************************************************************************)
OwnCalls == \A r \in Runs : rec[r].pc # "idle" => runPc[r] = "reconcile"

LEMMA ApiRuns ==
  ASSUME TypeInv, ApiNext, up'
  PROVE  \A r \in Runs : \/ runPc'[r] = runPc[r]
                         \/ runPc[r] = "unused" /\ runPc'[r] = "slot"
<1>0. runPc \in [Runs -> RunPcs]
  BY DEF TypeInv, TypeOK
<1>1. CASE CreateStep
  BY <1>1, CreateEffect DEF Creates
<1>2. CASE UNCHANGED runPc
  BY <1>2
<1>3. ASSUME NEW d, NEW r \in Runs, StartDeployment(d, r)
      PROVE  \A t \in Runs : runPc'[t] = runPc[t] \/ (runPc[t] = "unused" /\ runPc'[t] = "slot")
  BY <1>0, <1>3 DEF StartDeployment
<1> QED
  BY <1>1, <1>2, <1>3
  DEF ApiNext, RequestStep, CancelDeployment, CancelReadServer, CancelWriteServer, RetryRead, RetryCommit, RetryRefused,
      UpdateServer, RetireServer, ScrapServer, BeginEdit, SaveServer, ProcessStep, Crash, Boot, StartupResume

LEMMA NextOwnCalls ==
  ASSUME TypeInv, OwnCalls, [Next]_vars
  PROVE  OwnCalls'
<1>0. /\ runPc \in [Runs -> RunPcs] /\ rec \in [Callers -> CallType]
      /\ Runs \subseteq Callers /\ Pollers \subseteq Callers /\ Main \in Callers
      /\ Main \notin Runs /\ \A x \in Pollers : x \notin Runs
  BY DEF TypeInv, TypeOK, CallType, Callers
<1>1. CASE ApiStep
  <2>1. rec' = IF up' THEN rec ELSE [x \in Callers |-> NoCall]
    BY <1>1 DEF ApiStep, CallsAfterApi
  <2>2. CASE up'
    BY <1>1, <2>1, <2>2, ApiRuns DEF ApiStep, OwnCalls
  <2>3. CASE ~up'
    BY <1>0, <2>1, <2>3, NoCallTyped DEF OwnCalls
  <2> QED
    BY <2>2, <2>3
<1>2. ASSUME NEW r \in Runs, RunStep(r) PROVE OwnCalls'
  <2>1. CASE CreateTasks(r)
    <3>1. \E c : rec' = [rec EXCEPT ![r] = c] /\ runPc' = [runPc EXCEPT ![r] = "reconcile"]
      BY <2>1 DEF CreateTasks, Goto
    <3> QED
      BY <1>0, <3>1 DEF OwnCalls
  <2>2. CASE Return(r)
    BY <1>0, <2>2, NoCallTyped DEF Return, Goto, OwnCalls
  <2>3. CASE AcquireSlot(r) \/ Begin(r) \/ MarkRunning(r)
    BY <1>0, <2>3 DEF AcquireSlot, Begin, MarkRunning, Goto, At, OwnCalls
  <2> QED
    BY <1>2, <2>1, <2>2, <2>3 DEF RunStep
<1>3. ASSUME NEW x \in Pollers \union {Main}, EvidenceStep(x) \/ \E d \in Deployments : StartupReconcile(d) /\ x = Main
      PROVE  OwnCalls'
  <2>1. UNCHANGED rec \/ \E c : rec' = [rec EXCEPT ![x] = c]
    BY <1>3 DEF EvidenceStep, StartupReconcile, ServeBoot, RecordAccess, GetDeployment, RecordLabEvidence, CheckSSH, Call
  <2>2. UNCHANGED runPc
    BY <1>3 DEF EvidenceStep, StartupReconcile, ServeBoot, RecordAccess, GetDeployment, RecordLabEvidence, CheckSSH, apiVars
  <2> QED
    BY <1>0, <2>1, <2>2 DEF OwnCalls
<1>4. ASSUME NEW x \in Callers, ReconcileStep(x) PROVE OwnCalls'
  <2>1. rec[x].pc # "idle" /\ UNCHANGED runPc
    BY <1>4 DEF ReconcileStep, RecordBoot, FindActive, ReadDeployment, ReadWorkflow, CloseWorkflow, SettleDeployment,
         ReleaseServer, recUnchanged, apiVars, In
  <2> QED
    BY <1>0, <1>4, <2>1, CallGoesOn DEF OwnCalls
<1>5. CASE UNCHANGED vars
  BY <1>5 DEF vars, apiVars, physVars, OwnCalls
<1> QED
  BY <1>0, <1>1, <1>2, <1>3, <1>4, <1>5 DEF Next

LEMMA CallsCorrect == Spec => [](TypeInv /\ OwnCalls)
<1>1. Init => OwnCalls
  BY NoCallTyped DEF Init, OwnCalls, Callers
<1> QED
  BY <1>1, NextOwnCalls, InitTypeInv, NextTypeInv, PTL DEF Spec

-----------------------------------------------------------------------------
(***************************************************************************)
(* Why a running deployment can always be settled.  RunningCanSettle is    *)
(* not inductive: it does not say which workflow run is open, and the row  *)
(* of an attempt could be the one a goroutine that lost the race closes.   *)
(* SettleInv names it: the run of started_at is open, as is the row of     *)
(* every goroutine that has still to mark the deployment running, until a  *)
(* call closes it and settles.  Only a crash separates these two writes.   *)
(***************************************************************************)
LEMMA SettleKept ==
  ASSUME SettleInv, up', UNCHANGED <<wfStatus, wfRows, startedAt>>,
         \A r \in Runs : runPc'[r] = "mark" => runPc[r] = "mark",
         \A d \in Deployments : depStatus'[d] = "running" => depStatus[d] = "running",
         \A x \in Callers : rec[x].pc = "dep_write" => rec'[x] = rec[x]
  PROVE  SettleInv'
BY DEF SettleInv, Opened, Settling

LEMMA ApiSettle ==
  ASSUME ~MayCrash, TypeInv, SettleInv, ApiStep
  PROVE  SettleInv'
<1>1. up'
  BY DEF ApiStep, ApiNext, CreateStep, CreateDeployment, CreateDeploymentBatch, RequestStep, CancelDeployment,
         CancelReadServer, CancelWriteServer, RetryRead, RetryCommit, RetryRefused, UpdateServer, RetireServer,
         ScrapServer, BeginEdit, SaveServer, ProcessStep, Crash, Boot, StartupResume, requestVars, processVars, SettleInv
<1>2. ApiKept /\ UNCHANGED <<wfStatus, wfRows, rec>>
  BY <1>1, ApiKeeps DEF ApiStep, CallsAfterApi, ApiKept
<1>3. \A d \in Deployments : depStatus'[d] = "running" => depStatus[d] = "running" /\ startedAt'[d] = startedAt[d]
  BY <1>2 DEF ApiStep, ApiKept
<1>4. \A r \in Runs : runPc'[r] = "mark" => runPc[r] = "mark"
  BY <1>2 DEF ApiKept
<1> QED
  BY <1>1, <1>2, <1>3, <1>4 DEF SettleInv, Opened, Settling

LEMMA RunSettle ==
  ASSUME TypeInv, OwnCalls, SettleInv, NEW r \in Runs, RunStep(r)
  PROVE  SettleInv'
<1>0. /\ runPc \in [Runs -> RunPcs] /\ rec \in [Callers -> CallType] /\ depStatus \in [Deployments -> DepStatuses]
      /\ wfStatus \in [Runs -> WfStatuses] /\ wfRows \in Seq(Runs)
      /\ startedAt \in [Deployments -> Runs \union {NoRun}]
      /\ runPc[r] # "unused" => runDep[r] \in Deployments
      /\ \A d \in Deployments : startedAt[d] # NoRun => startedAt[d] \in Runs /\ runPc[startedAt[d]] \notin {"begin", "mark"}
      /\ \A d \in Deployments : depStatus[d] = "running" => startedAt[d] # NoRun
  BY DEF TypeInv, TypeOK, ApiTypeOK, CallType, RunsLinked, StartsLinked, AttemptsLinked, RunOf
<1>1. up'
  BY DEF RunStep, AcquireSlot, Begin, MarkRunning, CreateTasks, Return, Goto, requestVars, SettleInv
<1>2. CASE AcquireSlot(r) \/ Return(r)
  BY <1>0, <1>1, <1>2, SettleKept DEF AcquireSlot, Return, Goto
<1>3. CASE CreateTasks(r)
  <2>1. rec[r].pc = "idle" /\ \A x \in Callers \ {r} : rec'[x] = rec[x]
    BY <1>0, <1>3 DEF OwnCalls, CreateTasks, At
  <2> QED
    BY <1>0, <1>1, <1>3, <2>1, SettleKept DEF CreateTasks, Goto
<1>4. CASE Begin(r)
  <2>1. CASE Goto(r, "done") /\ UNCHANGED <<wfStatus, wfRows>>
    BY <1>0, <1>1, <1>4, <2>1, SettleKept DEF Begin, Goto
  <2>2. CASE Goto(r, "mark") /\ wfStatus' = [wfStatus EXCEPT ![r] = "running"] /\ wfRows' = Append(wfRows, r)
    <3>1. /\ \A i \in DOMAIN wfRows : i \in DOMAIN wfRows' /\ wfRows'[i] = wfRows[i]
          /\ \E i \in DOMAIN wfRows' : wfRows'[i] = r
      BY <1>0, <2>2, AppendIs
    <3>2. Opened(r)' /\ \A t \in Runs : Opened(t) => Opened(t)'
      BY <1>0, <2>2, <3>1 DEF Opened
    <3> QED
      BY <1>0, <1>1, <1>4, <2>2, <3>2 DEF Begin, Goto, SettleInv, Settling
  <2> QED
    BY <1>4, <2>1, <2>2 DEF Begin
<1>5. CASE MarkRunning(r)
  <2>0. Opened(r) /\ UNCHANGED <<wfRows, rec>> /\ runPc[r] = "mark" /\ \A t \in Runs : runPc'[t] = "mark" => runPc[t] = "mark" /\ t # r
    BY <1>0, <1>5 DEF MarkRunning, Goto, At, SettleInv
  <2>1. CASE depStatus[runDep[r]] = "pending"
    <3>1. /\ depStatus' = [depStatus EXCEPT ![runDep[r]] = "running"]
          /\ startedAt' = [startedAt EXCEPT ![runDep[r]] = r] /\ UNCHANGED wfStatus
      BY <1>5, <2>1 DEF MarkRunning
    <3> QED
      BY <1>0, <1>1, <2>0, <3>1 DEF SettleInv, Opened, Settling
  <2>2. CASE depStatus[runDep[r]] # "pending"
    <3>1. UNCHANGED <<depStatus, startedAt>> /\ \A t \in Runs \ {r} : wfStatus'[t] = wfStatus[t]
      BY <1>0, <1>5, <2>2 DEF MarkRunning
    <3>2. \A d \in Deployments : startedAt[d] # NoRun => startedAt[d] # r
      BY <1>0, <2>0
    <3>3. \A t \in Runs \ {r} : Opened(t) => Opened(t)'
      BY <2>0, <3>1 DEF Opened
    <3> QED
      BY <1>0, <1>1, <2>0, <3>1, <3>2, <3>3 DEF SettleInv, Settling
  <2> QED
    BY <2>1, <2>2
<1> QED
  BY <1>2, <1>3, <1>4, <1>5 DEF RunStep

LEMMA ReconcileSettle ==
  ASSUME TypeInv, SettleInv, NEW x \in Callers, ReconcileStep(x)
  PROVE  SettleInv'
<1>0. /\ rec \in [Callers -> CallType] /\ LinkedCall(rec[x]) /\ depStatus \in [Deployments -> DepStatuses]
      /\ wfStatus \in [Runs -> WfStatuses]
      /\ \A t \in tasked : runPc[t] # "mark"
      /\ \A d \in Deployments : depStatus[d] = "running" => RunOf(startedAt[d], d)
  BY DEF TypeInv, TypeOK, ApiTypeOK, CallType, CallsLinked, StartsLinked, AttemptsLinked
<1>1. Moved(x) /\ \A y \in Callers \ {x} : rec'[y] = rec[y]
  BY <1>0, CallGoesOn
<1>2. UNCHANGED <<runPc, runDep, up, wfRows, startedAt>>
  BY DEF ReconcileStep, RecordBoot, FindActive, ReadDeployment, ReadWorkflow, CloseWorkflow, SettleDeployment,
         ReleaseServer, recUnchanged, apiVars
<1>3. CASE CloseWorkflow(x)
  <2>1. /\ rec[x].pc = "wf_write" /\ UNCHANGED depStatus
        /\ \A t \in Runs : t # rec[x].wf => wfStatus'[t] = wfStatus[t]
    BY <1>0, <1>3 DEF CloseWorkflow, In
  <2>2. RunOf(rec[x].wf, rec[x].dep) /\ rec[x].wf \in tasked /\ rec[x].dep \in Deployments
    BY <1>0, <2>1 DEF LinkedCall
  <2>3. rec'[x].pc = "dep_write" /\ rec'[x].dep = rec[x].dep
    BY <1>1, <1>3, <2>1
    DEF Moved, RecordBoot, FindActive, ReadDeployment, ReadWorkflow, SettleDeployment, ReleaseServer, In
  <2>4. \A t \in Runs : Opened(t) /\ t # rec[x].wf => Opened(t)'
    BY <1>2, <2>1 DEF Opened
  <2>5. ASSUME NEW d \in Deployments, depStatus'[d] = "running" PROVE Opened(startedAt[d])' \/ Settling(d)'
    <3>1. CASE startedAt[d] = rec[x].wf
      BY <1>0, <2>1, <2>2, <2>3, <2>5, <3>1 DEF RunOf, Settling
    <3>2. CASE startedAt[d] # rec[x].wf /\ Opened(startedAt[d])
      BY <1>0, <1>2, <2>1, <2>4, <2>5, <3>2 DEF RunOf
    <3>3. CASE Settling(d)
      BY <1>1, <2>1, <3>3 DEF Settling
    <3> QED
      BY <2>1, <2>5, <3>1, <3>2, <3>3 DEF SettleInv
  <2> QED
    BY <1>0, <1>2, <2>2, <2>4, <2>5 DEF SettleInv
<1>4. CASE SettleDeployment(x)
  <2>1. /\ depStatus'[rec[x].dep] # "running" /\ \A d \in Deployments : d # rec[x].dep => depStatus'[d] = depStatus[d]
        /\ UNCHANGED wfStatus
    BY <1>0, <1>4 DEF SettleDeployment, In, LinkedCall
  <2>2. \A d \in Deployments : d # rec[x].dep /\ Settling(d) => Settling(d)'
    BY <1>1 DEF Settling
  <2> QED
    BY <1>2, <2>1, <2>2 DEF SettleInv, Opened
<1>5. CASE RecordBoot(x) \/ FindActive(x) \/ ReadDeployment(x) \/ ReadWorkflow(x) \/ ReleaseServer(x)
  <2>1. rec[x].pc # "dep_write" /\ UNCHANGED <<depStatus, wfStatus>>
    BY <1>5 DEF RecordBoot, FindActive, ReadDeployment, ReadWorkflow, ReleaseServer, In, apiVars
  <2> QED
    BY <1>1, <1>2, <2>1, SettleKept DEF SettleInv
<1> QED
  BY <1>3, <1>4, <1>5 DEF ReconcileStep

LEMMA NextSettle ==
  ASSUME ~MayCrash, TypeInv, OwnCalls, SettleInv, [Next]_vars
  PROVE  SettleInv'
<1>1. ASSUME NEW x \in Callers, EvidenceStep(x) \/ \E d \in Deployments : StartupReconcile(d) /\ x = Main
      PROVE  SettleInv'
  <2>1. UNCHANGED rec \/ (rec[x] = NoCall /\ \E c : rec' = [rec EXCEPT ![x] = c])
    BY <1>1 DEF EvidenceStep, StartupReconcile, ServeBoot, RecordAccess, GetDeployment, RecordLabEvidence, CheckSSH, Call
  <2>2. UNCHANGED <<apiVars, wfRows, startedAt>>
    BY <1>1 DEF EvidenceStep, StartupReconcile, ServeBoot, RecordAccess, GetDeployment, RecordLabEvidence, CheckSSH
  <2>3. \A y \in Callers : rec[y].pc = "dep_write" => rec'[y] = rec[y]
    BY <2>1, NoCallTyped DEF TypeInv, TypeOK
  <2> QED
    BY <2>2, <2>3, SettleKept DEF apiVars, SettleInv
<1>2. CASE UNCHANGED vars
  BY <1>2, SettleKept DEF vars, apiVars, physVars, SettleInv
<1>3. Main \in Callers /\ Pollers \subseteq Callers
  BY DEF Callers
<1> QED
  BY <1>1, <1>2, <1>3, ApiSettle, RunSettle, ReconcileSettle DEF Next

LEMMA SettleImplies ==
  ASSUME TypeInv, SettleInv
  PROVE  RunningCanSettle
<1> SUFFICES ASSUME NEW d \in Deployments, depStatus[d] = "running", ~Settling(d) PROVE RunningRows(d) # {}
  BY DEF RunningCanSettle, Settling
<1>1. Opened(startedAt[d]) /\ startedAt[d] # NoRun
  BY DEF SettleInv, TypeInv, TypeOK
<1> QED
  BY <1>1 DEF Opened, RunningRows, TypeInv, StartsLinked, AttemptsLinked, RunOf

LEMMA SettleCorrect == ASSUME ~MayCrash PROVE Spec => []SettleInv
<1>1. Init => SettleInv
  BY DEF Init, ApiInit, SettleInv
<1>2. TypeInv /\ OwnCalls /\ SettleInv /\ [Next]_vars => SettleInv'
  BY NextSettle
<1> QED
  BY <1>1, <1>2, CallsCorrect, PTL DEF Spec

(* While the process lives, nothing strands a running deployment: its        *)
(* workflow run stays open for a call to find until the call that closes it  *)
(* goes on to settle the deployment (MarkRunning's loser closes its own row, *)
(* ReconcileDeployment the newest one that has tasks).                       *)
THEOREM RunningSettleable == ASSUME ~MayCrash PROVE Spec => []RunningCanSettle
<1>1. TypeInv /\ SettleInv => RunningCanSettle
  BY SettleImplies
<1> QED
  BY <1>1, SettleCorrect, CallsCorrect, PTL

-----------------------------------------------------------------------------
(***************************************************************************)
(* The strengthening behind ActiveHoldsServer, as for deployments over a   *)
(* BMC: an active deployment, a call that has settled one and a cancel     *)
(* that has yet to look after the server are never on the same server, nor *)
(* two of a kind, and the server of each reads deploying until it is given *)
(* back.  Both need that no operator edits server rows.                    *)
(***************************************************************************)
LEMMA IdleIs == Idle \in RequestType /\ Idle.op = "idle"
BY RequestMade

CallsKept == \A x \in Callers : OwedBy(x)' => OwedBy(x) /\ rec'[x] = rec[x]
Leased == NoEditing /\ Exclusive /\ HeldIsDeploying

(* A step that makes nobody hold a server that he did not hold.              *)
LEMMA LeaseKept ==
  ASSUME LeaseInv, CallsKept, UNCHANGED depServer,
         \A d \in Deployments : depStatus'[d] \in Active => IsActive(d),
         \A q \in Requests : req'[q].op # "edit" /\ (OwedByRequest(q)' => OwedByRequest(q) /\ req'[q].dep = req[q].dep),
         \A s \in Servers : serverStatus[s] = "deploying" => serverStatus'[s] = "deploying"
  PROVE  Leased'
<1>1. /\ \A d \in Deployments : IsActive(d)' => IsActive(d) /\ depServer[d] \in Servers
      /\ \A x \in Callers : OwedBy(x)' => OwedBy(x) /\ rec'[x].dep = rec[x].dep /\ depServer[rec[x].dep] \in Servers
      /\ \A q \in Requests : OwedByRequest(q)' =>
            OwedByRequest(q) /\ req'[q].dep = req[q].dep /\ depServer[req[q].dep] \in Servers
  BY DEF CallsKept, IsActive, Active, OwedBy, OwedByRequest, LeaseInv, TypeInv, RowsLinked, RequestsLinked, CallsLinked, LinkedCall
<1>2. NoEditing'
  BY DEF NoEditing
<1>3. Exclusive'
  BY <1>1 DEF LeaseInv, Exclusive, AtMostOneActive, IsActive
<1>4. HeldIsDeploying'
  BY <1>1 DEF LeaseInv, HeldIsDeploying, ActiveHoldsServer, IsActive
<1> QED
  BY <1>2, <1>3, <1>4 DEF Leased

LEMMA CreateLease ==
  ASSUME LeaseInv, CreateStep, CallsKept
  PROVE  Leased'
<1> USE DEF LeaseInv, NoEditing
<1>0. PICK D \in SUBSET Deployments : \E target \in [D -> Servers] : Creates(D, target)
  BY CreateEffect
<1>1. PICK target \in [D -> Servers] : Creates(D, target)
  BY <1>0
<1>2. /\ DOMAIN target = D
      /\ \A s \in Servers : s \in Range(target) <=> \E d \in D : target[d] = s
  BY <1>1 DEF Range
<1>3. /\ \A d \in D : depStatus[d] = "none" /\ serverStatus[target[d]] # "deploying" /\ ActiveOn(target[d]) = {}
      /\ \A d \in Deployments : /\ d \in D => IsActive(d)' /\ depServer'[d] = target[d]
                                /\ d \notin D => /\ depStatus'[d] = depStatus[d]
                                                 /\ depServer'[d] = depServer[d]
      /\ \A d \in D : serverStatus'[target[d]] = "deploying"
      /\ \A s \in Servers : serverStatus[s] = "deploying" => serverStatus'[s] = "deploying"
      /\ \A d, e \in D : target[d] = target[e] => d = e
  BY <1>1, <1>2 DEF Creates, CreateInTx, Deployable, DeployableStatuses, IsActive, Active, IsInjective
(* Whoever owes a server its status did so before, to the same deployment.   *)
<1>4. \A x \in Callers : OwedBy(x) => rec[x].dep \in Deployments \ D
  BY <1>3 DEF OwedBy, TypeInv, CallsLinked, LinkedCall
<1>5. /\ UNCHANGED req
      /\ \A q \in Requests : OwedByRequest(q) => req[q].dep \in Deployments \ D
  BY <1>1, <1>3 DEF Creates, OwedByRequest, RequestsLinked, requestVars, TypeInv
<1>6. /\ \A x \in Callers : OwedBy(x) => depServer[rec[x].dep] \in Servers
      /\ \A q \in Requests : OwedByRequest(q) => depServer[req[q].dep] \in Servers
      /\ \A d \in Deployments : IsActive(d) => depServer[d] \in Servers
  BY DEF OwedBy, OwedByRequest, RequestsLinked, RowsLinked, IsActive, Active, TypeInv, CallsLinked, LinkedCall
<1>6a. \A x \in Callers : OwedBy(x)' => OwedBy(x) /\ rec'[x].dep = rec[x].dep
  BY DEF CallsKept
<1>7. AtMostOneActive'
  BY <1>3 DEF Exclusive, AtMostOneActive, IsActive, ActiveOn
<1>8. Exclusive'
  BY <1>3, <1>4, <1>5, <1>6, <1>6a, <1>7 DEF Exclusive, HeldIsDeploying, OwedByRequest, IsActive
<1>9. HeldIsDeploying'
  BY <1>3, <1>4, <1>5, <1>6, <1>6a DEF HeldIsDeploying, ActiveHoldsServer, OwedByRequest, IsActive
<1> QED
  BY <1>5, <1>8, <1>9 DEF Leased

LEMMA RequestLease ==
  ASSUME Edits = {}, LeaseInv, NEW q \in Requests, RequestStep(q), CallsKept
  PROVE  Leased'
<1>0. /\ req \in [Requests -> RequestType] /\ depStatus \in [Deployments -> DepStatuses]
      /\ serverStatus \in [Servers -> ServerStatuses]
      /\ \A p \in Requests : req[p].op # "edit"
      /\ \A p \in Requests : OwedByRequest(p) \/ req[p].op = "retry" =>
           req[p].dep \in Deployments /\ depServer[req[p].dep] \in Servers
      /\ \A x \in Callers : OwedBy(x) => rec[x].dep \in Deployments /\ depServer[rec[x].dep] \in Servers
      /\ \A d \in Deployments : IsActive(d) => depServer[d] \in Servers
      /\ \A x \in Callers : OwedBy(x)' => OwedBy(x) /\ rec'[x].dep = rec[x].dep
  BY DEF LeaseInv, NoEditing, TypeInv, TypeOK, ApiTypeOK, RequestsLinked, RowsLinked, CallsLinked, LinkedCall,
         OwedBy, OwedByRequest, IsActive, Active, CallsKept
<1>1. ASSUME NEW d \in Deployments, CancelDeployment(q, d) PROVE Leased'
  <2> DEFINE c == [Idle EXCEPT !.op = "cancel_read", !.dep = d]
  <2>1. c.op = "cancel_read" /\ c.dep = d /\ c \in RequestType
    BY RequestMade
  <2>2. req' = [req EXCEPT ![q] = c] /\ req[q].op = "idle" /\ UNCHANGED <<serverStatus, depServer>>
    BY <1>1, RequestMade DEF CancelDeployment
  <2> HIDE DEF c
  <2>3. /\ IsActive(d) /\ \A e \in Deployments : IsActive(e)' <=> IsActive(e) /\ e # d
    BY <1>0, <1>1 DEF CancelDeployment, IsActive, Active
  <2>4. \A p \in Requests : /\ req'[p].op # "edit"
                            /\ OwedByRequest(p)' <=> OwedByRequest(p) \/ p = q
                            /\ req'[p].dep = IF p = q THEN d ELSE req[p].dep
    BY <1>0, <2>1, <2>2 DEF OwedByRequest
  <2>4a. ~OwedByRequest(q)
    BY <2>2 DEF OwedByRequest
  <2>5. Exclusive'
    BY <1>0, <2>2, <2>3, <2>4, <2>4a DEF LeaseInv, Exclusive, AtMostOneActive, IsActive
  <2>6. HeldIsDeploying'
    BY <1>0, <2>2, <2>3, <2>4, <2>4a DEF LeaseInv, HeldIsDeploying, ActiveHoldsServer, IsActive
  <2> QED
    BY <2>4, <2>5, <2>6 DEF Leased, NoEditing
<1>2. ASSUME NEW d \in Deployments, RetryRead(q, d) PROVE Leased'
  <2> DEFINE c == [Idle EXCEPT !.op = "retry", !.dep = d]
  <2>1. c.op = "retry"
    BY RequestMade
  <2>2. req' = [req EXCEPT ![q] = c] /\ UNCHANGED <<serverStatus, depServer, depStatus>>
    BY <1>2 DEF RetryRead
  <2> HIDE DEF c
  <2> QED
    BY <1>0, <2>1, <2>2, LeaseKept DEF OwedByRequest, IsActive
<1>3. CASE CancelReadServer(q)
  <2> DEFINE c == IF serverStatus[depServer[req[q].dep]] = "deploying"
                  THEN [req[q] EXCEPT !.op = "cancel_write"] ELSE Idle
  <2>0. req[q] \in RequestType
    BY <1>0
  <2>1. c \in RequestType /\ c.op \in {"idle", "cancel_write"} /\ (c.op = "cancel_write" => c.dep = req[q].dep)
    <3>1. \A x \in RequestType : LET y == [x EXCEPT !.op = "cancel_write"]
                                 IN  y \in RequestType /\ y.op = "cancel_write" /\ y.dep = x.dep
      BY DEF RequestType
    <3>2. Idle \in RequestType /\ Idle.op = "idle"
      BY RequestMade
    <3>3. CASE serverStatus[depServer[req[q].dep]] = "deploying"
      BY <2>0, <3>1, <3>3
    <3>4. CASE serverStatus[depServer[req[q].dep]] # "deploying"
      BY <3>2, <3>4
    <3> QED
      BY <3>3, <3>4
  <2>2. req' = [req EXCEPT ![q] = c] /\ req[q].op = "cancel_read" /\ UNCHANGED <<serverStatus, depServer, depStatus>>
    BY <1>3 DEF CancelReadServer
  <2> HIDE DEF c
  <2> QED
    BY <1>0, <2>1, <2>2, LeaseKept DEF OwedByRequest, IsActive
<1>4. CASE CancelWriteServer(q)
  <2>1. /\ req' = [req EXCEPT ![q] = Idle] /\ OwedByRequest(q) /\ UNCHANGED <<depStatus, depServer>>
        /\ serverStatus' = [serverStatus EXCEPT ![depServer[req[q].dep]] = "ready"]
    BY <1>4 DEF CancelWriteServer, OwedByRequest
  <2>2. \A p \in Requests : /\ req'[p].op # "edit"
                            /\ OwedByRequest(p)' => OwedByRequest(p) /\ p # q /\ req'[p].dep = req[p].dep
    BY <1>0, <2>1, IdleIs DEF OwedByRequest
  <2>3. \A s \in Servers : s # depServer[req[q].dep] => serverStatus'[s] = serverStatus[s]
    BY <1>0, <2>1
  <2>4. Exclusive'
    BY <1>0, <2>1, <2>2 DEF LeaseInv, Exclusive, AtMostOneActive, IsActive
  <2>5. HeldIsDeploying'
    BY <1>0, <2>1, <2>2, <2>3 DEF LeaseInv, Exclusive, HeldIsDeploying, ActiveHoldsServer, IsActive
  <2> QED
    BY <2>2, <2>4, <2>5 DEF Leased, NoEditing
<1>5. ASSUME NEW r \in Runs, RetryCommit(q, r) PROVE Leased'
  <2> DEFINE d == req[q].dep
             s == depServer[d]
  <2>1. /\ req' = [req EXCEPT ![q] = Idle] /\ req[q].op = "retry" /\ UNCHANGED depServer
        /\ serverStatus[s] # "deploying" /\ ActiveOn(s) \subseteq {d}
        /\ serverStatus' = [serverStatus EXCEPT ![s] = "deploying"]
        /\ depStatus' = [depStatus EXCEPT ![d] = "pending"]
    BY <1>5 DEF RetryCommit, Deployable, DeployableStatuses
  <2>2. d \in Deployments /\ s \in Servers
    BY <1>0, <2>1
  <2>3. \A p \in Requests : /\ req'[p].op # "edit"
                            /\ OwedByRequest(p)' => OwedByRequest(p) /\ req'[p].dep = req[p].dep
    BY <1>0, <2>1, IdleIs DEF OwedByRequest
  <2>4. /\ \A e \in Deployments : IsActive(e)' <=> IsActive(e) \/ e = d
        /\ \A e \in Deployments : ~(IsActive(e) /\ depServer[e] = s)
    BY <1>0, <2>1, <2>2 DEF IsActive, Active, LeaseInv, HeldIsDeploying, ActiveHoldsServer
  <2>5. /\ \A t \in Servers : t # s => serverStatus'[t] = serverStatus[t]
        /\ serverStatus'[s] = "deploying"
    BY <1>0, <2>1, <2>2
  <2> HIDE DEF d, s
  <2>6. Exclusive'
    BY <1>0, <2>1, <2>2, <2>3, <2>4 DEF LeaseInv, Exclusive, HeldIsDeploying, AtMostOneActive, IsActive, s
  <2>7. HeldIsDeploying'
    BY <1>0, <2>1, <2>2, <2>3, <2>4, <2>5 DEF LeaseInv, HeldIsDeploying, ActiveHoldsServer, IsActive, s
  <2> QED
    BY <2>3, <2>6, <2>7 DEF Leased, NoEditing
<1>6. CASE RetryRefused(q)
  BY <1>0, <1>6, IdleIs, LeaseKept DEF RetryRefused, OwedByRequest, IsActive
<1>7. ~SaveServer(q)
  BY <1>0 DEF SaveServer
<1> QED
  BY <1>1, <1>2, <1>3, <1>4, <1>5, <1>6, <1>7
  DEF RequestStep, UpdateServer, RetireServer, ScrapServer

LEMMA ProcessLease ==
  ASSUME LeaseInv, ProcessStep, CallsKept
  PROVE  Leased'
<1>1. UNCHANGED <<serverStatus, depStatus, depServer>> /\ \A q \in Requests : req'[q] \in {req[q], Idle}
  BY DEF ProcessStep, Crash, Boot, StartupResume
<1>2. \A q \in Requests : req'[q].op # "edit" /\ (OwedByRequest(q)' => OwedByRequest(q) /\ req'[q].dep = req[q].dep)
  BY <1>1, IdleIs DEF OwedByRequest, LeaseInv, NoEditing
<1> QED
  BY <1>1, <1>2, LeaseKept DEF IsActive

LEMMA ReconcileLease ==
  ASSUME LeaseInv, NEW x \in Callers, ReconcileStep(x)
  PROVE  Leased'
<1>0. /\ rec \in [Callers -> CallType] /\ depStatus \in [Deployments -> DepStatuses]
      /\ serverStatus \in [Servers -> ServerStatuses]
      /\ \A p \in Requests : OwedByRequest(p) =>
           req[p].dep \in Deployments /\ depServer[req[p].dep] \in Servers
      /\ \A y \in Callers : rec[y].pc \in {"dep_write", "server_write"} => rec[y].dep \in Deployments /\ depServer[rec[y].dep] \in Servers
      /\ \A d \in Deployments : IsActive(d) => depServer[d] \in Servers
  BY DEF LeaseInv, TypeInv, TypeOK, ApiTypeOK, RequestsLinked, RowsLinked, CallsLinked, LinkedCall,
         OwedByRequest, IsActive, Active, CallType
<1>1. Moved(x) /\ \A y \in Callers \ {x} : rec'[y] = rec[y]
  BY <1>0, CallGoesOn DEF LeaseInv
<1>2. UNCHANGED <<depServer, req>> /\ NoEditing'
  BY DEF ReconcileStep, RecordBoot, FindActive, ReadDeployment, ReadWorkflow, CloseWorkflow, SettleDeployment,
         ReleaseServer, recUnchanged, apiVars, LeaseInv, NoEditing
<1> DEFINE d == rec[x].dep
<1>3. CASE SettleDeployment(x) /\ rec'[x].pc = "server_write" /\ rec'[x].dep = d /\ depStatus[d] = "running"
           /\ depStatus' = [depStatus EXCEPT ![d] = "success"]
  <2>1. d \in Deployments /\ IsActive(d) /\ ~OwedBy(x) /\ UNCHANGED serverStatus
    BY <1>0, <1>3 DEF SettleDeployment, In, IsActive, Active, OwedBy
  <2>2. \A e \in Deployments : IsActive(e)' <=> IsActive(e) /\ e # d
    BY <1>0, <1>3, <2>1 DEF IsActive, Active
  <2>3. \A y \in Callers : (OwedBy(y)' <=> OwedBy(y) \/ y = x) /\ rec'[y].dep = rec[y].dep
    BY <1>1, <1>3 DEF OwedBy
  <2>3a. \A y \in Callers : OwedBy(y) => rec[y].dep \in Deployments /\ depServer[rec[y].dep] \in Servers
    BY <1>0 DEF OwedBy
  <2>4. \A q \in Requests : OwedByRequest(q)' <=> OwedByRequest(q)
    BY <1>2 DEF OwedByRequest
  <2> HIDE DEF d
  <2>5. Exclusive'
    BY <1>0, <1>2, <2>1, <2>2, <2>3, <2>3a, <2>4 DEF LeaseInv, Exclusive, AtMostOneActive, IsActive, d
  <2>6. HeldIsDeploying'
    BY <1>0, <1>2, <2>1, <2>2, <2>3, <2>3a, <2>4 DEF LeaseInv, HeldIsDeploying, ActiveHoldsServer, IsActive, d
  <2> QED
    BY <1>2, <2>5, <2>6 DEF Leased
<1>4. CASE ReleaseServer(x) /\ rec'[x].pc = "idle"
  <2>1. OwedBy(x) /\ serverStatus' = [serverStatus EXCEPT ![depServer[d]] = "running"] /\ UNCHANGED depStatus
    BY <1>4 DEF ReleaseServer, In, OwedBy
  <2>2. \A s \in Servers : s # depServer[d] => serverStatus'[s] = serverStatus[s]
    BY <1>0, <2>1
  <2>3. \A y \in Callers : OwedBy(y)' => OwedBy(y) /\ y # x /\ rec'[y].dep = rec[y].dep
    BY <1>1, <1>4 DEF OwedBy
  <2>4. \A y \in Callers : OwedBy(y) => rec[y].dep \in Deployments /\ depServer[rec[y].dep] \in Servers
    BY <1>0 DEF OwedBy
  <2>5. \A q \in Requests : OwedByRequest(q)' <=> OwedByRequest(q)
    BY <1>2 DEF OwedByRequest
  <2>6. Exclusive'
    BY <1>0, <1>2, <2>1, <2>3, <2>4, <2>5 DEF LeaseInv, Exclusive, AtMostOneActive, IsActive
  <2>7. HeldIsDeploying'
    BY <1>0, <1>2, <2>1, <2>2, <2>3, <2>4, <2>5 DEF LeaseInv, Exclusive, HeldIsDeploying, ActiveHoldsServer, IsActive
  <2> QED
    BY <1>2, <2>6, <2>7 DEF Leased
<1>5. CASE CallsKept /\ UNCHANGED <<depStatus, serverStatus>>
  BY <1>2, <1>5, LeaseKept DEF IsActive, OwedByRequest, NoEditing
<1>6. CASE ~ReleaseServer(x) /\ rec'[x].pc # "server_write"
  <2>1. UNCHANGED <<depStatus, serverStatus>>
    BY <1>1, <1>6 DEF Moved, ReconcileStep, RecordBoot, FindActive, ReadDeployment, ReadWorkflow, CloseWorkflow,
       SettleDeployment, apiVars, In
  <2>2. CallsKept
    BY <1>1, <1>6 DEF CallsKept, OwedBy
  <2> QED
    BY <1>5, <2>1, <2>2
<1> QED
  BY <1>1, <1>3, <1>4, <1>6 DEF Moved, ReleaseServer, RecordBoot, FindActive, ReadDeployment, ReadWorkflow,
       CloseWorkflow, SettleDeployment, In

LEMMA NextLease ==
  ASSUME Edits = {}, LeaseInv, [Next]_vars
  PROVE  LeaseInv'
<1>0. TypeInv /\ rec \in [Callers -> CallType] /\ NoEditing /\ depStatus \in [Deployments -> DepStatuses]
      /\ Main \in Callers /\ Pollers \subseteq Callers
  BY DEF LeaseInv, TypeInv, TypeOK, ApiTypeOK, CallType, Callers
<1>1. ASSUME ApiStep PROVE Leased'
  <2>1. rec' = IF up' THEN rec ELSE [x \in Callers |-> NoCall]
    BY <1>1 DEF ApiStep, CallsAfterApi
  <2>2. CallsKept
    BY <2>1, NoCallTyped DEF CallsKept, OwedBy
  <2> QED
    <3>1. CASE CreateStep
      BY <2>2, <3>1, CreateLease
    <3>2. CASE ProcessStep
      BY <2>2, <3>2, ProcessLease
    <3>3. ASSUME NEW q \in Requests, RequestStep(q) PROVE Leased'
      BY <2>2, <3>3, RequestLease
    <3> QED
      BY <1>1, <3>1, <3>2, <3>3 DEF ApiStep, ApiNext
<1>2. ASSUME NEW r \in Runs, RunStep(r) PROVE Leased'
  <2>1. /\ UNCHANGED <<serverStatus, depServer, req>>
        /\ \A d \in Deployments : depStatus'[d] \in Active => IsActive(d)
    BY <1>0, <1>2 DEF RunStep, AcquireSlot, Begin, MarkRunning, CreateTasks, Return, Goto, requestVars, IsActive, Active
  <2>2. CallsKept
    <3>1. CASE UNCHANGED rec
      BY <3>1 DEF CallsKept, OwedBy
    <3>2. CASE CreateTasks(r)
      <4> DEFINE c == [NoCall EXCEPT !.pc = "dep", !.dep = runDep[r]]
      <4>1. c.pc = "dep"
        BY DEF NoCall
      <4>2. rec' = [rec EXCEPT ![r] = c]
        BY <3>2 DEF CreateTasks
      <4> HIDE DEF c
      <4> QED
        BY <1>0, <4>1, <4>2 DEF CallsKept, OwedBy
    <3> QED
      BY <1>2, <3>1, <3>2 DEF RunStep, AcquireSlot, Begin, MarkRunning, Return
  <2> QED
    BY <1>0, <2>1, <2>2, LeaseKept DEF NoEditing, OwedByRequest
<1>3. ASSUME NEW x \in Callers, EvidenceStep(x) \/ \E d \in Deployments : StartupReconcile(d) /\ x = Main
      PROVE  Leased'
  <2>1. UNCHANGED apiVars
    BY <1>3 DEF EvidenceStep, StartupReconcile, ServeBoot, RecordAccess, GetDeployment, RecordLabEvidence, CheckSSH
  <2>2. \/ UNCHANGED rec
        \/ \E pc \in {"boot", "dhcp", "find", "dep"}, d \in Deployments \union {NoDeployment},
              s \in Servers \union {NoServer} : Call(x, pc, d, s)
    BY <1>3 DEF EvidenceStep, StartupReconcile, ServeBoot, RecordAccess, GetDeployment, RecordLabEvidence, CheckSSH
  <2>3. ASSUME NEW pc \in {"boot", "dhcp", "find", "dep"}, NEW d \in Deployments \union {NoDeployment},
               NEW s \in Servers \union {NoServer}, Call(x, pc, d, s)
        PROVE  CallsKept
    <3> DEFINE c == [NoCall EXCEPT !.pc = pc, !.dep = d, !.server = s]
    <3>1. c.pc = pc
      BY DEF NoCall
    <3>2. rec' = [rec EXCEPT ![x] = c]
      BY <2>3 DEF Call
    <3> HIDE DEF c
    <3> QED
      BY <1>0, <3>1, <3>2 DEF CallsKept, OwedBy
  <2>4. CallsKept
    BY <2>2, <2>3 DEF CallsKept, OwedBy
  <2> QED
    BY <1>0, <2>1, <2>4, LeaseKept DEF apiVars, NoEditing, OwedByRequest, IsActive
<1>4. ASSUME UNCHANGED vars PROVE Leased'
  <2>1. UNCHANGED <<serverStatus, depStatus, depServer, req, rec>>
    BY <1>4 DEF vars, apiVars, physVars
  <2>2. CallsKept
    BY <2>1 DEF CallsKept, OwedBy
  <2> QED
    BY <1>0, <2>1, <2>2, LeaseKept DEF NoEditing, OwedByRequest, IsActive
<1>5. Leased'
  BY <1>0, <1>1, <1>2, <1>3, <1>4, ReconcileLease DEF Next
<1> QED
  BY <1>0, <1>5, NextTypeInv DEF LeaseInv, Leased

LEMMA InitLease == Init => LeaseInv
<1> SUFFICES ASSUME Init PROVE LeaseInv
  OBVIOUS
<1>1. /\ \A q \in Requests : req[q].op = "idle"
      /\ \A x \in Callers : ~OwedBy(x)
      /\ \A d \in Deployments : ~IsActive(d)
  BY IdleIs, NoCallTyped DEF Init, ApiInit, OwedBy, IsActive, Active
<1>2. NoEditing /\ Exclusive /\ HeldIsDeploying
  BY <1>1 DEF NoEditing, Exclusive, HeldIsDeploying, AtMostOneActive, ActiveHoldsServer, OwedByRequest, IsActive
<1> QED
  BY <1>2, InitTypeInv DEF LeaseInv

LEMMA LeaseCorrect == ASSUME Edits = {} PROVE Spec => []LeaseInv
<1>1. LeaseInv /\ [Next]_vars => LeaseInv'
  BY NextLease
<1> QED
  BY <1>1, InitLease, PTL DEF Spec

(* As long as no operator edits server rows, the server of a pending or      *)
(* running physical deployment reads deploying: neither a cancel nor a       *)
(* ReconcileDeployment call that comes late gives it away, and no crash does *)
(* (cancelDeployment, ReconcileDeployment, retryDeployment).                 *)
THEOREM PhysicalActiveHolds == ASSUME Edits = {} PROVE Spec => []ActiveHoldsServer
BY LeaseCorrect, PTL DEF LeaseInv, HeldIsDeploying
-----------------------------------------------------------------------------
(***************************************************************************)
(* That physical deployments implement ServerLease.  Holding says who      *)
(* holds a server row by row; the lemmas give, for each step, what becomes *)
(* of the holders.                                                         *)
(***************************************************************************)
Holding(d, s) ==
  /\ depServer[d] = s
  /\ \/ IsActive(d)
     \/ \E x \in Callers : OwedBy(x) /\ rec[x].dep = d
     \/ \E q \in Requests : OwedByRequest(q) /\ req[q].dep = d

LEMMA HoldersAre ==
  ASSUME TypeInv
  PROVE  \A s \in Servers : Holders(s) = {d \in Deployments : Holding(d, s)}
<1>1. /\ \A x \in Callers : OwedBy(x) => rec[x].dep \in Deployments
      /\ \A q \in Requests : OwedByRequest(q) => req[q].dep \in Deployments
  BY DEF OwedBy, OwedByRequest, TypeInv, RequestsLinked, CallsLinked, LinkedCall
<1> QED
  BY <1>1 DEF Holders, ActiveOn, Holding, IsActive, OwedBy, OwedByRequest

LEMMA HoldersAreNext ==
  ASSUME TypeInv'
  PROVE  \A s \in Servers : Holders(s)' = {d \in Deployments : Holding(d, s)'}
<1>1. /\ \A x \in Callers : OwedBy(x)' => rec'[x].dep \in Deployments
      /\ \A q \in Requests : OwedByRequest(q)' => req'[q].dep \in Deployments
  BY DEF OwedBy, OwedByRequest, TypeInv, RequestsLinked, CallsLinked, LinkedCall
<1> QED
  BY <1>1 DEF Holders, ActiveOn, Holding, IsActive, OwedBy, OwedByRequest

HoldersFn == [s \in Servers |-> Holders(s)]

(* A step that changes nobody's hold on a server.                            *)
LEMMA SameHolders ==
  ASSUME TypeInv, TypeInv', \A d \in Deployments, s \in Servers : Holding(d, s)' <=> Holding(d, s)
  PROVE  UNCHANGED HoldersFn
<1>1. \A s \in Servers : Holders(s)' = Holders(s)
  BY HoldersAre, HoldersAreNext
<1> QED
  BY <1>1 DEF HoldersFn

(* The same people hold for the same reasons.                                *)
SamePeople ==
  /\ UNCHANGED depServer
  /\ \A d \in Deployments : IsActive(d)' <=> IsActive(d)
  /\ \A x \in Callers : (OwedBy(x)' <=> OwedBy(x)) /\ (OwedBy(x) => rec'[x].dep = rec[x].dep)
  /\ \A q \in Requests : (OwedByRequest(q)' <=> OwedByRequest(q)) /\ (OwedByRequest(q) => req'[q].dep = req[q].dep)

LEMMA SamePeopleHold ==
  ASSUME TypeInv, TypeInv', SamePeople
  PROVE  UNCHANGED HoldersFn
BY SameHolders DEF SamePeople, Holding

(* A step that gives server s back and changes nobody else's hold.           *)
LEMMA Released ==
  ASSUME TypeInv, TypeInv', NEW s \in Servers, UNCHANGED depStatus,
         \A d \in Deployments : Holding(d, s) => ~IsActive(d),
         \A d \in Deployments, t \in Servers \ {s} : Holding(d, t)' <=> Holding(d, t),
         \A d \in Deployments : ~Holding(d, s)'
  PROVE  Lease!Release(s)
<1>1. Holders(s)' = {} /\ \A t \in Servers \ {s} : Holders(t)' = Holders(t)
  BY HoldersAre, HoldersAreNext
<1>2. HoldersFn' = [HoldersFn EXCEPT ![s] = {}]
  BY <1>1 DEF HoldersFn
<1>3. \A d \in HoldersFn[s] : depStatus[d] \notin Lease!Unsettled
  BY HoldersAre DEF HoldersFn, IsActive, Active, Lease!Unsettled
<1> QED
  BY <1>2, <1>3 DEF Lease!Release, HoldersFn

(* A step that queues the deployments in the domain of target.               *)
LEMMA Queued ==
  ASSUME TypeInv, TypeInv', NEW D \in SUBSET Deployments, NEW target \in [D -> Servers],
         IsInjective(target),
         \A d \in D : ~IsActive(d),
         \A d \in D, e \in Deployments : ~Holding(e, target[d]),
         depStatus' = [d \in Deployments |-> IF d \in D THEN "pending" ELSE depStatus[d]],
         \A d \in D, e \in Deployments : Holding(e, target[d])' <=> e = d,
         \A s \in Servers, e \in Deployments :
           (\A d \in D : target[d] # s) => (Holding(e, s)' <=> Holding(e, s))
  PROVE  Lease!Queue(target)
<1>1. /\ DOMAIN target = D
      /\ \A s \in Servers : s \in Range(target) <=> \E d \in D : target[d] = s
  BY DEF Range
<1>2. \A d \in D : depStatus[d] \notin Lease!Unsettled /\ HoldersFn[target[d]] = {}
  BY HoldersAre DEF HoldersFn, IsActive, Active, Lease!Unsettled
<1>3. \A s \in Servers : Holders(s)' = IF s \in Range(target) THEN {d \in D : target[d] = s} ELSE Holders(s)
  <2>1. ASSUME NEW s \in Servers, NEW d \in D, target[d] = s
        PROVE  Holders(s)' = {d} /\ {e \in D : target[e] = s} = {d}
    BY <2>1, HoldersAreNext DEF IsInjective
  <2>2. ASSUME NEW s \in Servers, \A d \in D : target[d] # s
        PROVE  Holders(s)' = Holders(s)
    <3>1. Holders(s) = {e \in Deployments : Holding(e, s)}
      BY HoldersAre
    <3>2. Holders(s)' = {e \in Deployments : Holding(e, s)'}
      BY HoldersAreNext
    <3>3. \A e \in Deployments : Holding(e, s)' <=> Holding(e, s)
      BY <2>2
    <3> QED
      BY <3>1, <3>2, <3>3
  <2> QED
    BY <1>1, <2>1, <2>2
<1>4. Lease!IsInjective(target) /\ Lease!Range(target) = Range(target)
  BY DEF IsInjective, Range, Lease!IsInjective, Lease!Range
<1>5. HoldersFn' = [s \in Servers |-> IF s \in Range(target) THEN {d \in D : target[d] = s} ELSE HoldersFn[s]]
  BY <1>3 DEF HoldersFn
<1> QED
  BY <1>1, <1>2, <1>4, <1>5 DEF Lease!Queue, Lease!Free, HoldersFn

Refined == Lease!Next \/ UNCHANGED <<depStatus, HoldersFn>>

LEMMA CreateRefines ==
  ASSUME LeaseInv, LeaseInv', CreateStep, UNCHANGED rec
  PROVE  Refined
<1>0. PICK D \in SUBSET Deployments : \E target \in [D -> Servers] : Creates(D, target)
  BY CreateEffect DEF LeaseInv
<1>1. PICK target \in [D -> Servers] : Creates(D, target)
  BY <1>0
<1>2. /\ DOMAIN target = D
      /\ \A s \in Servers : s \in Range(target) <=> \E d \in D : target[d] = s
  BY DEF Range
<1>3. /\ \A d \in D : depStatus[d] = "none" /\ serverStatus[target[d]] # "deploying"
      /\ \A d \in Deployments : /\ d \in D => IsActive(d)' /\ depServer'[d] = target[d]
                                /\ d \notin D => /\ depStatus'[d] = depStatus[d]
                                                 /\ depServer'[d] = depServer[d]
  BY <1>1, <1>2 DEF Creates, CreateInTx, Deployable, DeployableStatuses, IsActive, Active
<1>4. \A x \in Callers : (OwedBy(x)' <=> OwedBy(x)) /\ (OwedBy(x) => rec[x].dep \in Deployments \ D)
  BY <1>3 DEF OwedBy, LeaseInv, TypeInv, CallsLinked, LinkedCall
<1>5. /\ UNCHANGED req
      /\ \A q \in Requests : OwedByRequest(q) => req[q].dep \in Deployments \ D
  BY <1>1, <1>3 DEF Creates, OwedByRequest, requestVars, LeaseInv, TypeInv, RequestsLinked
<1>6. \A d \in D : ~IsActive(d)
  BY <1>3 DEF IsActive, Active
<1>7. \A d \in D, e \in Deployments : ~Holding(e, target[d])
  BY <1>3 DEF Holding, LeaseInv, HeldIsDeploying, ActiveHoldsServer, IsActive
<1>8. \A e \in Deployments \ D, s \in Servers : Holding(e, s)' <=> Holding(e, s)
  BY <1>3, <1>4, <1>5 DEF Holding, IsActive, OwedByRequest
<1>9. \A e \in D, s \in Servers : (Holding(e, s)' <=> target[e] = s) /\ ~Holding(e, s)
  BY <1>3, <1>4, <1>5, <1>6 DEF Holding, OwedByRequest
<1>10. \A d \in D, e \in Deployments : Holding(e, target[d])' <=> e = d
  BY <1>1, <1>7, <1>8, <1>9 DEF Creates, IsInjective
<1>11. \A s \in Servers, e \in Deployments :
         (\A d \in D : target[d] # s) => (Holding(e, s)' <=> Holding(e, s))
  BY <1>8, <1>9
<1>12. depStatus' = [d \in Deployments |-> IF d \in D THEN "pending" ELSE depStatus[d]]
  BY <1>1, <1>2 DEF Creates, CreateInTx
<1>13. Lease!Queue(target)
  BY <1>1, <1>6, <1>7, <1>10, <1>11, <1>12, Queued DEF Creates, LeaseInv
<1> QED
  BY <1>13 DEF Refined, Lease!Next

LEMMA RequestRefines ==
  ASSUME Edits = {}, LeaseInv, LeaseInv', NEW q \in Requests, RequestStep(q), UNCHANGED rec
  PROVE  Refined
<1>0. /\ TypeInv /\ TypeInv' /\ req \in [Requests -> RequestType] /\ depStatus \in [Deployments -> DepStatuses]
      /\ \A p \in Requests : req[p].op # "edit"
      /\ \A p \in Requests : OwedByRequest(p) \/ req[p].op = "retry" =>
           req[p].dep \in Deployments /\ depServer[req[p].dep] \in Servers
      /\ \A x \in Callers : (OwedBy(x)' <=> OwedBy(x)) /\ rec'[x].dep = rec[x].dep
  BY DEF LeaseInv, NoEditing, TypeInv, TypeOK, ApiTypeOK, RequestsLinked, RowsLinked, OwedBy, OwedByRequest
<1>1. ASSUME NEW d \in Deployments, CancelDeployment(q, d) PROVE Refined
  <2> DEFINE c == [Idle EXCEPT !.op = "cancel_read", !.dep = d]
  <2>1. c.op = "cancel_read" /\ c.dep = d /\ c \in RequestType
    BY RequestMade
  <2>2. req' = [req EXCEPT ![q] = c] /\ req[q].op = "idle" /\ UNCHANGED depServer
    BY <1>1, IdleIs DEF CancelDeployment
  <2> HIDE DEF c
  <2>3. IsActive(d) /\ \A e \in Deployments : IsActive(e)' <=> IsActive(e) /\ e # d
    BY <1>0, <1>1 DEF CancelDeployment, IsActive, Active
  <2>4. \A p \in Requests : /\ OwedByRequest(p)' <=> OwedByRequest(p) \/ p = q
                            /\ req'[p].dep = IF p = q THEN d ELSE req[p].dep
    BY <1>0, <2>1, <2>2 DEF OwedByRequest
  <2>5. ~OwedByRequest(q)
    BY <2>2 DEF OwedByRequest
  <2>6. UNCHANGED HoldersFn
    BY <1>0, <2>2, <2>3, <2>4, <2>5, SameHolders DEF Holding
  <2>7. Lease!Settle(d, "cancelled")
    BY <1>1, <2>6 DEF CancelDeployment, Active, Lease!Settle, Lease!Unsettled, HoldersFn
  <2> QED
    BY <2>7 DEF Refined, Lease!Next
<1>2. ASSUME NEW d \in Deployments, RetryRead(q, d) PROVE Refined
  <2> DEFINE c == [Idle EXCEPT !.op = "retry", !.dep = d]
  <2>1. c.op = "retry"
    BY RequestMade
  <2>2. req' = [req EXCEPT ![q] = c] /\ req[q].op = "idle" /\ UNCHANGED <<depServer, depStatus>>
    BY <1>2, IdleIs DEF RetryRead
  <2> HIDE DEF c
  <2>3. SamePeople
    BY <1>0, <2>1, <2>2 DEF SamePeople, OwedByRequest, IsActive
  <2> QED
    BY <1>0, <2>2, <2>3, SamePeopleHold DEF Refined
<1>3. CASE CancelReadServer(q)
  <2> DEFINE c == [req[q] EXCEPT !.op = "cancel_write"]
  <2>0. req[q] \in RequestType /\ OwedByRequest(q)
    BY <1>0, <1>3 DEF CancelReadServer, OwedByRequest
  <2>1. c.op = "cancel_write" /\ c.dep = req[q].dep
    BY <2>0, RequestMade
  <2>2. serverStatus[depServer[req[q].dep]] = "deploying"
    BY <2>0 DEF LeaseInv, HeldIsDeploying
  <2>3. req' = [req EXCEPT ![q] = c] /\ UNCHANGED <<depServer, depStatus>>
    BY <1>3, <2>2 DEF CancelReadServer
  <2> HIDE DEF c
  <2>4. SamePeople
    BY <1>0, <2>0, <2>1, <2>3 DEF SamePeople, OwedByRequest, IsActive
  <2> QED
    BY <1>0, <2>3, <2>4, SamePeopleHold DEF Refined
<1>4. CASE CancelWriteServer(q)
  <2>1. OwedByRequest(q) /\ UNCHANGED <<depStatus, depServer>> /\ req' = [req EXCEPT ![q] = Idle]
    BY <1>4 DEF CancelWriteServer, OwedByRequest
  <2>2. PICK c \in Deployments, s \in Servers : c = req[q].dep /\ s = depServer[c]
    BY <1>0, <2>1
  <2>3. /\ \A d \in Deployments : depServer[d] = s => ~IsActive(d)
        /\ \A x \in Callers : OwedBy(x) => depServer[rec[x].dep] # s
        /\ \A p \in Requests \ {q} : OwedByRequest(p) => depServer[req[p].dep] # s
    BY <2>1, <2>2 DEF LeaseInv, Exclusive
  <2>4. \A p \in Requests : (OwedByRequest(p)' <=> OwedByRequest(p) /\ p # q) /\ (p # q => req'[p].dep = req[p].dep)
    BY <1>0, <2>1, IdleIs DEF OwedByRequest
  <2>5. \A d \in Deployments, t \in Servers \ {s} : Holding(d, t)' <=> Holding(d, t)
    BY <1>0, <2>1, <2>2, <2>4 DEF IsActive, Holding
  <2>6. \A d \in Deployments : ~Holding(d, s)'
    BY <1>0, <2>1, <2>3, <2>4 DEF IsActive, Holding
  <2>7. Lease!Release(s)
    BY <1>0, <2>1, <2>3, <2>5, <2>6, Released DEF Holding
  <2> QED
    BY <2>7 DEF Refined, Lease!Next
<1>5. ASSUME NEW r \in Runs, RetryCommit(q, r) PROVE Refined
  <2>1. /\ req' = [req EXCEPT ![q] = Idle] /\ req[q].op = "retry" /\ UNCHANGED depServer
        /\ serverStatus[depServer[req[q].dep]] # "deploying"
        /\ depStatus' = [depStatus EXCEPT ![req[q].dep] = "pending"]
    BY <1>5 DEF RetryCommit, Deployable, DeployableStatuses
  <2>2. PICK d \in Deployments, s \in Servers : d = req[q].dep /\ s = depServer[d]
    BY <1>0, <2>1
  <2>3. \A e \in Deployments : ~Holding(e, s)
    BY <2>1, <2>2 DEF LeaseInv, HeldIsDeploying, ActiveHoldsServer, IsActive, Holding
  <2>4. ~IsActive(d)
    BY <2>2, <2>3 DEF Holding
  <2>5. \A p \in Requests : /\ OwedByRequest(p)' <=> OwedByRequest(p)
                            /\ OwedByRequest(p) => req'[p].dep = req[p].dep
    BY <1>0, <2>1, IdleIs DEF OwedByRequest
  <2>6. IsActive(d)' /\ \A e \in Deployments \ {d} : IsActive(e)' <=> IsActive(e)
    BY <1>0, <2>1, <2>2 DEF IsActive, Active
  <2>7. \A e \in Deployments \ {d}, t \in Servers : Holding(e, t)' <=> Holding(e, t)
    BY <1>0, <2>1, <2>5, <2>6 DEF Holding
  <2>8. \A t \in Servers : (Holding(d, t)' <=> t = s) /\ (Holding(d, t) => t = s)
    BY <2>1, <2>2, <2>6 DEF Holding
  <2>9. PICK target \in [{d} -> Servers] : IsInjective(target) /\ target[d] = s
    <3>1. [x \in {d} |-> s] \in [{d} -> Servers] /\ IsInjective([x \in {d} |-> s])
      BY DEF IsInjective
    <3> QED
      BY <3>1
  <2>10. depStatus' = [e \in Deployments |-> IF e \in {d} THEN "pending" ELSE depStatus[e]]
    BY <1>0, <2>1, <2>2
  <2>11. Lease!Queue(target)
    <3>1. {d} \in SUBSET Deployments /\ \A x \in {d} : ~IsActive(x)
      BY <2>4
    <3>2. \A x \in {d}, e \in Deployments : /\ ~Holding(e, target[x])
                                            /\ Holding(e, target[x])' <=> e = x
      BY <2>3, <2>7, <2>8, <2>9
    <3>3. \A t \in Servers, e \in Deployments :
            (\A x \in {d} : target[x] # t) => (Holding(e, t)' <=> Holding(e, t))
      BY <2>7, <2>8, <2>9
    <3> QED
      BY <1>0, <2>9, <2>10, <3>1, <3>2, <3>3, Queued
  <2> QED
    BY <2>9, <2>11 DEF Refined, Lease!Next
<1>6. CASE RetryRefused(q)
  <2>1. req' = [req EXCEPT ![q] = Idle] /\ req[q].op = "retry" /\ UNCHANGED <<depServer, depStatus>>
    BY <1>6 DEF RetryRefused
  <2>2. SamePeople
    BY <1>0, <2>1, IdleIs DEF SamePeople, OwedByRequest, IsActive
  <2> QED
    BY <1>0, <2>1, <2>2, SamePeopleHold DEF Refined
<1>7. ~SaveServer(q)
  BY <1>0 DEF SaveServer
<1> QED
  BY <1>1, <1>2, <1>3, <1>4, <1>5, <1>6, <1>7
  DEF RequestStep, UpdateServer, RetireServer, ScrapServer

LEMMA RunRefines ==
  ASSUME LeaseInv, LeaseInv', OwnCalls, NEW r \in Runs, RunStep(r)
  PROVE  Refined
<1>0. /\ TypeInv /\ TypeInv' /\ depStatus \in [Deployments -> DepStatuses] /\ rec \in [Callers -> CallType]
      /\ runPc[r] # "unused" => runDep[r] \in Deployments
  BY DEF LeaseInv, TypeInv, TypeOK, ApiTypeOK, RunsLinked, CallType
<1>1. UNCHANGED <<depServer, req>> /\ \A d \in Deployments : IsActive(d)' <=> IsActive(d)
  BY <1>0 DEF RunStep, AcquireSlot, Begin, MarkRunning, CreateTasks, Return, Goto, requestVars, IsActive, Active
<1>2. \A x \in Callers : (OwedBy(x)' <=> OwedBy(x)) /\ (OwedBy(x) => rec'[x].dep = rec[x].dep)
  <2>1. CASE UNCHANGED rec
    BY <2>1 DEF OwedBy
  <2>2. CASE CreateTasks(r)
    <3> DEFINE c == [NoCall EXCEPT !.pc = "dep", !.dep = runDep[r]]
    <3>1. c.pc = "dep"
      BY DEF NoCall
    <3>2. rec' = [rec EXCEPT ![r] = c] /\ rec[r].pc = "idle"
      BY <2>2 DEF CreateTasks, At, OwnCalls
    <3> HIDE DEF c
    <3> QED
      BY <1>0, <3>1, <3>2 DEF OwedBy
  <2> QED
    BY <2>1, <2>2 DEF RunStep, AcquireSlot, Begin, MarkRunning, Return
<1>3. UNCHANGED HoldersFn
  BY <1>0, <1>1, <1>2, SamePeopleHold DEF SamePeople, OwedByRequest
<1>4. CASE MarkRunning(r) /\ depStatus[runDep[r]] = "pending"
  BY <1>0, <1>3, <1>4 DEF MarkRunning, At, Refined, Lease!Next, Lease!Start, HoldersFn
<1>5. CASE UNCHANGED depStatus
  BY <1>3, <1>5 DEF Refined
<1> QED
  BY <1>4, <1>5 DEF RunStep, AcquireSlot, Begin, MarkRunning, CreateTasks, Return

LEMMA ReconcileRefines ==
  ASSUME LeaseInv, LeaseInv', NEW x \in Callers, ReconcileStep(x)
  PROVE  Refined
<1>0. /\ TypeInv /\ TypeInv' /\ depStatus \in [Deployments -> DepStatuses] /\ rec \in [Callers -> CallType]
      /\ \A y \in Callers : rec[y].pc \in {"dep_write", "server_write"} =>
           rec[y].dep \in Deployments /\ depServer[rec[y].dep] \in Servers
  BY DEF LeaseInv, TypeInv, TypeOK, ApiTypeOK, RowsLinked, CallType, CallsLinked, LinkedCall
<1>1. Moved(x) /\ \A y \in Callers \ {x} : rec'[y] = rec[y]
  BY <1>0, CallGoesOn
<1>2. /\ UNCHANGED <<depServer, req>>
      /\ \A q \in Requests : (OwedByRequest(q)' <=> OwedByRequest(q)) /\ req'[q].dep = req[q].dep
  BY DEF ReconcileStep, RecordBoot, FindActive, ReadDeployment, ReadWorkflow, CloseWorkflow, SettleDeployment,
         ReleaseServer, recUnchanged, apiVars, OwedByRequest
<1> DEFINE d == rec[x].dep
<1>3. CASE SettleDeployment(x) /\ rec'[x].pc = "server_write" /\ rec'[x].dep = d /\ depStatus[d] = "running"
           /\ depStatus' = [depStatus EXCEPT ![d] = "success"]
  <2>1. d \in Deployments /\ IsActive(d) /\ ~OwedBy(x)
    BY <1>0, <1>3 DEF SettleDeployment, In, IsActive, Active, OwedBy
  <2>2. \A e \in Deployments : IsActive(e)' <=> IsActive(e) /\ e # d
    BY <1>0, <1>3, <2>1 DEF IsActive, Active
  <2>3. \A y \in Callers : (OwedBy(y)' <=> OwedBy(y) \/ y = x) /\ rec'[y].dep = rec[y].dep
    BY <1>1, <1>3 DEF OwedBy
  <2>4. UNCHANGED HoldersFn
    BY <1>0, <1>2, <2>1, <2>2, <2>3, SameHolders DEF Holding
  <2>5. Lease!Settle(d, "success")
    BY <1>3, <2>4 DEF Lease!Settle, HoldersFn
  <2> QED
    BY <2>1, <2>5 DEF Refined, Lease!Next
<1>4. CASE ReleaseServer(x) /\ rec'[x].pc = "idle"
  <2>1. OwedBy(x) /\ UNCHANGED depStatus
    BY <1>4 DEF ReleaseServer, In, OwedBy
  <2>2. PICK c \in Deployments, s \in Servers : c = d /\ s = depServer[c]
    BY <1>0, <2>1 DEF OwedBy
  <2>3. /\ \A e \in Deployments : depServer[e] = s => ~IsActive(e)
        /\ \A y \in Callers \ {x} : OwedBy(y) => depServer[rec[y].dep] # s
        /\ \A p \in Requests : OwedByRequest(p) => depServer[req[p].dep] # s
    BY <2>1, <2>2 DEF LeaseInv, Exclusive
  <2>4. \A y \in Callers : (OwedBy(y)' <=> OwedBy(y) /\ y # x) /\ (y # x => rec'[y].dep = rec[y].dep)
    BY <1>1, <1>4 DEF OwedBy
  <2>5. \A e \in Deployments, t \in Servers \ {s} : Holding(e, t)' <=> Holding(e, t)
    BY <1>2, <2>1, <2>2, <2>4 DEF IsActive, Holding
  <2>6. \A e \in Deployments : ~Holding(e, s)'
    BY <1>2, <2>1, <2>3, <2>4 DEF IsActive, Holding
  <2>7. Lease!Release(s)
    BY <1>0, <2>1, <2>3, <2>5, <2>6, Released DEF Holding
  <2> QED
    BY <2>7 DEF Refined, Lease!Next
<1>5. CASE ~ReleaseServer(x) /\ rec'[x].pc # "server_write"
  <2>1. UNCHANGED depStatus /\ ~OwedBy(x)
    BY <1>1, <1>5 DEF Moved, ReconcileStep, RecordBoot, FindActive, ReadDeployment, ReadWorkflow, CloseWorkflow,
       SettleDeployment, apiVars, In, OwedBy
  <2>2. SamePeople
    BY <1>1, <1>2, <1>5, <2>1 DEF SamePeople, OwedBy, IsActive
  <2> QED
    BY <1>0, <2>1, <2>2, SamePeopleHold DEF Refined
<1> QED
  BY <1>1, <1>3, <1>4, <1>5 DEF Moved, ReleaseServer, RecordBoot, FindActive, ReadDeployment, ReadWorkflow,
       CloseWorkflow, SettleDeployment, In

LEMMA NextRefines ==
  ASSUME Edits = {}, ~MayCrash, LeaseInv, LeaseInv', OwnCalls, up', [Next]_vars
  PROVE  [Lease!Next]_(Lease!leaseVars)
<1>0. TypeInv /\ TypeInv' /\ rec \in [Callers -> CallType] /\ Main \in Callers /\ Pollers \subseteq Callers
  BY DEF LeaseInv, TypeInv, TypeOK, CallType, Callers
<1>1. ASSUME ApiStep PROVE Refined
  <2>1. UNCHANGED rec
    BY <1>1 DEF ApiStep, CallsAfterApi
  <2>2. ASSUME ProcessStep PROVE Refined
    <3>1. UNCHANGED <<depStatus, depServer, req>>
      BY <2>2 DEF ProcessStep, Crash, Boot, StartupResume
    <3> QED
      BY <1>0, <2>1, <3>1, SamePeopleHold DEF SamePeople, OwedBy, OwedByRequest, IsActive, Refined
  <2>3. ASSUME CreateStep PROVE Refined
    BY <2>1, <2>3, CreateRefines
  <2>4. ASSUME NEW q \in Requests, RequestStep(q) PROVE Refined
    BY <2>1, <2>4, RequestRefines
  <2> QED
    BY <1>1, <2>2, <2>3, <2>4 DEF ApiStep, ApiNext
<1>2. ASSUME NEW x \in Callers, EvidenceStep(x) \/ \E d \in Deployments : StartupReconcile(d) /\ x = Main
      PROVE  Refined
  <2>1. UNCHANGED apiVars
    BY <1>2 DEF EvidenceStep, StartupReconcile, ServeBoot, RecordAccess, GetDeployment, RecordLabEvidence, CheckSSH
  <2>2. \/ UNCHANGED rec
        \/ \E pc \in {"boot", "dhcp", "find", "dep"}, d \in Deployments \union {NoDeployment},
              s \in Servers \union {NoServer} : Call(x, pc, d, s)
    BY <1>2 DEF EvidenceStep, StartupReconcile, ServeBoot, RecordAccess, GetDeployment, RecordLabEvidence, CheckSSH
  <2> DEFINE Same == \A y \in Callers : (OwedBy(y)' <=> OwedBy(y)) /\ (OwedBy(y) => rec'[y].dep = rec[y].dep)
  <2>3. ASSUME NEW pc \in {"boot", "dhcp", "find", "dep"}, NEW d \in Deployments \union {NoDeployment},
               NEW s \in Servers \union {NoServer}, Call(x, pc, d, s)
        PROVE  Same
    <3> DEFINE c == [NoCall EXCEPT !.pc = pc, !.dep = d, !.server = s]
    <3>1. c.pc = pc
      BY DEF NoCall
    <3>2. rec' = [rec EXCEPT ![x] = c] /\ rec[x].pc = "idle"
      BY <2>3, NoCallTyped DEF Call
    <3> HIDE DEF c
    <3> QED
      BY <1>0, <3>1, <3>2 DEF OwedBy
  <2>4. Same
    BY <2>2, <2>3 DEF OwedBy
  <2>5. SamePeople
    BY <2>1, <2>4 DEF apiVars, SamePeople, IsActive, OwedByRequest
  <2> QED
    BY <1>0, <2>1, <2>5, SamePeopleHold DEF apiVars, Refined
<1>3. ASSUME UNCHANGED vars PROVE Refined
  <2>1. UNCHANGED <<depStatus, depServer, req, rec>>
    BY <1>3 DEF vars, apiVars, physVars
  <2> QED
    BY <1>0, <2>1, SamePeopleHold DEF SamePeople, OwedBy, OwedByRequest, IsActive, Refined
<1>4. Refined
  BY <1>0, <1>1, <1>2, <1>3, RunRefines, ReconcileRefines DEF Next
<1> QED
  BY <1>4 DEF Refined, Lease!leaseVars, HoldersFn

LEMMA InitRefines == Init => Lease!Init
<1> SUFFICES ASSUME Init PROVE Lease!Init
  OBVIOUS
<1>1. /\ \A q \in Requests : ~OwedByRequest(q)
      /\ \A x \in Callers : ~OwedBy(x)
      /\ \A d \in Deployments : ~IsActive(d)
  BY IdleIs, NoCallTyped DEF Init, ApiInit, OwedBy, OwedByRequest, IsActive, Active
<1>2. \A s \in Servers : Holders(s) = {}
  BY <1>1, HoldersAre, InitTypeInv DEF Holding
<1> QED
  BY <1>2 DEF Init, ApiInit, Lease!Init

(* Physical deployments implement the same exclusive lease: a deployment is  *)
(* queued only for a server nobody holds, settles at most once per attempt,  *)
(* and the server is given back only when every deployment that held it has  *)
(* settled, however many ReconcileDeployment calls overlap a cancel and a    *)
(* retry.  Operators do not edit server rows and the process does not die.   *)
THEOREM PhysicalLeaseImplemented == ASSUME Edits = {}, ~MayCrash PROVE Spec => ImplementsLease
<1>1. Init => Lease!Init
  BY InitRefines
<1>2. LeaseInv /\ LeaseInv' /\ OwnCalls /\ up' /\ [Next]_vars => [Lease!Next]_(Lease!leaseVars)
  BY NextRefines
<1>3. SettleInv => up
  BY DEF SettleInv
<1> QED
  BY <1>1, <1>2, <1>3, LeaseCorrect, SettleCorrect, CallsCorrect, PTL DEF Spec, ImplementsLease, Lease!Spec
================================================================================
