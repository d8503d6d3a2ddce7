-------------------------- MODULE LabValidationProofs --------------------------
(***************************************************************************)
(* Proofs about lab validation, for any number of servers, runs, requests  *)
(* and restarts, any freshness window and any set of run options.          *)
(***************************************************************************)
EXTENDS LabValidation, TLAPS

USE BoundsAssumption, LabBoundsAssumption, InputsAssumption

AnyOptions == [strict : BOOLEAN, pxe : BOOLEAN, bmc : BOOLEAN, ssh : BOOLEAN,
               servers : SUBSET Servers, macs : SUBSET Servers]
RunRows == [status : {"none", "running", "ok", "warning", "error"}, stage : Stages, startedAt : Never .. MaxTime,
            todo : SUBSET Servers, results : SUBSET Results, opts : AnyOptions]

(* Types, and nothing is dated later than now.                              *)
LabType ==
  /\ AccessTypeOK
  /\ events \subseteq Events
  /\ evidence \subseteq EvidenceRows
  /\ runs \in [Runs -> RunRows]
  /\ booted \in [Servers -> Never .. MaxTime]
  /\ requests \in 0 .. MaxRequests

Dated ==
  /\ \A e \in events : e.at <= now
  /\ \A k \in Kinds, s \in Servers : answered[k][s] <= now
  /\ \A r \in Runs : runs[r].startedAt <= now

(* A physical boot event is no later than the machine's last boot, and a row *)
(* that reads ok no later than the machine's last answer.                    *)
RowsBacked ==
  /\ \A e \in events : Physical(e) => e.at <= booted[e.server]
  /\ \A s \in Servers : ssh[s].status = "ok" => ssh[s].checkedAt <= answered["ssh"][s]

(* The stage of a run fixes the status of its row, and what is left to check.*)
StagesAgree ==
  \A r \in Runs :
    /\ runs[r].stage = "none" => runs[r] = NoRun
    /\ runs[r].stage # "none" => runs[r].opts \in Options
    /\ runs[r].stage \in Working \union {"dead"} => runs[r].status = "running"
    /\ runs[r].stage = "done" => runs[r].status \in {"ok", "warning", "error"}
    /\ runs[r].todo # {} => \/ runs[r].stage = "bmc" /\ runs[r].opts.bmc
                            \/ runs[r].stage = "ssh" /\ runs[r].opts.ssh

(* A check in flight is of the server its run is at, and the run has no other.*)
ProbesOwned ==
  \A p \in probes : p.by # ByHandler => /\ runs[p.by].stage = p.kind /\ p.server \in runs[p.by].todo
                                       /\ \A q \in probes : q.by = p.by => q = p

(* The run r is backed by evidence that rests on another run of s.           *)
Vouched(r, s) ==
  \E q \in Runs \ {r} : Finished(q) /\ runs[q].opts.strict /\ Proved(q, "ssh", s)
    /\ \E x \in evidence : x.server = s /\ x.kind = "full" /\ x.run = q

(* What a result says, while it is being collected and ever after.           *)
Explained(r, x) ==
  /\ x.kind \in {"bmc", "ssh"} => x.server \in Servers
  /\ x.kind = "bmc" /\ x.status = "success" => runs[r].opts.bmc
  /\ x.kind = "bmc" /\ x.status = "success" /\ x.proof => runs[r].startedAt <= answered["bmc"][x.server]
  /\ x.kind = "ssh" /\ x.status = "success" => runs[r].opts.ssh /\ runs[r].startedAt <= answered["ssh"][x.server]
  /\ x.kind = "pxe_boot_event" /\ x.status = "success" => x.server \in runs[r].opts.macs
  /\ x.kind = "full_chain_target" /\ x.status = "success" => Vouched(r, x.server)

ResultsExplained == \A r \in Runs : \A x \in runs[r].results : Explained(r, x)

(* No requested server is left out of the results.                           *)
Listed(r, kind, s) == \E x \in runs[r].results : x.kind = kind /\ x.server = s
WholeChain(o) == o.strict /\ o.pxe /\ o.ssh
NobodyForgotten ==
  \A r \in Runs : \A s \in runs[r].opts.servers :
    /\ runs[r].stage \in {"ssh", "persist", "report", "done"} /\ runs[r].opts.ssh => s \in runs[r].todo \/ Listed(r, "ssh", s)
    /\ runs[r].stage \in {"persist", "report", "done"} /\ WholeChain(runs[r].opts) => Listed(r, "full_chain_target", s)

OkMeansAll == \A r \in Runs : runs[r].status = "ok" => \A x \in runs[r].results : x.status = "success"

LabInv == LabType /\ Dated /\ RowsBacked /\ StagesAgree /\ ProbesOwned
            /\ ResultsExplained /\ NobodyForgotten /\ OkMeansAll
-----------------------------------------------------------------------------
(***************************************************************************)
(* What the steps do to the rows they write.                               *)
(***************************************************************************)
RunTo(r, stage, todo, results) ==
  /\ runs' \in [Runs -> RunRows]
  /\ \A q \in Runs \ {r} : runs'[q] = runs[q]
  /\ runs'[r].stage = stage /\ runs'[r].todo = todo /\ runs'[r].results = results
  /\ runs'[r].startedAt = runs[r].startedAt /\ runs'[r].opts = runs[r].opts

LEMMA AllFieldsMove ==
  ASSUME runs \in [Runs -> RunRows], NEW r \in Runs, NEW stage \in Stages, NEW todo \in SUBSET Servers,
         NEW results \in SUBSET Results,
         runs' = [runs EXCEPT ![r].stage = stage, ![r].todo = todo, ![r].results = results]
  PROVE  RunTo(r, stage, todo, results) /\ runs'[r].status = runs[r].status
BY DEF RunTo, RunRows

LEMMA ChecksMove ==
  ASSUME runs \in [Runs -> RunRows], NEW r \in Runs, NEW todo \in SUBSET Servers,
         NEW results \in SUBSET Results,
         runs' = [runs EXCEPT ![r].todo = todo, ![r].results = results]
  PROVE  RunTo(r, runs[r].stage, todo, results) /\ runs'[r].status = runs[r].status
BY DEF RunTo, RunRows

LEMMA ResultsMove ==
  ASSUME runs \in [Runs -> RunRows], NEW r \in Runs, NEW stage \in Stages,
         NEW results \in SUBSET Results,
         runs' = [runs EXCEPT ![r].stage = stage, ![r].results = results]
  PROVE  RunTo(r, stage, runs[r].todo, results) /\ runs'[r].status = runs[r].status
BY DEF RunTo, RunRows

LEMMA StageMoves ==
  ASSUME runs \in [Runs -> RunRows], NEW r \in Runs, NEW stage \in Stages,
         runs' = [runs EXCEPT ![r].stage = stage]
  PROVE  RunTo(r, stage, runs[r].todo, runs[r].results) /\ runs'[r].status = runs[r].status
BY DEF RunTo, RunRows

LEMMA StatusMoves ==
  ASSUME runs \in [Runs -> RunRows], NEW r \in Runs, NEW stage \in Stages,
         NEW status \in {"ok", "warning", "error"},
         runs' = [runs EXCEPT ![r].stage = stage, ![r].status = status]
  PROVE  RunTo(r, stage, runs[r].todo, runs[r].results) /\ runs'[r].status = status
BY DEF RunTo, RunRows

LEMMA WorstIs ==
  ASSUME NEW S
  PROVE  /\ Worst(S) \in {"ok", "warning", "error"}
         /\ Worst(S) = "ok" => "error" \notin S /\ "warning" \notin S
BY DEF Worst

LEMMA ResultTyped ==
  ASSUME NEW kind \in ResultKinds, NEW s \in Servers \union {System}, NEW status \in {"success", "failed", "skipped"},
         NEW proof \in BOOLEAN
  PROVE  /\ Result(kind, s, status, proof) \in Results
         /\ LET x == Result(kind, s, status, proof)
            IN  x.kind = kind /\ x.server = s /\ x.status = status /\ x.proof = proof
BY DEF Result, Results

(* The rows of the machines: what is known of them only gets later.          *)
AccessKept ==
  /\ AccessTypeOK'
  /\ now <= now'
  /\ \A k \in Kinds, s \in Servers : answered[k][s] <= answered'[k][s] /\ answered'[k][s] <= now'
  /\ \A s \in Servers : ssh'[s].status = "ok" => ssh'[s].checkedAt <= answered'["ssh"][s]

LEMMA StoreKeeps ==
  ASSUME LabInv, NEW p \in probes, NEW outcome \in {"error", "ok", "identified"}, StoreOutcome(p, outcome)
  PROVE  /\ AccessKept
         /\ outcome # "error" /\ (p.kind = "ssh" \/ config.adapter # "simulated") => answered'[p.kind][p.server] = now
<1>0. /\ AccessTypeOK /\ p \in Probes /\ now \in 0 .. MaxTime /\ now \in Never .. MaxTime
      /\ p.kind \in Kinds /\ p.server \in Servers
      /\ answered \in [Kinds -> [Servers -> Never .. MaxTime]]
      /\ ssh \in [Servers -> SshRows] /\ bmc \in [Servers -> BmcRows]
      /\ \A k \in Kinds, s \in Servers : answered[k][s] <= now
      /\ \A s \in Servers : ssh[s].status = "ok" => ssh[s].checkedAt <= answered["ssh"][s]
  BY DEF LabInv, LabType, Dated, RowsBacked, AccessTypeOK, Probes, Never
<1>1. UNCHANGED <<now, config, retired>> /\ probes' \subseteq Probes
  BY <1>0 DEF StoreOutcome, AccessTypeOK
<1>2. /\ answered' \in [Kinds -> [Servers -> Never .. MaxTime]]
      /\ \A k \in Kinds, s \in Servers : answered'[k][s] = answered[k][s] \/ answered'[k][s] = now
      /\ outcome # "error" /\ (p.kind = "ssh" \/ config.adapter # "simulated") => answered'[p.kind][p.server] = now
  <2>1. CASE outcome # "error" /\ (p.kind = "ssh" \/ config.adapter # "simulated")
    BY <1>0, <2>1 DEF StoreOutcome
  <2>2. CASE ~(outcome # "error" /\ (p.kind = "ssh" \/ config.adapter # "simulated"))
    BY <1>0, <2>2 DEF StoreOutcome
  <2> QED
    BY <2>1, <2>2
<1>3. \A k \in Kinds, s \in Servers : answered[k][s] <= answered'[k][s] /\ answered'[k][s] <= now
  <2>1. \A k \in Kinds, s \in Servers : answered[k][s] \in Never .. MaxTime
    BY <1>0
  <2> QED
    BY <1>0, <1>2, <2>1 DEF Never
<1>4. /\ ssh' \in [Servers -> SshRows] /\ bmc' \in [Servers -> BmcRows]
      /\ \A s \in Servers : \/ ssh'[s] = ssh[s]
                            \/ /\ s = p.server /\ p.kind = "ssh" /\ ssh'[s].checkedAt = now
                               /\ ssh'[s].status = "ok" => outcome # "error"
  <2>1. CASE p.kind = "ssh"
    <3>1. PICK status \in {"ok", "error"} :
            /\ ssh' = [ssh EXCEPT ![p.server].status = status, ![p.server].checkedAt = now]
            /\ status = "ok" => outcome # "error"
            /\ UNCHANGED bmc
      BY <2>1 DEF StoreOutcome
    <3>2. ssh' \in [Servers -> SshRows]
      BY <1>0, <3>1 DEF SshRows
    <3>3. \A s \in Servers \ {p.server} : ssh'[s] = ssh[s]
      BY <1>0, <3>1
    <3>4. ssh'[p.server].checkedAt = now /\ ssh'[p.server].status = status
      BY <1>0, <3>1 DEF SshRows
    <3> QED
      BY <1>0, <2>1, <3>1, <3>2, <3>3, <3>4
  <2>2. CASE p.kind # "ssh"
    <3>1. UNCHANGED ssh
      BY <2>2 DEF StoreOutcome
    <3>2. PICK status \in {"error", "ok"} :
            bmc' = [bmc EXCEPT ![p.server].status = status, ![p.server].checkedAt = now]
      BY <2>2 DEF StoreOutcome
    <3>3. bmc' \in [Servers -> BmcRows]
      <4>3. \A x \in BmcRows : [x EXCEPT !.status = status, !.checkedAt = now] \in BmcRows
        BY <1>0 DEF BmcRows
      <4>1. [bmc[p.server] EXCEPT !.status = status, !.checkedAt = now] \in BmcRows
        BY <1>0, <4>3
      <4>2. bmc' = [bmc EXCEPT ![p.server] = [bmc[p.server] EXCEPT !.status = status, !.checkedAt = now]]
        BY <1>0, <3>2
      <4> QED
        BY <1>0, <4>1, <4>2
    <3> QED
      BY <1>0, <3>1, <3>3
  <2> QED
    BY <2>1, <2>2
<1>5. \A s \in Servers : ssh'[s].status = "ok" => ssh'[s].checkedAt <= answered'["ssh"][s]
  <2>1. \A s \in Servers : answered["ssh"][s] \in Never .. MaxTime /\ answered'["ssh"][s] \in Never .. MaxTime
                           /\ ssh[s].checkedAt \in Never .. MaxTime
    BY <1>0, <1>2 DEF SshRows, Kinds
  <2>2. \A s \in Servers : answered["ssh"][s] <= answered'["ssh"][s]
    BY <1>3 DEF Kinds
  <2> QED
    BY <1>0, <1>2, <1>4, <2>1, <2>2 DEF Never
<1> QED
  BY <1>0, <1>1, <1>2, <1>3, <1>4, <1>5 DEF AccessKept, AccessTypeOK

LEMMA AccessKeeps ==
  ASSUME LabInv,
         \/ AccessRequest \/ AccessProgress \/ UNCHANGED accessVars
         \/ \E c \in Configs : RestartAccess(c)
         \/ \E kind \in Kinds, s \in Servers, r \in Runs :
              ReadForCheck(kind, s, r) /\ UNCHANGED <<now, config, retired, ssh, bmc, answered>>
  PROVE  AccessKept
<1>0. /\ AccessTypeOK /\ now \in 0 .. MaxTime /\ MaxTime \in Nat
      /\ answered \in [Kinds -> [Servers -> Never .. MaxTime]]
      /\ ssh \in [Servers -> SshRows] /\ bmc \in [Servers -> BmcRows] /\ retired \subseteq Servers /\ probes \subseteq Probes
      /\ \A k \in Kinds, s \in Servers : answered[k][s] <= now /\ answered[k][s] \in Int
      /\ \A s \in Servers : ssh[s].status = "ok" => ssh[s].checkedAt <= answered["ssh"][s]
  BY DEF LabInv, LabType, Dated, RowsBacked, AccessTypeOK, Never
<1>1. CASE AccessProgress
  <2>1. CASE Tick
    BY <1>0, <2>1 DEF Tick, AccessKept, AccessTypeOK
  <2>2. ASSUME NEW p \in probes, NEW outcome \in {"error", "ok", "identified"}, FinishCheckHandler(p, outcome)
        PROVE  AccessKept
    BY <2>2, StoreKeeps DEF FinishCheckHandler
  <2> QED
    BY <1>1, <2>1, <2>2 DEF AccessProgress
<1>2. ASSUME NEW s \in Servers, UpsertSSHAccess(s) PROVE AccessKept
  <2>1. ssh' \in [Servers -> SshRows] /\ \A t \in Servers : ssh'[t].status = "ok" => ssh'[t] = ssh[t]
    BY <1>0, <1>2 DEF UpsertSSHAccess, SshRows
  <2> QED
    BY <1>0, <1>2, <2>1 DEF UpsertSSHAccess, AccessKept, AccessTypeOK
<1>3. ASSUME NEW s \in Servers, NEW type \in BmcTypes, UpsertBMC(s, type) PROVE AccessKept
  <2>1. bmc' \in [Servers -> BmcRows]
    BY <1>0, <1>3 DEF UpsertBMC, BmcRows
  <2> QED
    BY <1>0, <1>3, <2>1 DEF UpsertBMC, AccessKept, AccessTypeOK
<1>4. ASSUME NEW s \in Servers, Retire(s) PROVE AccessKept
  BY <1>0, <1>4 DEF Retire, AccessKept, AccessTypeOK
<1>5. ASSUME NEW kind \in Kinds, NEW s \in Servers, NEW by \in {ByHandler} \union Runs, ReadForCheck(kind, s, by),
             UNCHANGED <<now, config, retired, ssh, bmc, answered>>
      PROVE  AccessKept
  <2>1. probes' \subseteq Probes
    BY <1>0, <1>5 DEF ReadForCheck, Probes
  <2> QED
    BY <1>0, <1>5, <2>1 DEF AccessKept, AccessTypeOK
<1>6. ASSUME NEW s \in Servers, NEW kind \in Kinds, CheckHandler(kind, s) PROVE AccessKept
  BY <1>5, <1>6 DEF CheckHandler
<1>7. ASSUME NEW c \in Configs, RestartAccess(c) PROVE AccessKept
  BY <1>0, <1>7 DEF RestartAccess, AccessKept, AccessTypeOK
<1>8. CASE UNCHANGED accessVars
  BY <1>0, <1>8 DEF accessVars, AccessKept, AccessTypeOK
<1> QED
  BY <1>1, <1>2, <1>3, <1>4, <1>5, <1>6, <1>7, <1>8 DEF AccessRequest

-----------------------------------------------------------------------------
(***************************************************************************)
(* A result stays explained: answers only get later, evidence is kept, and *)
(* a finished run never changes.                                           *)
(***************************************************************************)
FinishedStay == evidence \subseteq evidence' /\ \A q \in Runs : Finished(q) => runs'[q] = runs[q]

LEMMA ExplainedStays ==
  ASSUME LabInv, AccessKept, FinishedStay, NEW r \in Runs, NEW x, Explained(r, x),
         runs'[r].opts = runs[r].opts, runs'[r].startedAt = runs[r].startedAt
  PROVE  Explained(r, x)'
<1>1. \A s : Vouched(r, s) => Vouched(r, s)'
  BY DEF FinishedStay, Vouched, Finished, Proved
<1>2. ASSUME NEW k \in Kinds, x.server \in Servers, runs[r].startedAt <= answered[k][x.server]
      PROVE  runs'[r].startedAt <= answered'[k][x.server]
  <2>1. /\ answered[k][x.server] \in Int /\ answered'[k][x.server] \in Int /\ runs[r].startedAt \in Int
        /\ answered[k][x.server] <= answered'[k][x.server]
    BY <1>2 DEF LabInv, LabType, AccessKept, AccessTypeOK, Never, RunRows
  <2> QED
    BY <1>2, <2>1
<1> QED
  BY <1>1, <1>2 DEF Explained, Kinds

(* Boot events are dated and the machine's last boot kept.                   *)
EventsKept ==
  /\ events' \subseteq Events
  /\ booted' \in [Servers -> Never .. MaxTime]
  /\ \A e \in events' : e.at <= now' /\ (Physical(e) => e.at <= booted'[e.server])

LEMMA EventsStay ==
  ASSUME LabInv, AccessKept, UNCHANGED <<events, booted>>
  PROVE  EventsKept
<1>1. \A e \in events : e.at \in Int /\ e.at <= now /\ (Physical(e) => e.at <= booted[e.server])
  BY DEF LabInv, LabType, Dated, RowsBacked, Events
<1>2. now \in Int /\ now' \in Int /\ now <= now'
  BY DEF LabInv, LabType, AccessTypeOK, AccessKept
<1> QED
  BY <1>1, <1>2 DEF EventsKept, LabInv, LabType

(* A step that leaves the runs alone.                                        *)
LEMMA RunsStay ==
  ASSUME LabInv, AccessKept, EventsKept, UNCHANGED runs, requests' \in 0 .. MaxRequests,
         evidence \subseteq evidence', evidence' \subseteq EvidenceRows,
         \A p \in probes' : p \in probes \/ p.by = ByHandler
           \/ /\ p.by \in Runs /\ runs[p.by].stage = p.kind /\ p.server \in runs[p.by].todo
              /\ \A q \in probes' : q.by = p.by => q = p
  PROVE  LabInv'
<1>1. LabType'
  BY DEF LabInv, LabType, AccessKept, EventsKept
<1>2. Dated'
  <2>1. \A r \in Runs : runs[r].startedAt \in Int /\ runs[r].startedAt <= now
    BY DEF LabInv, LabType, Dated, RunRows, Never
  <2>2. now \in Int /\ now' \in Int /\ now <= now'
    BY DEF LabInv, LabType, AccessTypeOK, AccessKept
  <2> QED
    BY <2>1, <2>2 DEF Dated, AccessKept, EventsKept
<1>3. RowsBacked'
  BY DEF RowsBacked, AccessKept, EventsKept
<1>4. StagesAgree' /\ NobodyForgotten' /\ OkMeansAll'
  BY DEF LabInv, StagesAgree, NobodyForgotten, OkMeansAll, Listed
<1>5. ProbesOwned'
  BY DEF LabInv, ProbesOwned
<1>6. ResultsExplained'
  <2>1. FinishedStay
    BY DEF FinishedStay
  <2>2. ASSUME NEW r \in Runs, NEW x \in runs[r].results PROVE Explained(r, x)'
    BY <2>1, ExplainedStays DEF LabInv, ResultsExplained
  <2> QED
    BY <2>2 DEF ResultsExplained
<1> QED
  BY <1>1, <1>2, <1>3, <1>4, <1>5, <1>6 DEF LabInv

(* A step of run r, or one that starts it.                                   *)
LEMMA RunMoves ==
  ASSUME LabInv, AccessKept, UNCHANGED <<events, booted, evidence>>, requests' \in 0 .. MaxRequests,
         NEW r \in Runs, ~Finished(r), runs' \in [Runs -> RunRows], \A q \in Runs \ {r} : runs'[q] = runs[q],
         runs'[r].startedAt <= now,
         \A p \in probes' : p \in probes /\ (p.by = r => runs'[r].stage = p.kind /\ p.server \in runs'[r].todo),
         runs'[r].opts \in Options,
         \/ runs'[r].stage \in Working /\ runs'[r].status = "running"
         \/ runs'[r].stage = "done" /\ runs'[r].status \in {"ok", "warning", "error"},
         runs'[r].todo # {} => \/ runs'[r].stage = "bmc" /\ runs'[r].opts.bmc
                               \/ runs'[r].stage = "ssh" /\ runs'[r].opts.ssh,
         \A x \in runs'[r].results : Explained(r, x)',
         \A s \in runs'[r].opts.servers :
           /\ runs'[r].stage \in {"ssh", "persist", "report", "done"} /\ runs'[r].opts.ssh =>
                s \in runs'[r].todo \/ Listed(r, "ssh", s)'
           /\ runs'[r].stage \in {"persist", "report", "done"} /\ WholeChain(runs'[r].opts) => Listed(r, "full_chain_target", s)',
         runs'[r].status = "ok" => \A x \in runs'[r].results : x.status = "success"
  PROVE  LabInv'
<1>0. EventsKept
  BY EventsStay
<1>1. LabType'
  BY <1>0 DEF LabInv, LabType, AccessKept, EventsKept
<1>2. Dated'
  <2>1. \A q \in Runs : runs'[q].startedAt \in Int /\ runs'[q].startedAt <= now
    BY <1>1 DEF LabInv, LabType, Dated, RunRows, Never
  <2>2. now \in Int /\ now' \in Int /\ now <= now'
    BY DEF LabInv, LabType, AccessTypeOK, AccessKept
  <2> QED
    BY <1>0, <2>1, <2>2 DEF Dated, AccessKept, EventsKept
<1>3. RowsBacked'
  BY <1>0 DEF RowsBacked, AccessKept, EventsKept
<1>4. StagesAgree'
  BY DEF LabInv, StagesAgree, Working
<1>5. NobodyForgotten'
  BY DEF LabInv, NobodyForgotten, Listed
<1>6. OkMeansAll'
  BY DEF LabInv, OkMeansAll
<1>7. ProbesOwned'
  BY DEF LabInv, LabType, AccessTypeOK, Probes, ProbesOwned
<1>8. ResultsExplained'
  <2>1. FinishedStay
    BY DEF FinishedStay
  <2>2. ASSUME NEW q \in Runs \ {r}, NEW x \in runs'[q].results PROVE Explained(q, x)'
    BY <2>1, <2>2, ExplainedStays DEF LabInv, ResultsExplained
  <2> QED
    BY <2>2 DEF ResultsExplained
<1> QED
  BY <1>1, <1>2, <1>3, <1>4, <1>5, <1>6, <1>7, <1>8 DEF LabInv

(***************************************************************************)
(* The steps of a run.                                                     *)
(***************************************************************************)
LEMMA RunsTyped ==
  ASSUME LabInv
  PROVE  /\ runs \in [Runs -> RunRows]
         /\ now \in 0 .. MaxTime /\ MaxTime \in Nat
         /\ \A r \in Runs : /\ runs[r].startedAt <= now
                            /\ runs[r].todo \subseteq Servers /\ runs[r].results \subseteq Results
                            /\ runs[r].stage \in Stages /\ runs[r].opts \in AnyOptions
                            /\ runs[r].opts.servers \subseteq Servers /\ runs[r].opts.macs \subseteq Servers
                            /\ runs[r].stage # "none" => runs[r].opts \in Options
                            /\ runs[r].stage \in Working => ~Finished(r) /\ runs[r].status = "running"
<1>1. runs \in [Runs -> RunRows] /\ now \in 0 .. MaxTime /\ MaxTime \in Nat
  BY DEF LabInv, LabType, AccessTypeOK
<1>2. ASSUME NEW r \in Runs
      PROVE  /\ runs[r].startedAt <= now
             /\ runs[r].todo \subseteq Servers /\ runs[r].results \subseteq Results
             /\ runs[r].stage \in Stages /\ runs[r].opts \in AnyOptions
  BY <1>1, <1>2 DEF LabInv, Dated, RunRows
<1>3. ASSUME NEW r \in Runs
      PROVE  /\ runs[r].stage # "none" => runs[r].opts \in Options
             /\ runs[r].stage \in Working => ~Finished(r) /\ runs[r].status = "running"
  BY <1>3 DEF LabInv, StagesAgree, Working, Finished
<1>4. \A o \in AnyOptions : o.servers \subseteq Servers /\ o.macs \subseteq Servers
  BY DEF AnyOptions
<1> QED
  BY <1>1, <1>2, <1>3, <1>4

LEMMA OldStayExplained ==
  ASSUME LabInv, AccessKept, UNCHANGED evidence, NEW r \in Runs, ~Finished(r),
         NEW stage, NEW todo, NEW results, RunTo(r, stage, todo, results)
  PROVE  \A x \in runs[r].results : Explained(r, x)'
<1>1. FinishedStay
  BY DEF FinishedStay, RunTo
<1> QED
  BY <1>1, ExplainedStays DEF LabInv, ResultsExplained, RunTo

LEMMA NoProbeOf ==
  ASSUME LabInv, NEW r \in Runs, runs[r].stage \notin Kinds
  PROVE  \A p \in probes : p.by # r
<1> SUFFICES ASSUME NEW p \in probes, p.by = r
             PROVE  FALSE
  OBVIOUS
<1>1. p.kind \in Kinds
  BY DEF LabInv, LabType, AccessTypeOK, Probes
<1>2. r # ByHandler
  BY DEF Runs, ByHandler
<1> QED
  BY <1>1, <1>2 DEF LabInv, ProbesOwned

LEMMA NoRunIs ==
  /\ NoRun \in RunRows
  /\ NoRun.stage = "none" /\ NoRun.status = "none" /\ NoRun.todo = {} /\ NoRun.results = {}
<1>1. [strict |-> FALSE, pxe |-> FALSE, bmc |-> FALSE, ssh |-> FALSE, servers |-> {}, macs |-> {}] \in AnyOptions
  BY DEF AnyOptions
<1>2. MaxTime \in Nat /\ "none" \in Stages
  BY DEF Stages
<1> QED
  BY <1>1, <1>2 DEF NoRun, RunRows, Never

LEMMA BeginKeeps ==
  ASSUME LabInv, NEW r \in Runs, NEW o \in Options, BeginRun(r, o), requests' \in 0 .. MaxRequests
  PROVE  LabInv'
<1> DEFINE c == [NoRun EXCEPT !.status = "running", !.startedAt = now, !.opts = o, !.stage = "pxe"]
<1>0. /\ runs \in [Runs -> RunRows] /\ now \in 0 .. MaxTime /\ MaxTime \in Nat /\ o \in AnyOptions
  BY RunsTyped DEF AnyOptions
<1>1. /\ c \in RunRows /\ c.stage = "pxe" /\ c.status = "running" /\ c.startedAt = now /\ c.opts = o
      /\ c.todo = {} /\ c.results = {}
  <2>1. "pxe" \in Stages /\ now \in Never .. MaxTime
    BY <1>0 DEF Stages, Never
  <2> QED
    BY <1>0, <2>1, NoRunIs DEF RunRows
<1>2. /\ runs' = [runs EXCEPT ![r] = c] /\ runs[r] = NoRun
      /\ UNCHANGED <<accessVars, events, evidence, booted>>
  BY DEF BeginRun
<1> HIDE DEF c
<1>3. runs' \in [Runs -> RunRows] /\ runs'[r] = c /\ \A q \in Runs \ {r} : runs'[q] = runs[q]
  BY <1>0, <1>1, <1>2
<1>4. AccessKept
  BY <1>2, AccessKeeps
<1>5. ~Finished(r) /\ runs[r].stage = "none"
  BY <1>2, NoRunIs DEF Finished
<1>6. \A p \in probes : p.by # r
  BY <1>5, NoProbeOf DEF Kinds
<1>7. UNCHANGED <<events, booted, evidence, probes>>
  BY <1>2 DEF accessVars
<1>8. "pxe" \in Working /\ "pxe" \notin {"ssh", "persist", "report", "done"} /\ now <= now /\ "running" # "ok"
  BY <1>0 DEF Working, Stages
<1> QED
  BY <1>1, <1>3, <1>4, <1>5, <1>6, <1>7, <1>8, RunMoves

LEMMA GateIs ==
  ASSUME NEW o \in AnyOptions
  PROVE  \A x \in StrictGate(o) : x \in Results /\ x.kind = "strict_physical_targets" /\ x.status = "failed"
<1> DEFINE x == Result("strict_physical_targets", System, "failed", FALSE)
<1>1. StrictGate(o) \subseteq {x}
  BY DEF StrictGate
<1>2. x \in Results /\ x.kind = "strict_physical_targets" /\ x.status = "failed"
  BY DEF Result, Results, ResultKinds
<1> QED
  BY <1>1, <1>2

LEMMA BootChecksAre ==
  ASSUME NEW o \in AnyOptions
  PROVE  \A x \in BootEventChecks(o) : /\ x \in Results /\ x.kind = "pxe_boot_event"
                                       /\ x.status = "success" => x.server \in o.macs
<1>1. ASSUME NEW s \in o.macs
      PROVE  LET x == Result("pxe_boot_event", s, "success", FALSE)
             IN  x \in Results /\ x.kind = "pxe_boot_event" /\ x.server = s
  BY DEF Result, Results, ResultKinds, AnyOptions
<1>2. LET x == Result("pxe_boot_event", System, "failed", FALSE)
      IN  x \in Results /\ x.kind = "pxe_boot_event" /\ x.status = "failed"
  BY DEF Result, Results, ResultKinds
<1>3. \A x \in BootEventChecks(o) : \/ \E s \in o.macs : x = Result("pxe_boot_event", s, "success", FALSE)
                                    \/ x = Result("pxe_boot_event", System, "failed", FALSE)
  BY DEF BootEventChecks
<1>4. ASSUME NEW x \in BootEventChecks(o)
      PROVE  x \in Results /\ x.kind = "pxe_boot_event" /\ (x.status = "success" => x.server \in o.macs)
  <2>1. ASSUME NEW s \in o.macs, x = Result("pxe_boot_event", s, "success", FALSE)
        PROVE  x \in Results /\ x.kind = "pxe_boot_event" /\ x.server = s
    BY <1>1, <2>1
  <2>2. CASE x = Result("pxe_boot_event", System, "failed", FALSE)
    BY <1>2, <2>2
  <2> QED
    BY <1>3, <2>1, <2>2
<1> QED
  BY <1>4

LEMMA PxeKeeps ==
  ASSUME LabInv, NEW r \in Runs, NEW served \in {"success", "failed", "skipped"}, RunPXEChecks(r, served),
         UNCHANGED requests
  PROVE  LabInv'
<1> DEFINE o == runs[r].opts
           pxe == IF o.pxe THEN {Result("pxe_services", System, served, FALSE)} \union BootEventChecks(o) ELSE {}
           unconfigured == IF o.bmc THEN {s \in o.servers : ~HasBmc(s)} ELSE {}
           skipped == {Result("bmc", s, "skipped", FALSE) : s \in unconfigured}
           results == StrictGate(o) \union pxe \union skipped
<1>0. /\ runs \in [Runs -> RunRows] /\ o \in AnyOptions /\ o.servers \subseteq Servers /\ ~Finished(r)
      /\ runs[r].stage = "pxe" /\ runs[r].status = "running" /\ o \in Options /\ runs[r].startedAt <= now
  BY RunsTyped DEF RunPXEChecks, Working, Stages
<1>1. /\ runs' = [runs EXCEPT ![r].stage = "bmc", ![r].todo = EnterBmc(o), ![r].results = results]
      /\ UNCHANGED <<accessVars, events, evidence, booted>>
  BY DEF RunPXEChecks
<1>2. EnterBmc(o) \subseteq Servers /\ (EnterBmc(o) # {} => o.bmc)
  BY <1>0 DEF EnterBmc, Selected
<1>3. \A x \in results : /\ x \in Results /\ x.kind # "ssh" /\ x.kind # "full_chain_target"
                         /\ x.kind = "bmc" => x.status = "skipped" /\ x.server \in Servers
                         /\ x.kind = "pxe_boot_event" /\ x.status = "success" => x.server \in o.macs
  <2>1. \A x \in StrictGate(o) : x \in Results /\ x.kind = "strict_physical_targets"
    BY <1>0, GateIs
  <2>2. \A x \in BootEventChecks(o) : x \in Results /\ x.kind = "pxe_boot_event" /\ (x.status = "success" => x.server \in o.macs)
    BY <1>0, BootChecksAre
  <2>3. \A x \in skipped : x \in Results /\ x.kind = "bmc" /\ x.status = "skipped" /\ x.server \in Servers
    <3>1. ASSUME NEW s \in o.servers
          PROVE  LET x == Result("bmc", s, "skipped", FALSE)
                 IN  x \in Results /\ x.kind = "bmc" /\ x.status = "skipped" /\ x.server \in Servers
      BY <1>0, <3>1 DEF Result, Results, ResultKinds
    <3> QED
      BY <3>1
  <2>4. LET x == Result("pxe_services", System, served, FALSE) IN x \in Results /\ x.kind = "pxe_services"
    BY DEF Result, Results, ResultKinds
  <2> QED
    BY <2>1, <2>2, <2>3, <2>4
<1> HIDE DEF results
<1>4. RunTo(r, "bmc", EnterBmc(o), results) /\ runs'[r].status = "running"
  BY <1>0, <1>1, <1>2, <1>3, AllFieldsMove DEF Stages
<1>5. AccessKept
  BY <1>1, AccessKeeps
<1>6. \A x \in results : Explained(r, x)'
  BY <1>3, <1>4 DEF Explained, RunTo
<1>7. \A p \in probes : p.by # r
  BY <1>0, NoProbeOf DEF Kinds
<1>8. UNCHANGED <<events, booted, evidence, probes>> /\ requests' \in 0 .. MaxRequests
  BY <1>1 DEF accessVars, LabInv, LabType
<1>9. "bmc" \in Working /\ "bmc" \notin {"ssh", "persist", "report", "done"} /\ "running" # "ok"
  BY DEF Working, Stages
<1>10. /\ runs' \in [Runs -> RunRows] /\ \A q \in Runs \ {r} : runs'[q] = runs[q]
       /\ runs'[r].stage = "bmc" /\ runs'[r].todo = EnterBmc(o) /\ runs'[r].results = results
       /\ runs'[r].startedAt = runs[r].startedAt /\ runs'[r].opts = o
  BY <1>4 DEF RunTo
<1> QED
  BY <1>0, <1>2, <1>4, <1>5, <1>6, <1>7, <1>8, <1>9, <1>10, RunMoves

(* One more result, of a server that is then no longer to be checked.        *)
LEMMA PassOverKeeps ==
  ASSUME LabInv, NEW r \in Runs, NEW s \in Servers, PassOver(r, s), UNCHANGED requests
  PROVE  LabInv'
<1> DEFINE kind == runs[r].stage
           o == runs[r].opts
           skip == (kind = "bmc" /\ config.adapter = "simulated") \/ s \in retired
           todo == runs[r].todo \ {s}
<1>0. /\ runs \in [Runs -> RunRows] /\ o \in AnyOptions /\ o.servers \subseteq Servers /\ ~Finished(r)
      /\ runs[r].status = "running" /\ o \in Options /\ runs[r].startedAt <= now
      /\ kind \in {"bmc", "ssh"} /\ kind \in Working /\ \A p \in probes : p.by # r
      /\ runs[r].todo \subseteq Servers /\ runs[r].results \subseteq Results
  BY RunsTyped DEF PassOver, Working, Stages
<1>2. PICK x \in Results : /\ x = Result(kind, s, IF skip THEN "skipped" ELSE "failed", FALSE)
                           /\ x.kind = kind /\ x.server = s /\ x.status # "success"
  <2> DEFINE status == IF skip THEN "skipped" ELSE "failed"
  <2>1. status \in {"skipped", "failed"}
    OBVIOUS
  <2> HIDE DEF status
  <2>2. LET x == Result(kind, s, status, FALSE)
        IN  x \in Results /\ x.kind = kind /\ x.server = s /\ x.status # "success"
    BY <1>0, <2>1 DEF Result, Results, ResultKinds
  <2> QED
    BY <2>2 DEF status
<1> DEFINE results == runs[r].results \union {x}
<1>1. /\ runs' = [runs EXCEPT ![r].todo = todo, ![r].results = results]
      /\ UNCHANGED <<accessVars, events, evidence, booted>>
  <2>1. runs' = [runs EXCEPT ![r].todo = @ \ {s}, ![r].results = @ \union {x}]
    BY <1>2 DEF PassOver
  <2> QED
    BY <1>0, <2>1 DEF PassOver
<1>10. results \in SUBSET Results /\ x \in results /\ runs[r].results \subseteq results /\ todo \in SUBSET Servers
  BY <1>0
<1> HIDE DEF results
<1>3. RunTo(r, kind, todo, results) /\ runs'[r].status = "running"
  BY <1>0, <1>1, <1>10, ChecksMove
<1>4. AccessKept
  BY <1>1, AccessKeeps
<1>5. \A y \in results : Explained(r, y)'
  <2>1. \A y \in runs[r].results : Explained(r, y)'
    BY <1>0, <1>1, <1>3, <1>4, OldStayExplained
  <2>2. Explained(r, x)'
    BY <1>0, <1>2 DEF Explained
  <2> QED
    BY <2>1, <2>2 DEF results
<1>6. UNCHANGED <<events, booted, evidence, probes>> /\ requests' \in 0 .. MaxRequests
  BY <1>1 DEF accessVars, LabInv, LabType
<1>7. /\ runs' \in [Runs -> RunRows] /\ \A q \in Runs \ {r} : runs'[q] = runs[q]
      /\ runs'[r].stage = kind /\ runs'[r].todo = todo /\ runs'[r].results = results
      /\ runs'[r].startedAt = runs[r].startedAt /\ runs'[r].opts = o
  BY <1>3 DEF RunTo
<1>8. todo # {} => (kind = "bmc" /\ o.bmc) \/ (kind = "ssh" /\ o.ssh)
  BY DEF LabInv, StagesAgree
<1>9. \A t \in o.servers : kind \in {"ssh", "persist", "report", "done"} /\ o.ssh => t \in todo \/ Listed(r, "ssh", t)'
  <2>1. \A t \in o.servers : kind = "ssh" /\ o.ssh => t \in runs[r].todo \/ Listed(r, "ssh", t)
    BY DEF LabInv, NobodyForgotten
  <2> QED
    <3>1. Listed(r, "ssh", s)' \/ kind # "ssh"
      BY <1>2, <1>7, <1>10 DEF Listed
    <3>2. \A t \in o.servers : Listed(r, "ssh", t) => Listed(r, "ssh", t)'
      BY <1>7, <1>10 DEF Listed
    <3> QED
      BY <1>0, <2>1, <3>1, <3>2
<1> QED
  BY <1>0, <1>3, <1>4, <1>5, <1>6, <1>7, <1>8, <1>9, RunMoves

LEMMA CheckKeeps ==
  ASSUME LabInv, NEW r \in Runs, NEW outcome \in {"error", "ok", "identified"}, EndRunCheck(r, outcome),
         UNCHANGED requests
  PROVE  LabInv'
<1>1. PICK p \in probes :
        /\ p.by = r
        /\ StoreOutcome(p, outcome)
        /\ runs' = [runs EXCEPT ![r].todo = @ \ {p.server}, ![r].results = @ \union {CheckResult(r, p, outcome)}]
        /\ UNCHANGED <<events, evidence, booted>>
  BY DEF EndRunCheck
<1> DEFINE kind == runs[r].stage
           o == runs[r].opts
           s == p.server
           todo == runs[r].todo \ {s}
<1>2. /\ kind = p.kind /\ s \in runs[r].todo /\ kind \in {"bmc", "ssh"} /\ s \in Servers
      /\ \A q \in probes : q.by = r => q = p
  <2>1. p.kind \in {"bmc", "ssh"} /\ s \in Servers
    BY DEF LabInv, LabType, AccessTypeOK, Probes, Kinds
  <2>2. p.by # ByHandler
    BY <1>1 DEF Runs, ByHandler
  <2> QED
    BY <1>1, <2>1, <2>2 DEF LabInv, ProbesOwned
<1>3. /\ runs \in [Runs -> RunRows] /\ o \in AnyOptions /\ o.servers \subseteq Servers /\ ~Finished(r)
      /\ runs[r].status = "running" /\ o \in Options /\ runs[r].startedAt <= now
      /\ kind \in Working /\ now \in 0 .. MaxTime
      /\ runs[r].todo \subseteq Servers /\ runs[r].results \subseteq Results /\ kind # "none"
      /\ (kind = "bmc" /\ o.bmc) \/ (kind = "ssh" /\ o.ssh)
  <2>1. kind \in Working /\ kind # "none"
    BY <1>2 DEF Working, Stages
  <2>2. (kind = "bmc" /\ o.bmc) \/ (kind = "ssh" /\ o.ssh)
    BY <1>2 DEF LabInv, StagesAgree
  <2> QED
    BY <2>1, <2>2, RunsTyped
<1>4. PICK x \in Results : /\ x = CheckResult(r, p, outcome) /\ x.kind = kind /\ x.server = s
                           /\ x.status = "success" => outcome # "error"
                           /\ x.proof /\ kind = "bmc" => outcome = "identified"
  <2>1. p.kind \in ResultKinds /\ s \in Servers \union {System}
    BY <1>2 DEF ResultKinds
  <2> DEFINE demanded == IF p.kind = "bmc" /\ runs[r].opts.strict THEN {"identified"} ELSE {"ok", "identified"}
             proving == IF p.kind = "bmc" \/ config.hostKeys # "known_hosts" THEN {"identified"} ELSE {"ok"}
             status == IF outcome \in demanded THEN "success" ELSE "failed"
  <2>2. status \in {"success", "failed"} /\ (status = "success" => outcome # "error")
    OBVIOUS
  <2>3. p.kind = "bmc" /\ outcome \in proving => outcome = "identified"
    OBVIOUS
  <2>4. CheckResult(r, p, outcome) = Result(p.kind, s, status, outcome \in proving)
    BY DEF CheckResult
  <2> HIDE DEF demanded, proving, status
  <2>5. CASE outcome \in proving
    <3>1. LET x == Result(p.kind, s, status, TRUE)
          IN  x \in Results /\ x.kind = p.kind /\ x.server = s /\ x.status = status
      BY <2>1, <2>2 DEF Result, Results
    <3>2. CheckResult(r, p, outcome) = Result(p.kind, s, status, TRUE)
      BY <2>4, <2>5
    <3> QED
      BY <1>2, <2>2, <2>3, <2>5, <3>1, <3>2
  <2>6. CASE outcome \notin proving
    <3> DEFINE says == outcome \in proving
    <3>1. says = FALSE /\ CheckResult(r, p, outcome) = Result(p.kind, s, status, says)
      BY <2>4, <2>6
    <3> HIDE DEF says
    <3>2. CheckResult(r, p, outcome) = Result(p.kind, s, status, FALSE)
      BY <3>1
    <3>3. LET x == Result(p.kind, s, status, FALSE)
          IN  x \in Results /\ x.kind = p.kind /\ x.server = s /\ x.status = status /\ x.proof = FALSE
      BY <2>1, <2>2 DEF Result, Results
    <3> QED
      BY <1>2, <2>2, <3>2, <3>3
  <2> QED
    BY <2>5, <2>6
<1> DEFINE results == runs[r].results \union {x}
<1>5. outcome = "identified" /\ kind = "bmc" => config.adapter # "simulated"
  BY <1>1, <1>2 DEF StoreOutcome, Outcomes
<1>6. /\ AccessKept
      /\ outcome # "error" /\ (kind = "ssh" \/ config.adapter # "simulated") => answered'[kind][s] = now
  BY <1>1, <1>2, StoreKeeps
<1>7. RunTo(r, kind, todo, results) /\ runs'[r].status = "running"
  <2>1. runs' = [runs EXCEPT ![r].todo = @ \ {s}, ![r].results = @ \union {x}]
    BY <1>1, <1>4
  <2>2. runs' = [runs EXCEPT ![r].todo = todo, ![r].results = results]
    BY <1>3, <2>1
  <2>3. results \in SUBSET Results /\ todo \in SUBSET Servers
    BY <1>3, <1>4
  <2> HIDE DEF results, todo
  <2> QED
    BY <1>3, <2>2, <2>3, ChecksMove
<1>8. /\ runs' \in [Runs -> RunRows] /\ \A q \in Runs \ {r} : runs'[q] = runs[q]
      /\ runs'[r].stage = kind /\ runs'[r].todo = todo /\ runs'[r].results = results
      /\ runs'[r].startedAt = runs[r].startedAt /\ runs'[r].opts = o
  BY <1>7 DEF RunTo
<1>9. \A y \in results : Explained(r, y)'
  <2>1. \A y \in runs[r].results : Explained(r, y)'
    BY <1>1, <1>3, <1>6, <1>7, OldStayExplained
  <2>2. Explained(r, x)'
    BY <1>2, <1>3, <1>4, <1>5, <1>6, <1>8 DEF Explained
  <2> QED
    BY <2>1, <2>2
<1>10. UNCHANGED <<events, booted, evidence>> /\ requests' \in 0 .. MaxRequests /\ probes' = probes \ {p}
  BY <1>1 DEF StoreOutcome, LabInv, LabType
<1>11. todo # {} => (kind = "bmc" /\ o.bmc) \/ (kind = "ssh" /\ o.ssh)
  BY <1>3
<1>12. \A t \in o.servers : kind \in {"ssh", "persist", "report", "done"} /\ o.ssh => t \in todo \/ Listed(r, "ssh", t)'
  <2>1. \A t \in o.servers : kind = "ssh" /\ o.ssh => t \in runs[r].todo \/ Listed(r, "ssh", t)
    BY DEF LabInv, NobodyForgotten
  <2> QED
    BY <1>2, <1>4, <1>8, <2>1 DEF Listed
<1>13. \A q \in probes' : q \in probes /\ q.by # r
  BY <1>1, <1>2, <1>10
<1> QED
  BY <1>3, <1>6, <1>7, <1>8, <1>9, <1>10, <1>11, <1>12, <1>13, RunMoves

LEMMA SshChecksKeep ==
  ASSUME LabInv, NEW r \in Runs, EnterSshChecks(r), UNCHANGED requests
  PROVE  LabInv'
<1> DEFINE o == runs[r].opts
           named == IF o.ssh THEN {t \in o.servers : ~HasSsh(t)} ELSE {}
           results == runs[r].results \union {Result("ssh", s, "failed", FALSE) : s \in named}
<1>0. /\ runs \in [Runs -> RunRows] /\ o \in AnyOptions /\ o.servers \subseteq Servers /\ ~Finished(r)
      /\ runs[r].status = "running" /\ o \in Options /\ runs[r].startedAt <= now /\ runs[r].results \subseteq Results
      /\ runs[r].stage = "bmc" /\ runs[r].todo = {}
  BY RunsTyped DEF EnterSshChecks, Working, Stages
<1>1. /\ runs' = [runs EXCEPT ![r].stage = "ssh", ![r].todo = EnterSsh(o), ![r].results = results]
      /\ UNCHANGED <<accessVars, events, evidence, booted>>
  BY <1>0 DEF EnterSshChecks
<1>2. EnterSsh(o) \subseteq Servers /\ (EnterSsh(o) # {} => o.ssh)
  BY <1>0 DEF EnterSsh, Selected
<1>3. /\ results \subseteq Results
      /\ \A x \in results : \/ x \in runs[r].results
                            \/ x.kind = "ssh" /\ x.status = "failed" /\ x.server \in Servers
      /\ \A s \in named : \E x \in results : x.kind = "ssh" /\ x.server = s
      /\ runs[r].results \subseteq results
  <2> DEFINE refusal(s) == Result("ssh", s, "failed", FALSE)
             failed == {refusal(s) : s \in named}
  <2>1. ASSUME NEW s \in Servers
        PROVE  /\ refusal(s) \in Results /\ refusal(s).kind = "ssh"
               /\ refusal(s).status = "failed" /\ refusal(s).server = s
    BY DEF Result, Results, ResultKinds
  <2>4. named \subseteq Servers
    BY <1>0
  <2> HIDE DEF refusal, named
  <2>2. \A x \in failed : x \in Results /\ x.kind = "ssh" /\ x.status = "failed" /\ x.server \in Servers
    BY <2>1, <2>4
  <2>3. \A s \in named : refusal(s) \in failed /\ refusal(s).kind = "ssh" /\ refusal(s).server = s
    BY <2>1, <2>4
  <2>5. results = runs[r].results \union failed
    BY DEF failed, refusal
  <2> HIDE DEF failed
  <2> QED
    BY <1>0, <2>2, <2>3, <2>5
<1> HIDE DEF results
<1>4. RunTo(r, "ssh", EnterSsh(o), results) /\ runs'[r].status = "running"
  <2>1. "ssh" \in Stages /\ EnterSsh(o) \in SUBSET Servers /\ results \in SUBSET Results
    BY <1>2, <1>3 DEF Stages
  <2>2. /\ runs \in [Runs -> RunRows] /\ runs[r].status = "running"
        /\ runs' = [runs EXCEPT ![r].stage = "ssh", ![r].todo = EnterSsh(o), ![r].results = results]
    BY <1>0, <1>1
  <2> QED
    BY <2>1, <2>2, AllFieldsMove
<1>5. AccessKept
  BY <1>1, AccessKeeps
<1>6. \A x \in results : Explained(r, x)'
  <2>1. \A x \in runs[r].results : Explained(r, x)'
    BY <1>0, <1>1, <1>4, <1>5, OldStayExplained
  <2> QED
    BY <1>3, <2>1 DEF Explained
<1>7. \A p \in probes : p.by # r
  BY <1>0 DEF LabInv, ProbesOwned, Runs, ByHandler
<1>8. UNCHANGED <<events, booted, evidence, probes>> /\ requests' \in 0 .. MaxRequests
  BY <1>1 DEF accessVars, LabInv, LabType
<1>9. "ssh" \in Working /\ "running" # "ok" /\ "ssh" \notin {"persist", "report", "done"}
  BY DEF Working, Stages
<1>10. /\ runs' \in [Runs -> RunRows] /\ \A q \in Runs \ {r} : runs'[q] = runs[q]
       /\ runs'[r].stage = "ssh" /\ runs'[r].todo = EnterSsh(o) /\ runs'[r].results = results
       /\ runs'[r].startedAt = runs[r].startedAt /\ runs'[r].opts = o
  BY <1>4 DEF RunTo
<1>11. \A s \in o.servers : o.ssh => s \in EnterSsh(o) \/ Listed(r, "ssh", s)'
  BY <1>0, <1>3, <1>10 DEF EnterSsh, Selected, Listed
<1> QED
  BY <1>0, <1>2, <1>4, <1>5, <1>6, <1>7, <1>8, <1>9, <1>10, <1>11, RunMoves

(* A target that is ready rests on full evidence, and so on a finished run.  *)
LEMMA ReadyIsVouched ==
  ASSUME NEW r, ~Finished(r), NEW s, FullChainReady(s), evidence \subseteq EvidenceRows
  PROVE  Vouched(r, s)
<1>1. PICK x \in evidence : x.server = s /\ x.kind = "full" /\ CountsAsFreshOk(x)
  BY DEF FullChainReady, EvidenceOk
<1>2. FullRunOk(x.run, s, x.event)
  BY <1>1 DEF CountsAsFreshOk
<1>3. x.run \in Runs /\ Finished(x.run) /\ runs[x.run].opts.strict /\ Proved(x.run, "ssh", s)
  BY <1>2 DEF FullRunOk, RunUsable, EvidenceRows
<1> QED
  BY <1>1, <1>3 DEF Vouched

LEMMA TargetsKeep ==
  ASSUME LabInv, NEW r \in Runs, StrictFullChainTargets(r), UNCHANGED requests
  PROVE  LabInv'
<1> DEFINE o == runs[r].opts
           target(s) == Result("full_chain_target", s, IF FullChainReady(s) THEN "success" ELSE "failed", FALSE)
           results == runs[r].results \union IF o.strict /\ o.pxe /\ o.ssh THEN {target(s) : s \in o.servers} ELSE {}
<1>0. /\ runs \in [Runs -> RunRows] /\ o \in AnyOptions /\ o.servers \subseteq Servers /\ ~Finished(r)
      /\ runs[r].status = "running" /\ o \in Options /\ runs[r].startedAt <= now /\ runs[r].results \subseteq Results
      /\ runs[r].stage = "ssh" /\ runs[r].todo = {}
  BY RunsTyped DEF StrictFullChainTargets, Working, Stages
<1>1. /\ runs' = [runs EXCEPT ![r].stage = "persist", ![r].results = results]
      /\ UNCHANGED <<accessVars, events, evidence, booted>>
  BY <1>0 DEF StrictFullChainTargets
<1>2. ASSUME NEW s \in o.servers
      PROVE  /\ target(s) \in Results /\ target(s).kind = "full_chain_target" /\ target(s).server = s
             /\ target(s).status = "success" => Vouched(r, s)
  <2>1. FullChainReady(s) => Vouched(r, s)
    BY <1>0, ReadyIsVouched DEF LabInv, LabType
  <2> QED
    BY <1>0, <2>1 DEF Result, Results, ResultKinds
<1> HIDE DEF target
<1>3. /\ results \subseteq Results
      /\ \A x \in results :
           \/ x \in runs[r].results
           \/ x.kind = "full_chain_target" /\ (x.status = "success" => Vouched(r, x.server))
      /\ WholeChain(o) => \A s \in o.servers : \E x \in results : x.kind = "full_chain_target" /\ x.server = s
      /\ runs[r].results \subseteq results
  BY <1>0, <1>2 DEF WholeChain
<1> HIDE DEF results
<1>4. RunTo(r, "persist", {}, results) /\ runs'[r].status = "running"
  <2>1. "persist" \in Stages /\ results \in SUBSET Results
    BY <1>3 DEF Stages
  <2>2. RunTo(r, "persist", runs[r].todo, results) /\ runs'[r].status = runs[r].status
    BY <1>0, <1>1, <2>1, ResultsMove
  <2> QED
    BY <1>0, <2>2 DEF RunTo
<1>5. AccessKept
  BY <1>1, AccessKeeps
<1>6. \A x \in results : Explained(r, x)'
  <2>1. \A x \in runs[r].results : Explained(r, x)'
    BY <1>0, <1>1, <1>4, <1>5, OldStayExplained
  <2>2. \A s : Vouched(r, s) => Vouched(r, s)'
    BY <1>0, <1>1, <1>4 DEF RunTo, Vouched, Proved, Finished
  <2> QED
    BY <1>3, <2>1, <2>2 DEF Explained
<1>7. \A p \in probes : p.by # r
  BY <1>0 DEF LabInv, ProbesOwned, Runs, ByHandler
<1>8. UNCHANGED <<events, booted, evidence, probes>> /\ requests' \in 0 .. MaxRequests
  BY <1>1 DEF accessVars, LabInv, LabType
<1>9. "persist" \in Working /\ "running" # "ok"
  BY DEF Working, Stages
<1>10. /\ runs' \in [Runs -> RunRows] /\ \A q \in Runs \ {r} : runs'[q] = runs[q]
       /\ runs'[r].stage = "persist" /\ runs'[r].todo = {} /\ runs'[r].results = results
       /\ runs'[r].startedAt = runs[r].startedAt /\ runs'[r].opts = o
  BY <1>4 DEF RunTo
<1>11. \A s \in o.servers : /\ o.ssh => Listed(r, "ssh", s)'
                            /\ WholeChain(o) => Listed(r, "full_chain_target", s)'
  <2>1. \A s \in o.servers : o.ssh => Listed(r, "ssh", s)
    BY <1>0 DEF LabInv, NobodyForgotten
  <2> QED
    BY <1>3, <1>10, <2>1 DEF Listed
<1> QED
  BY <1>0, <1>4, <1>5, <1>6, <1>7, <1>8, <1>9, <1>10, <1>11, RunMoves

LEMMA PersistKeeps ==
  ASSUME LabInv, NEW r \in Runs, PersistResults(r), UNCHANGED requests
  PROVE  LabInv'
<1> DEFINE o == runs[r].opts
           results == runs[r].results
<1>0. /\ runs \in [Runs -> RunRows] /\ o \in AnyOptions /\ o.servers \subseteq Servers /\ ~Finished(r)
      /\ o \in Options /\ runs[r].startedAt <= now /\ runs[r].stage = "persist" /\ runs[r].status = "running"
  BY RunsTyped DEF PersistResults, Working, Stages
<1>1. /\ runs' = [runs EXCEPT ![r].stage = "report"]
      /\ UNCHANGED <<accessVars, events, evidence, booted>>
  BY DEF PersistResults
<1>2. RunTo(r, "report", runs[r].todo, results) /\ runs'[r].status = "running"
  BY <1>0, <1>1, StageMoves DEF Stages
<1>3. AccessKept
  BY <1>1, AccessKeeps
<1>4. \A x \in results : Explained(r, x)'
  BY <1>0, <1>1, <1>2, <1>3, OldStayExplained
<1>5. \A p \in probes : p.by # r
  BY <1>0, NoProbeOf DEF Kinds
<1>6. UNCHANGED <<events, booted, evidence, probes>> /\ requests' \in 0 .. MaxRequests
  BY <1>1 DEF accessVars, LabInv, LabType
<1>7. /\ runs' \in [Runs -> RunRows] /\ \A q \in Runs \ {r} : runs'[q] = runs[q]
      /\ runs'[r].stage = "report" /\ runs'[r].todo = runs[r].todo /\ runs'[r].results = results
      /\ runs'[r].startedAt = runs[r].startedAt /\ runs'[r].opts = o
  BY <1>2 DEF RunTo
<1>8. runs[r].todo = {}
  BY <1>0 DEF LabInv, StagesAgree
<1>9. \A s \in o.servers : /\ o.ssh => s \in runs[r].todo \/ Listed(r, "ssh", s)'
                           /\ WholeChain(o) => Listed(r, "full_chain_target", s)'
  BY <1>0, <1>7 DEF LabInv, NobodyForgotten, Listed
<1>10. "report" \in Working /\ "running" # "ok"
  BY DEF Working, Stages
<1> QED
  BY <1>0, <1>2, <1>3, <1>4, <1>5, <1>6, <1>7, <1>8, <1>9, <1>10, RunMoves

LEMMA FinishKeeps ==
  ASSUME LabInv, NEW r \in Runs, FinishRun(r), UNCHANGED requests
  PROVE  LabInv'
<1> DEFINE o == runs[r].opts
           results == runs[r].results
           status == ReportStatus(r, results)
<1>0. /\ runs \in [Runs -> RunRows] /\ o \in AnyOptions /\ o.servers \subseteq Servers /\ ~Finished(r)
      /\ o \in Options /\ runs[r].startedAt <= now /\ runs[r].stage = "report"
  BY RunsTyped DEF FinishRun, Working, Stages
<1>1. /\ runs' = [runs EXCEPT ![r].stage = "done", ![r].status = status]
      /\ UNCHANGED <<accessVars, events, evidence, booted>>
  BY DEF FinishRun
<1>2. status \in {"ok", "warning", "error"} /\ (status = "ok" => \A x \in results : x.status = "success")
  <2>1. status \in {"ok", "warning", "error"}
        /\ (status = "ok" => ResultReport(results) # "error" /\ ResultReport(results) # "warning")
    BY WorstIs DEF ReportStatus
  <2>2. ResultReport(results) \in {"ok", "warning", "error"}
    BY WorstIs DEF ResultReport
  <2>3. ASSUME ResultReport(results) = "ok", NEW x \in results PROVE x.status = "success"
    <3>1. LET all == {CASE y.status = "failed" -> "error" [] y.status = "skipped" -> "warning"
                        [] OTHER -> "ok" : y \in results}
          IN  "error" \notin all /\ "warning" \notin all
      BY <2>3, WorstIs DEF ResultReport
    <3>2. x.status # "failed" /\ x.status # "skipped"
      BY <3>1
    <3>3. x.status \in {"success", "failed", "skipped"}
      BY RunsTyped DEF Results
    <3> QED
      BY <3>2, <3>3
  <2> QED
    BY <2>1, <2>2, <2>3
<1> HIDE DEF status
<1>3. RunTo(r, "done", runs[r].todo, results) /\ runs'[r].status = status
  BY <1>0, <1>1, <1>2, StatusMoves DEF Stages
<1>4. AccessKept
  BY <1>1, AccessKeeps
<1>5. \A x \in results : Explained(r, x)'
  BY <1>0, <1>1, <1>3, <1>4, OldStayExplained
<1>6. \A p \in probes : p.by # r
  BY <1>0, NoProbeOf DEF Kinds
<1>7. UNCHANGED <<events, booted, evidence, probes>> /\ requests' \in 0 .. MaxRequests
  BY <1>1 DEF accessVars, LabInv, LabType
<1>8. /\ runs' \in [Runs -> RunRows] /\ \A q \in Runs \ {r} : runs'[q] = runs[q]
      /\ runs'[r].stage = "done" /\ runs'[r].todo = runs[r].todo /\ runs'[r].results = results
      /\ runs'[r].startedAt = runs[r].startedAt /\ runs'[r].opts = o
  BY <1>3 DEF RunTo
<1>9. runs[r].todo = {}
  BY <1>0 DEF LabInv, StagesAgree
<1>10. \A s \in o.servers : /\ o.ssh => s \in runs[r].todo \/ Listed(r, "ssh", s)'
                            /\ WholeChain(o) => Listed(r, "full_chain_target", s)'
  BY <1>0, <1>8 DEF LabInv, NobodyForgotten, Listed
<1> QED
  BY <1>0, <1>2, <1>3, <1>4, <1>5, <1>6, <1>7, <1>8, <1>9, <1>10, RunMoves

(***************************************************************************)
(* The steps that leave the runs to themselves, and the restart.           *)
(***************************************************************************)
LEMMA AccessStepKeeps ==
  ASSUME LabInv, AccessRequest \/ AccessProgress, UNCHANGED labOwnVars, requests' \in 0 .. MaxRequests
  PROVE  LabInv'
<1>1. AccessKept
  BY AccessKeeps
<1>2. EventsKept /\ UNCHANGED <<runs, evidence>>
  BY <1>1, EventsStay DEF labOwnVars
<1>3. \A p \in probes' : p \in probes \/ p.by = ByHandler
  <2>1. CASE AccessRequest
    <3>1. PICK s \in Servers :
            \/ UpsertSSHAccess(s) \/ Retire(s) \/ (\E type \in BmcTypes : UpsertBMC(s, type))
            \/ \E kind \in Kinds : CheckHandler(kind, s)
      BY <2>1 DEF AccessRequest
    <3>2. UNCHANGED probes \/ \E kind \in Kinds : probes' = probes \union {[kind |-> kind, server |-> s, by |-> ByHandler]}
      BY <3>1 DEF UpsertSSHAccess, UpsertBMC, Retire, CheckHandler, ReadForCheck
    <3> QED
      BY <3>2
  <2>2. CASE AccessProgress
    <3>1. probes' \subseteq probes
      BY <2>2 DEF AccessProgress, Tick, FinishCheckHandler, StoreOutcome
    <3> QED
      BY <3>1
  <2> QED
    BY <2>1, <2>2
<1>4. evidence' \subseteq EvidenceRows
  BY <1>2 DEF LabInv, LabType
<1> QED
  BY <1>1, <1>2, <1>3, <1>4, RunsStay

LEMMA StartCheckKeeps ==
  ASSUME LabInv, NEW r \in Runs, NEW s \in Servers, StartRunCheck(r, s), UNCHANGED requests
  PROVE  LabInv'
<1> DEFINE kind == runs[r].stage
           started == [kind |-> kind, server |-> s, by |-> r]
<1>1. /\ kind \in Kinds /\ s \in runs[r].todo /\ \A p \in probes : p.by # r
      /\ ReadForCheck(kind, s, r) /\ UNCHANGED <<now, config, retired, ssh, bmc, answered>>
      /\ UNCHANGED labOwnVars
  BY DEF StartRunCheck, Kinds
<1>2. probes' = probes \union {started}
  BY <1>1 DEF ReadForCheck
<1>3. AccessKept
  BY <1>1, AccessKeeps
<1>4. EventsKept /\ UNCHANGED <<runs, evidence>>
  BY <1>1, <1>3, EventsStay DEF labOwnVars
<1>5. evidence' \subseteq EvidenceRows /\ requests' \in 0 .. MaxRequests
  BY <1>4 DEF LabInv, LabType
<1>6. started.by = r /\ started.kind = kind /\ started.server = s
  OBVIOUS
<1> HIDE DEF started
<1>7. \A p \in probes' : p \in probes \/ (p = started /\ \A q \in probes' : q.by = p.by => q = p)
  BY <1>1, <1>2, <1>6
<1> QED
  BY <1>1, <1>3, <1>4, <1>5, <1>6, <1>7, RunsStay

LEMMA BootKeeps ==
  ASSUME LabInv, NEW s \in Servers, NEW source \in Sources, RecordBootEvent(s, source), requests' \in 0 .. MaxRequests
  PROVE  LabInv'
<1>1. PICK e : /\ e = [server |-> s, source |-> source, at |-> now]
               /\ events' = events \union {e}
               /\ booted' = IF Physical(e) THEN [booted EXCEPT ![s] = now] ELSE booted
               /\ UNCHANGED <<accessVars, evidence, runs>>
  BY DEF RecordBootEvent
<1>2. AccessKept
  BY <1>1, AccessKeeps
<1>3. /\ now \in 0 .. MaxTime /\ MaxTime \in Nat /\ events \subseteq Events /\ booted \in [Servers -> Never .. MaxTime]
      /\ \A f \in events : f.at <= now /\ f.at \in Int /\ f.server \in Servers /\ (Physical(f) => f.at <= booted[f.server])
      /\ now' = now /\ now \in Never .. MaxTime
  BY <1>1 DEF LabInv, LabType, AccessTypeOK, Dated, RowsBacked, Events, Never, accessVars
<1>4. e \in Events /\ e.server = s /\ e.at = now
  BY <1>1, <1>3 DEF Events
<1>5. /\ booted' \in [Servers -> Never .. MaxTime]
      /\ \A t \in Servers : booted'[t] = booted[t] \/ booted'[t] = now
      /\ Physical(e) => booted'[s] = now
  BY <1>1, <1>3
<1>6. \A f \in events : Physical(f) => f.at <= booted'[f.server]
  BY <1>3, <1>5
<1>7. EventsKept
  BY <1>1, <1>3, <1>4, <1>5, <1>6 DEF EventsKept
<1>8. UNCHANGED <<runs, evidence, probes>> /\ evidence' \subseteq EvidenceRows
  BY <1>1 DEF accessVars, LabInv, LabType
<1> QED
  BY <1>2, <1>7, <1>8, RunsStay

LEMMA EvidenceKeeps ==
  ASSUME LabInv, NEW claim \in Claims, NEW s \in Servers, NEW e \in events \union {NoEvent}, NEW r \in {0} \union Runs,
         RecordEvidence(claim[1], claim[2], s, e, r), requests' \in 0 .. MaxRequests
  PROVE  LabInv'
<1> DEFINE kind == claim[1]
           status == claim[2]
           ref == status = "ok" /\ kind \in {"bmc", "full"} /\ HasBmc(s)
<1>1. PICK x : /\ x = [kind |-> kind, status |-> status, server |-> s, event |-> e, run |-> r, at |-> now, bmcRef |-> ref]
               /\ evidence' = evidence \union {x}
               /\ UNCHANGED <<accessVars, events, runs, booted>>
  BY DEF RecordEvidence, EvidenceRow
<1>2. AccessKept
  BY <1>1, AccessKeeps
<1>3. EventsKept
  BY <1>1, <1>2, EventsStay
<1>4. x \in EvidenceRows
  <2>1. kind \in {"pxe", "bmc", "ssh", "full"} /\ status \in {"ok", "error"}
    OBVIOUS
  <2>2. e \in Events \union {NoEvent} /\ now \in 0 .. MaxTime
    BY DEF LabInv, LabType, AccessTypeOK
  <2>3. ref \in BOOLEAN
    OBVIOUS
  <2> HIDE DEF kind, status, ref
  <2> QED
    BY <1>1, <2>1, <2>2, <2>3 DEF EvidenceRows
<1>5. UNCHANGED <<runs, probes>> /\ evidence \subseteq evidence' /\ evidence' \subseteq EvidenceRows
  BY <1>1, <1>4 DEF accessVars, LabInv, LabType
<1> QED
  BY <1>2, <1>3, <1>5, RunsStay

LEMMA RestartMoves ==
  ASSUME runs \in [Runs -> RunRows],
         runs' = [r \in Runs |-> IF runs[r].stage \in Working
                                 THEN [runs[r] EXCEPT !.stage = "dead", !.todo = {},
                                                      !.results = IF runs[r].stage = "report" THEN @ ELSE {}]
                                 ELSE runs[r]]
  PROVE  /\ runs' \in [Runs -> RunRows]
         /\ \A r \in Runs :
              \/ runs[r].stage \notin Working /\ runs'[r] = runs[r]
              \/ /\ runs[r].stage \in Working
                 /\ runs'[r].stage = "dead" /\ runs'[r].todo = {} /\ runs'[r].results \subseteq runs[r].results
                 /\ runs'[r].status = runs[r].status /\ runs'[r].opts = runs[r].opts
                 /\ runs'[r].startedAt = runs[r].startedAt
<1>1. "dead" \in Stages
  BY DEF Stages
<1> DEFINE left(c) == IF c.stage = "report" THEN c.results ELSE {}
           dead(c) == [c EXCEPT !.stage = "dead", !.todo = {}, !.results = left(c)]
<1>2. ASSUME NEW c \in RunRows PROVE left(c) \subseteq c.results /\ left(c) \in SUBSET Results
  BY <1>2 DEF RunRows
<1> HIDE DEF left
<1>3. \A c \in RunRows :
        /\ dead(c) \in RunRows /\ dead(c).stage = "dead" /\ dead(c).todo = {} /\ dead(c).results \subseteq c.results
        /\ dead(c).status = c.status /\ dead(c).opts = c.opts /\ dead(c).startedAt = c.startedAt
  <2>1. ASSUME NEW c \in RunRows, NEW l \in SUBSET Results, l \subseteq c.results
        PROVE  LET d == [c EXCEPT !.stage = "dead", !.todo = {}, !.results = l]
               IN  /\ d \in RunRows /\ d.stage = "dead" /\ d.todo = {} /\ d.results \subseteq c.results
                   /\ d.status = c.status /\ d.opts = c.opts /\ d.startedAt = c.startedAt
    BY <1>1, <2>1 DEF RunRows
  <2> QED
    BY <1>2, <2>1
<1>4. runs' = [r \in Runs |-> IF runs[r].stage \in Working THEN dead(runs[r]) ELSE runs[r]]
  BY DEF left
<1> HIDE DEF dead
<1>5. \A r \in Runs : runs'[r] = IF runs[r].stage \in Working THEN dead(runs[r]) ELSE runs[r]
  BY <1>4
<1>6. ASSUME NEW r \in Runs PROVE (IF runs[r].stage \in Working THEN dead(runs[r]) ELSE runs[r]) \in RunRows
  <2>1. runs[r] \in RunRows
    OBVIOUS
  <2> QED
    BY <1>3, <2>1
<1>7. runs' \in [Runs -> RunRows]
  BY <1>4, <1>6
<1>8. ASSUME NEW r \in Runs
      PROVE  \/ runs[r].stage \notin Working /\ runs'[r] = runs[r]
             \/ /\ runs[r].stage \in Working
                /\ runs'[r].stage = "dead" /\ runs'[r].todo = {} /\ runs'[r].results \subseteq runs[r].results
                /\ runs'[r].status = runs[r].status /\ runs'[r].opts = runs[r].opts
                /\ runs'[r].startedAt = runs[r].startedAt
  <2>1. CASE runs[r].stage \in Working
    <3>1. runs'[r] = dead(runs[r]) /\ runs[r] \in RunRows
      BY <1>5, <2>1
    <3> QED
      BY <1>3, <2>1, <3>1
  <2>2. CASE runs[r].stage \notin Working
    BY <1>5, <2>2
  <2> QED
    BY <2>1, <2>2
<1> QED
  BY <1>7, <1>8

LEMMA RestartKeeps ==
  ASSUME LabInv, NEW c \in Configs, Restart(c), requests' \in 0 .. MaxRequests
  PROVE  LabInv'
<1>1. /\ RestartAccess(c) /\ UNCHANGED <<events, evidence, booted>> /\ probes' = {}
  BY DEF Restart, RestartAccess
<1>2. AccessKept
  BY <1>1, AccessKeeps
<1>3. EventsKept
  BY <1>1, <1>2, EventsStay
<1>4. /\ runs' \in [Runs -> RunRows]
      /\ \A r \in Runs :
              \/ runs[r].stage \notin Working /\ runs'[r] = runs[r]
              \/ /\ runs[r].stage \in Working
                 /\ runs'[r].stage = "dead" /\ runs'[r].todo = {} /\ runs'[r].results \subseteq runs[r].results
                 /\ runs'[r].status = runs[r].status /\ runs'[r].opts = runs[r].opts
                 /\ runs'[r].startedAt = runs[r].startedAt
  BY RestartMoves DEF Restart, LabInv, LabType
<1>5. LabType'
  BY <1>1, <1>2, <1>3, <1>4 DEF LabInv, LabType, AccessKept, EventsKept
<1>6. Dated'
  <2>1. \A r \in Runs : runs[r].startedAt <= now /\ now' = now /\ runs'[r].startedAt = runs[r].startedAt
    BY <1>1, <1>4 DEF LabInv, Dated, RestartAccess
  <2> QED
    BY <1>3, <2>1, <1>2 DEF Dated, AccessKept, EventsKept
<1>7. RowsBacked'
  BY <1>2, <1>3 DEF RowsBacked, AccessKept, EventsKept
<1>8. StagesAgree'
  BY <1>4 DEF LabInv, StagesAgree, Working, Stages
<1>9. ProbesOwned'
  BY <1>1 DEF ProbesOwned
<1>10. ResultsExplained'
  <2>1. FinishedStay
    <3>1. \A r \in Runs : runs[r].stage \in Working => ~Finished(r)
      BY RunsTyped
    <3> QED
      BY <1>1, <1>4, <3>1 DEF FinishedStay
  <2>2. ASSUME NEW r \in Runs, NEW x \in runs'[r].results PROVE Explained(r, x)'
    BY <1>2, <1>4, <2>1, <2>2, ExplainedStays DEF LabInv, ResultsExplained
  <2> QED
    BY <2>2 DEF ResultsExplained
<1>11. NobodyForgotten'
  BY <1>4 DEF LabInv, NobodyForgotten, Listed, Working, Stages
<1>12. OkMeansAll'
  BY <1>4 DEF LabInv, OkMeansAll, StagesAgree
<1> QED
  BY <1>5, <1>6, <1>7, <1>8, <1>9, <1>10, <1>11, <1>12 DEF LabInv

-----------------------------------------------------------------------------
(***************************************************************************)
(* The invariant.                                                          *)
(***************************************************************************)
LEMMA LabInitially ==
  ASSUME LabInit
  PROVE  LabInv
<1>1. LabType
  <2>1. AccessTypeOK
    <3>1. ssh \in [Servers -> SshRows]
      BY DEF LabInit, AccessInit, SshRows, Never
    <3>2. bmc \in [Servers -> BmcRows]
      BY DEF LabInit, AccessInit, BmcRows, Never
    <3> QED
      BY <3>1, <3>2 DEF LabInit, AccessInit, AccessTypeOK, Never, Kinds
  <2>2. runs \in [Runs -> RunRows]
    BY NoRunIs DEF LabInit
  <2> QED
    BY <2>1, <2>2 DEF LabInit, LabType, Never
<1>2. \A r \in Runs : runs[r] = NoRun /\ runs[r].opts.servers = {} /\ runs[r].startedAt = Never
  BY DEF LabInit, NoRun
<1>3. Dated /\ RowsBacked
  BY <1>2 DEF LabInit, AccessInit, Dated, RowsBacked, Never, Kinds
<1>4. StagesAgree
  BY <1>2, NoRunIs DEF StagesAgree, Working
<1>5. ProbesOwned
  BY DEF LabInit, AccessInit, ProbesOwned
<1>6. ResultsExplained /\ NobodyForgotten /\ OkMeansAll
  BY <1>2, NoRunIs DEF ResultsExplained, NobodyForgotten, OkMeansAll
<1> QED
  BY <1>1, <1>3, <1>4, <1>5, <1>6 DEF LabInv

LEMMA LabStep ==
  ASSUME LabInv, [LabNext]_labVars
  PROVE  LabInv'
<1>1. CASE UNCHANGED labVars
  <2>1. AccessKept
    BY <1>1, AccessKeeps DEF labVars
  <2>2. EventsKept
    BY <1>1, <2>1, EventsStay DEF labVars, labOwnVars
  <2> QED
    BY <1>1, <2>1, <2>2, RunsStay DEF labVars, labOwnVars, accessVars, LabInv, LabType
<1>2. CASE requests < MaxRequests /\ requests' = requests + 1 /\ Request
  <2>1. requests' \in 0 .. MaxRequests
    BY <1>2 DEF LabInv, LabType
  <2> QED
    BY <1>2, <2>1, AccessStepKeeps, BeginKeeps, BootKeeps, EvidenceKeeps, RestartKeeps DEF Request
<1>3. CASE AccessProgress /\ UNCHANGED <<labOwnVars, requests>>
  BY <1>3, AccessStepKeeps DEF LabInv, LabType
<1>4. ASSUME NEW r \in Runs, RunStep(r), UNCHANGED requests PROVE LabInv'
  BY <1>4, PxeKeeps, PassOverKeeps, StartCheckKeeps, CheckKeeps, SshChecksKeep, TargetsKeep, PersistKeeps, FinishKeeps
     DEF RunStep
<1> QED
  BY <1>1, <1>2, <1>3, <1>4 DEF LabNext

(* The inductive invariant the theorems below follow from: what each row,    *)
(* run and check under way holds is explained by an answer of the machine    *)
(* (runLabValidation, recordLabValidationEvidence).                          *)
THEOREM LabInvariant == LabSpec => []LabInv
<1>1. LabInit => LabInv
  BY LabInitially
<1>2. LabInv /\ [LabNext]_labVars => LabInv'
  BY LabStep
<1> QED
  BY <1>1, <1>2, PTL DEF LabSpec

(* Every value the validation keeps has its type, in every reachable state:  *)
(* runs, results, evidence and boot events of whatever was submitted.        *)
THEOREM LabTypesHold == LabSpec => []LabTypeOK
<1>1. ASSUME LabInv PROVE LabTypeOK
  <2>1. ASSUME NEW r \in Runs
        PROVE  /\ runs[r].startedAt \in Never .. now
               /\ runs[r] # NoRun => runs[r].opts \in Options
    <3>1. runs[r].startedAt \in Never .. MaxTime /\ runs[r].startedAt <= now /\ now \in 0 .. MaxTime
      BY <1>1 DEF LabInv, LabType, Dated, RunRows, AccessTypeOK
    <3> QED
      BY <1>1, <3>1 DEF LabInv, StagesAgree, Never
  <2> QED
    BY <1>1, <2>1 DEF LabInv, LabType, LabTypeOK, RunRows
<1> QED
  BY <1>1, LabInvariant, PTL

(* The event a server is judged by, and what any preferred one shows.        *)
LEMMA PreferredIs ==
  ASSUME LabInv, NEW s, PxeStatus(s) = "ok", NEW e \in PreferredEvents(s)
  PROVE  e \in events /\ e.server = s /\ Physical(e) /\ Fresh(e.at)
<1> DEFINE c == CHOOSE f \in PreferredEvents(s) : TRUE
<1>1. c \in PreferredEvents(s) /\ Fresh(c.at) /\ Physical(c)
  BY DEF PxeStatus
<1> HIDE DEF c
<1>2. c \in events /\ e \in events /\ e.server = s /\ c.server = s /\ Prefer(e, c) /\ Prefer(c, e)
  BY <1>1 DEF PreferredEvents
<1>3. e.at \in Int /\ c.at \in Int /\ now \in Int
  BY <1>2 DEF LabInv, LabType, AccessTypeOK, Events
<1>4. Physical(e)
  <2>1. CASE ~Physical(e)
    BY <1>1, <1>2, <2>1 DEF Prefer
  <2> QED
    BY <2>1
<1>5. e.at >= c.at
  BY <1>1, <1>2, <1>4 DEF Prefer
<1> QED
  BY <1>1, <1>2, <1>3, <1>4, <1>5 DEF Fresh

LEMMA FreshLater ==
  ASSUME NEW t \in Int, NEW u \in Int, t <= u, Fresh(t), now \in Int
  PROVE  Fresh(u)
BY DEF Fresh

(* A server the report calls full-chain ready was booted from the network by *)
(* its own machine, answered over SSH and, where it has a BMC, answered from *)
(* a physical one, all within the window, whatever restarts, changes of the  *)
(* configuration and simulated checks came between.                          *)
THEOREM ReadyIsRecent == LabSpec => []ReadyMeansRecent
<1>1. ASSUME LabInv PROVE ReadyMeansRecent
  <2> SUFFICES ASSUME NEW s \in Servers, FullChainReady(s)
               PROVE  /\ Fresh(booted[s])
                      /\ Fresh(answered["ssh"][s])
                      /\ HasBmc(s) => Fresh(answered["bmc"][s])
    BY DEF ReadyMeansRecent
  <2>1. /\ now \in Int /\ booted[s] \in Int /\ answered["ssh"][s] \in Int /\ answered["bmc"][s] \in Int
        /\ ssh[s].checkedAt \in Int
    BY <1>1 DEF LabInv, LabType, AccessTypeOK, Kinds, SshRows, Never
  <2>2. Fresh(booted[s])
    <3>1. PICK e \in PreferredEvents(s) : TRUE
      BY DEF FullChainReady, PxeStatus
    <3>2. e \in events /\ e.server = s /\ Physical(e) /\ Fresh(e.at)
      BY <1>1, PreferredIs DEF FullChainReady
    <3>3. e.at \in Int /\ e.at <= booted[s]
      BY <1>1, <3>2 DEF LabInv, LabType, RowsBacked, Events
    <3> QED
      BY <2>1, <3>2, <3>3, FreshLater
  <2>3. Fresh(answered["ssh"][s])
    <3>1. ssh[s].checkedAt <= answered["ssh"][s] /\ Fresh(ssh[s].checkedAt)
      BY <1>1 DEF FullChainReady, SshFreshOk, LabInv, RowsBacked
    <3> QED
      BY <2>1, <3>1, FreshLater
  <2>4. ASSUME HasBmc(s) PROVE Fresh(answered["bmc"][s])
    <3>1. PICK x \in evidence : x.server = s /\ x.kind = "full" /\ CountsAsFreshOk(x)
      BY DEF FullChainReady, EvidenceOk
    <3>2. FullRunOk(x.run, s, x.event)
      BY <3>1 DEF CountsAsFreshOk
    <3>3. x.run \in Runs /\ Fresh(runs[x.run].startedAt) /\ Proved(x.run, "bmc", s)
      BY <1>1, <2>4, <3>1, <3>2 DEF FullRunOk, RunUsable, LabInv, LabType, EvidenceRows
    <3>4. runs[x.run].startedAt <= answered["bmc"][s]
      BY <1>1, <3>3 DEF Proved, Result, LabInv, ResultsExplained, Explained
    <3>5. runs[x.run].startedAt \in Int
      BY <1>1, <3>3 DEF LabInv, LabType, RunRows, Never
    <3> QED
      BY <2>1, <3>3, <3>4, <3>5, FreshLater
  <2> QED
    BY <2>2, <2>3, <2>4
<1> QED
  BY <1>1, LabInvariant, PTL

(* A strict run of the whole chain that ends ok left no requested server out,*)
(* has no failed or skipped result, and rests on the full evidence of other  *)
(* runs that had finished: none vouches for itself.                          *)
THEOREM StrictOkProven == LabSpec => []StrictOkIsProven
<1>1. ASSUME LabInv PROVE StrictOkIsProven
  <2> SUFFICES ASSUME NEW r \in Runs, runs[r].status = "ok", WholeChain(runs[r].opts),
                      NEW s \in runs[r].opts.servers
               PROVE  /\ answered["ssh"][s] >= runs[r].startedAt
                      /\ \A x \in runs[r].results : x.status = "success"
                      /\ Vouched(r, s)
    BY DEF StrictOkIsProven, WholeChain, Vouched
  <2>1. runs[r].stage = "done" /\ runs[r].todo = {}
    <3>1. runs[r].stage \in Stages
      BY <1>1, RunsTyped
    <3> QED
      BY <1>1, <3>1, NoRunIs DEF LabInv, StagesAgree, Working
  <2>2. \A x \in runs[r].results : x.status = "success" /\ Explained(r, x)
    BY <1>1 DEF LabInv, OkMeansAll, ResultsExplained
  <2>3. Listed(r, "ssh", s) /\ Listed(r, "full_chain_target", s)
    BY <1>1, <2>1 DEF LabInv, NobodyForgotten, WholeChain
  <2>4. runs[r].startedAt <= answered["ssh"][s]
    BY <2>2, <2>3 DEF Listed, Explained
  <2>5. Vouched(r, s)
    BY <2>2, <2>3 DEF Listed, Explained
  <2>6. s \in Servers /\ runs[r].startedAt \in Int /\ answered["ssh"][s] \in Int
    BY <1>1, RunsTyped DEF LabInv, LabType, AccessTypeOK, Kinds, RunRows, Never
  <2> QED
    BY <2>2, <2>4, <2>5, <2>6
<1> QED
  BY <1>1, LabInvariant, PTL
================================================================================
