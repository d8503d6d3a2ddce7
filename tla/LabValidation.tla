---------------------------- MODULE LabValidation ----------------------------
(***************************************************************************)
(* Lab validation: operators run checks against physical machines, record  *)
(* evidence that refers to what the checks left behind, and read which     *)
(* servers have proved the full chain: a physical PXE boot, a BMC where    *)
(* one is configured, and a command over SSH, all of it recent.            *)
(*                                                                         *)
(* A machine boots with the primary MAC of its inventory row, so a boot    *)
(* event, a requested PXE MAC and a server are matched by the server.      *)
(***************************************************************************)
EXTENDS ServerAccess

CONSTANTS
  Window,       \* labEvidenceFreshnessWindow
  Options,      \* run options an operator submits
  Claims,       \* kind and status of the evidence an operator submits
  Sources,      \* where boot scripts are requested from
  MaxRequests,  \* bound on requests, boots and restarts together
  MaxHandlers   \* bound on runs under way at once

ASSUME LabBoundsAssumption == {Window, MaxRequests, MaxHandlers} \subseteq Nat

(* A missing "check_" option means that the check runs; the lists are without       *)
(* duplicates; the limits on their lengths, on the probe command and on the         *)
(* architecture refuse a request without a trace.                                   *)
ASSUME InputsAssumption ==
  /\ Sources \subseteq {"pxe_dhcp", "http_ipxe", "api_event"}
  /\ Claims \subseteq {"pxe", "bmc", "ssh", "full"} \X {"ok", "error"}
  /\ Options \subseteq [strict : BOOLEAN, pxe : BOOLEAN, bmc : BOOLEAN, ssh : BOOLEAN,
                        servers : SUBSET Servers, macs : SUBSET Servers]

VARIABLES
  events,    \* boot events
  evidence,  \* lab_validation_evidence rows
  runs,      \* lab_validation_runs and their results, with the handler that executes each
  booted,    \* when the last boot request with a physical source named each machine
  requests   \* requests so far

labOwnVars == <<events, evidence, runs, booted>>
labVars == <<accessVars, labOwnVars, requests>>

Worst(statuses) == IF "error" \in statuses THEN "error"
                   ELSE IF "warning" \in statuses THEN "warning" ELSE "ok"
Fresh(t) == t >= now - Window
NoEvent == [server |-> "none", source |-> "none", at |-> Never]
Events == [server : Servers, source : Sources, at : 0 .. MaxTime]
Physical(e) == e.source \in {"http_ipxe", "pxe_dhcp"}

ResultKinds == {"strict_physical_targets", "pxe_services", "pxe_boot_event", "bmc", "ssh", "full_chain_target"}
System == "system"
Results == [kind : ResultKinds, server : Servers \union {System},
            status : {"success", "failed", "skipped"}, proof : BOOLEAN]
Result(kind, s, status, proof) == [kind |-> kind, server |-> s, status |-> status, proof |-> proof]

NoRun == [status |-> "none", stage |-> "none", startedAt |-> Never, todo |-> {}, results |-> {},
          opts |-> [strict |-> FALSE, pxe |-> FALSE, bmc |-> FALSE, ssh |-> FALSE, servers |-> {}, macs |-> {}]]
Stages == {"none", "pxe", "bmc", "ssh", "chain", "persist", "report", "done", "dead"}
Working == Stages \ {"none", "done", "dead"}

EvidenceRows == [kind : {"pxe", "bmc", "ssh", "full"}, status : {"ok", "error"}, server : Servers,
                 event : Events \union {NoEvent}, run : {0} \union Runs, bmcRef : BOOLEAN, at : 0 .. MaxTime]

(* Every variable has its type. *)
LabTypeOK ==
  /\ AccessTypeOK
  /\ events \subseteq Events
  /\ evidence \subseteq EvidenceRows
  /\ \A r \in Runs :
       /\ runs[r].status \in {"none", "running", "ok", "warning", "error"}
       /\ runs[r].stage \in Stages
       /\ runs[r].startedAt \in Never .. now
       /\ runs[r].todo \subseteq Servers
       /\ runs[r].results \subseteq Results
       /\ runs[r] # NoRun => runs[r].opts \in Options
  /\ booted \in [Servers -> Never .. MaxTime]
  /\ requests \in 0 .. MaxRequests

LabInit ==
  /\ AccessInit
  /\ events = {}
  /\ evidence = {}
  /\ runs = [r \in Runs |-> NoRun]
  /\ booted = [s \in Servers |-> Never]
  /\ requests = 0

------------------------------------------------------------------------------
(* What makes evidence acceptable, when it is recorded and when it is read.     *)

SshPolicyIssue == config.hostKeys = "unreadable" \/ (config.production /\ config.hostKeys # "known_hosts")
BmcPolicyIssue(s) == config.adapter = "simulated" \/ config.adapter # bmc[s].type

SshFreshOk(s) == ssh[s].status = "ok" /\ Fresh(ssh[s].checkedAt)
BmcFreshOk(s) == bmc[s].status = "ok" /\ Fresh(bmc[s].checkedAt) /\ ~BmcPolicyIssue(s)

Finished(r) == runs[r].status \notin {"none", "running"}
Succeeded(r, kind, s) == \E x \in runs[r].results : x.kind = kind /\ x.server = s /\ x.status = "success"
(* A successful result whose details are structured proof: an identity read from  *)
(* a physical BMC, or a command's output over a verified host key.                *)
Proved(r, kind, s) == Result(kind, s, "success", TRUE) \in runs[r].results

RunUsable(r) == r # 0 /\ Finished(r) /\ Fresh(runs[r].startedAt) /\ runs[r].opts.strict

BmcRunOk(r, s) == RunUsable(r) /\ runs[r].opts.bmc /\ s \in runs[r].opts.servers /\ Proved(r, "bmc", s)
SshRunOk(r, s) == RunUsable(r) /\ runs[r].opts.ssh /\ s \in runs[r].opts.servers /\ Proved(r, "ssh", s)

FullRunOk(r, s, e) ==
  /\ RunUsable(r) /\ runs[r].opts.pxe /\ runs[r].opts.ssh
  /\ s \in runs[r].opts.servers /\ e.server \in runs[r].opts.macs
  /\ Succeeded(r, "pxe_boot_event", s)
  /\ HasBmc(s) => runs[r].opts.bmc /\ Proved(r, "bmc", s)
  /\ Proved(r, "ssh", s)

BootProof(e) == e \in events /\ Fresh(e.at) /\ Physical(e)
RunReferenceOk(r, status) ==
  r # 0 => /\ runs[r].status # "none"
           /\ status = "ok" => Fresh(runs[r].startedAt) /\ Finished(r)

(* attachLabEvidenceReferences: evidence of trouble may refer to anything, evidence  *)
(* of success only to what supports it now.                                          *)
AttachReferences(x) ==
  /\ RunReferenceOk(x.run, x.status)
  /\ x.status = "ok" =>
       CASE x.kind = "pxe"  -> BootProof(x.event) /\ x.event.server = x.server
         [] x.kind = "bmc"  -> HasBmc(x.server) /\ BmcFreshOk(x.server) /\ BmcRunOk(x.run, x.server)
         [] x.kind = "ssh"  -> ~SshPolicyIssue /\ SshFreshOk(x.server) /\ SshRunOk(x.run, x.server)
         [] x.kind = "full" -> /\ BootProof(x.event) /\ x.event.server = x.server
                               /\ HasBmc(x.server) => BmcFreshOk(x.server)
                               /\ ~SshPolicyIssue /\ SshFreshOk(x.server)
                               /\ FullRunOk(x.run, x.server, x.event)

EvidenceRow(kind, status, s, e, r) ==
  [kind |-> kind, status |-> status, server |-> s, event |-> e, run |-> r, at |-> now,
   bmcRef |-> status = "ok" /\ kind \in {"bmc", "full"} /\ HasBmc(s)]

(* The same questions asked of a stored row. The age of the boot event is not asked *)
(* again, that of the row, of the run and of the checks is.                         *)
CountsAsFreshOk(x) ==
  /\ x.status = "ok" /\ Fresh(x.at)
  /\ CASE x.kind = "pxe"  -> Physical(x.event)
       [] x.kind = "bmc"  -> BmcFreshOk(x.server) /\ BmcRunOk(x.run, x.server)
       [] x.kind = "ssh"  -> SshFreshOk(x.server) /\ SshRunOk(x.run, x.server)
       [] x.kind = "full" -> /\ Physical(x.event)
                             /\ HasBmc(x.server) => x.bmcRef /\ BmcFreshOk(x.server)
                             /\ SshFreshOk(x.server)
                             /\ FullRunOk(x.run, x.server, x.event)

------------------------------------------------------------------------------
(* Targets: what the report says of each server.                                *)

Prefer(e, f) == IF Physical(e) # Physical(f) THEN Physical(e) ELSE e.at >= f.at
PreferredEvents(s) == {e \in events : e.server = s /\ \A f \in events : f.server = s => Prefer(e, f)}

PxeStatus(s) == IF PreferredEvents(s) = {} THEN "missing"
                ELSE LET e == CHOOSE e \in PreferredEvents(s) : TRUE IN
                     IF ~Fresh(e.at) THEN "stale" ELSE IF Physical(e) THEN "ok" ELSE "api_only"

EvidenceOk(s) == \E x \in evidence : x.server = s /\ x.kind = "full" /\ CountsAsFreshOk(x)

X_FullChainReady(s) == PxeStatus(s) = "ok" /\ ~SshPolicyIssue /\ SshFreshOk(s) /\ (HasBmc(s) => BmcFreshOk(s))

FullChainReady(s) ==
  /\ PxeStatus(s) = "ok"
  /\ HasBmc(s) => BmcFreshOk(s)
  /\ SshFreshOk(s) /\ ~SshPolicyIssue
  /\ EvidenceOk(s)

------------------------------------------------------------------------------
(* The report: the worst of its checks, in which a failed result is an error    *)
(* and a skipped one a warning.                                                 *)

Connectivity(rows, unchecked) ==
  LET statuses == {rows[s].status : s \in Servers} \ {"absent"} IN
  IF statuses = {} THEN "warning" ELSE IF "error" \in statuses THEN "error"
  ELSE IF unchecked \in statuses THEN "warning" ELSE "ok"

PxeReport == Worst({IF config.services = "disabled" THEN "warning" ELSE config.services, IF events = {} THEN "warning" ELSE "ok"})
BmcReport == Worst({IF config.adapter = "simulated" THEN "warning" ELSE "ok",
                    IF config.adapter # "simulated" /\ \E s \in Servers : HasBmc(s) /\ BmcPolicyIssue(s)
                    THEN "error" ELSE Connectivity(bmc, "unknown")})
SshReport == Worst({IF SshPolicyIssue THEN "error" ELSE "ok", Connectivity(ssh, "configured")})

EvidenceReport ==
  LET counted == {x.kind : x \in {y \in evidence : CountsAsFreshOk(y)}} IN
  IF \E x \in evidence : x.status = "error" THEN "error"
  ELSE IF "full" \in counted \/ {"pxe", "ssh"} \subseteq counted THEN "ok" ELSE "warning"

TargetReport == IF \E s \in Servers : FullChainReady(s) THEN "ok" ELSE "warning"

(* The latest run by its start, then by its id; the run that asks is excused. *)
Latest == CHOOSE r \in Runs : runs[r].status # "none" /\ \A q \in Runs \ {r} :
            \/ runs[q].startedAt < runs[r].startedAt
            \/ runs[q].startedAt = runs[r].startedAt /\ (q < r \/ runs[q].status = "none")
RunReport(own) ==
  IF \A r \in Runs : runs[r].status = "none" THEN "warning"
  ELSE CASE runs[Latest].status = "running" -> IF Latest = own THEN "ok" ELSE "warning"
         [] OTHER -> runs[Latest].status

ResultReport(results) == Worst({CASE x.status = "failed" -> "error" [] x.status = "skipped" -> "warning"
                                  [] OTHER -> "ok" : x \in results})

X_ReportStatus(own, results) ==
  Worst({PxeReport, BmcReport, SshReport, EvidenceReport, TargetReport, RunReport(own)})

ReportStatus(own, results) ==
  Worst({PxeReport, BmcReport, SshReport, EvidenceReport, TargetReport, RunReport(own), ResultReport(results)})

------------------------------------------------------------------------------
(* Running a validation: one handler per run, each of whose checks takes as     *)
(* long as the machine it talks to.                                             *)

X_BeginRun(r, o) ==
  /\ runs[r] = NoRun
  /\ runs' = [runs EXCEPT ![r] = [NoRun EXCEPT !.status = "running", !.startedAt = now + 1, !.opts = o,
                                               !.stage = "pxe"]]
  /\ UNCHANGED <<accessVars, events, evidence, booted>>

BeginRun(r, o) ==
  /\ runs[r] = NoRun
  /\ \A q \in Runs : q < r => runs[q] # NoRun
  /\ Cardinality({q \in Runs : runs[q].stage \in Working}) < MaxHandlers
  /\ runs' = [runs EXCEPT ![r] = [NoRun EXCEPT !.status = "running", !.startedAt = now, !.opts = o,
                                               !.stage = "pxe"]]
  /\ UNCHANGED <<accessVars, events, evidence, booted>>

StrictGate(o) ==
  IF o.strict /\ ( \/ o.pxe /\ o.macs = {}
                   \/ (o.bmc \/ o.ssh) /\ o.servers = {}
                   \/ /\ o.bmc /\ config.adapter = "simulated"
                      /\ \E s \in (IF o.servers = {} THEN Servers ELSE o.servers) : HasBmc(s))
  THEN {Result("strict_physical_targets", System, "failed", FALSE)} ELSE {}

BootEventChecks(o) ==
  {IF /\ \E e \in events : e.server = s /\ Physical(e) /\ Fresh(e.at)
      /\ (o.servers = {} \/ s \in o.servers)
   THEN Result("pxe_boot_event", s, "success", FALSE)
   ELSE Result("pxe_boot_event", System, "failed", FALSE) : s \in o.macs}

Selected(o) == IF o.servers = {} THEN Servers ELSE o.servers
EnterBmc(o) == IF o.bmc THEN {s \in Selected(o) : HasBmc(s)} ELSE {}
EnterSsh(o) == IF o.ssh THEN {s \in Selected(o) : HasSsh(s)} ELSE {}

(* The gate of strict runs, then the HTTP, DHCP and TFTP probes of the platform's  *)
(* own services and the boot event of each requested MAC.                          *)
RunPXEChecks(r, served) ==
  LET o == runs[r].opts
      pxe == IF o.pxe THEN {Result("pxe_services", System, served, FALSE)} \union BootEventChecks(o) ELSE {}
      unconfigured == IF o.bmc THEN {s \in o.servers : ~HasBmc(s)} ELSE {} IN
  /\ runs[r].stage = "pxe"
  /\ served \in IF ~o.pxe THEN {"success"}
               ELSE {"failed", IF config.services = "disabled" THEN "skipped" ELSE "success"}
  /\ runs' = [runs EXCEPT ![r].stage = "bmc", ![r].todo = EnterBmc(o),
                          ![r].results = StrictGate(o) \union pxe \union
                            {Result("bmc", s, "skipped", FALSE) : s \in unconfigured}]
  /\ UNCHANGED <<accessVars, events, evidence, booted>>

(* A server that the run does not check: its adapter is simulated, it is retired,   *)
(* or the policy refuses it. A run looks at one server after the other.             *)
PassOver(r, s) ==
  LET kind == runs[r].stage
      skip == (kind = "bmc" /\ config.adapter = "simulated") \/ s \in retired
      status == IF skip THEN "skipped" ELSE "failed" IN
  /\ kind \in {"bmc", "ssh"}
  /\ s \in runs[r].todo
  /\ \A p \in probes : p.by # r
  /\ skip \/ (IF kind = "bmc" THEN BmcPolicyIssue(s) ELSE SshPolicyIssue)
  /\ runs' = [runs EXCEPT ![r].todo = @ \ {s}, ![r].results = @ \union {Result(kind, s, status, FALSE)}]
  /\ UNCHANGED <<accessVars, events, evidence, booted>>

StartRunCheck(r, s) ==
  LET kind == runs[r].stage IN
  /\ kind \in {"bmc", "ssh"}
  /\ s \in runs[r].todo \ retired
  /\ IF kind = "bmc" THEN ~BmcPolicyIssue(s) ELSE ~SshPolicyIssue
  /\ \A p \in probes : p.by # r
  /\ ReadForCheck(kind, s, r)
  /\ UNCHANGED <<now, config, retired, ssh, bmc, answered>>
  /\ UNCHANGED labOwnVars

CheckResult(r, p, outcome) ==
  LET demanded == IF p.kind = "bmc" /\ runs[r].opts.strict THEN {"identified"} ELSE {"ok", "identified"}
      proving == IF p.kind = "bmc" \/ config.hostKeys # "known_hosts" THEN {"identified"} ELSE {"ok"} IN
  Result(p.kind, p.server, IF outcome \in demanded THEN "success" ELSE "failed", outcome \in proving)

EndRunCheck(r, outcome) ==
  \E p \in probes :
    /\ p.by = r
    /\ StoreOutcome(p, outcome)
    /\ runs' = [runs EXCEPT ![r].todo = @ \ {p.server}, ![r].results = @ \union {CheckResult(r, p, outcome)}]
    /\ UNCHANGED <<events, evidence, booted>>

EnterSshChecks(r) ==
  LET o == runs[r].opts IN
  /\ runs[r].stage = "bmc" /\ runs[r].todo = {}
  /\ runs' = [runs EXCEPT ![r].stage = "ssh", ![r].todo = EnterSsh(o),
                          ![r].results = @ \union {Result("ssh", s, "failed", FALSE) :
                             s \in IF o.ssh THEN {t \in o.servers : ~HasSsh(t)} ELSE {}}]
  /\ UNCHANGED <<accessVars, events, evidence, booted>>

(* The targets of a strict run of the whole chain must be ready by themselves: this *)
(* run is not finished yet and so cannot be what proves them.                       *)
StrictFullChainTargets(r) ==
  LET o == runs[r].opts IN
  /\ runs[r].stage = "ssh" /\ runs[r].todo = {}
  /\ runs' = [runs EXCEPT ![r].stage = "persist",
                ![r].results = @ \union IF o.strict /\ o.pxe /\ o.ssh
                  THEN {Result("full_chain_target", s, IF FullChainReady(s) THEN "success" ELSE "failed", FALSE) :
                          s \in o.servers}
                  ELSE {}]
  /\ UNCHANGED <<accessVars, events, evidence, booted>>

(* The results reach the database in one statement. A run that dies before it leaves *)
(* none, one that dies after it leaves them below a row that stays running.          *)
PersistResults(r) ==
  /\ runs[r].stage = "persist"
  /\ runs' = [runs EXCEPT ![r].stage = "report"]
  /\ UNCHANGED <<accessVars, events, evidence, booted>>

FinishRun(r) ==
  /\ runs[r].stage = "report"
  /\ runs' = [runs EXCEPT ![r].stage = "done", ![r].status = ReportStatus(r, runs[r].results)]
  /\ UNCHANGED <<accessVars, events, evidence, booted>>

RunStep(r) ==
  \/ \E served \in {"success", "failed", "skipped"} : RunPXEChecks(r, served)
  \/ \E s \in Servers : PassOver(r, s) \/ StartRunCheck(r, s)
  \/ \E outcome \in {"error", "ok", "identified"} : EndRunCheck(r, outcome)
  \/ EnterSshChecks(r)
  \/ StrictFullChainTargets(r)
  \/ PersistResults(r)
  \/ FinishRun(r)

------------------------------------------------------------------------------
(* A request for a boot script. The source depends on where the request came from:  *)
(* the deployment network and the DHCP service count as physical. That the machine  *)
(* named in such a request is the one that sent it is not checked by the code.      *)
RecordBootEvent(s, source) ==
  LET e == [server |-> s, source |-> source, at |-> now] IN
  /\ e \notin events
  /\ events' = events \union {e}
  /\ booted' = IF Physical(e) THEN [booted EXCEPT ![s] = now] ELSE booted
  /\ UNCHANGED <<accessVars, evidence, runs>>

RecordEvidence(kind, status, s, e, r) ==
  LET x == EvidenceRow(kind, status, s, e, r) IN
  /\ AttachReferences(x)
  /\ evidence' = evidence \union {x}
  /\ UNCHANGED <<accessVars, events, runs, booted>>

Restart(c) ==
  /\ RestartAccess(c)
  /\ runs' = [r \in Runs |-> IF runs[r].stage \in Working
                             THEN [runs[r] EXCEPT !.stage = "dead", !.todo = {},
                                                  !.results = IF runs[r].stage = "report" THEN @ ELSE {}]
                             ELSE runs[r]]
  /\ UNCHANGED <<events, evidence, booted>>

Request ==
  \/ AccessRequest /\ UNCHANGED labOwnVars
  \/ \E r \in Runs, o \in Options : BeginRun(r, o)
  \/ \E s \in Servers, source \in Sources : RecordBootEvent(s, source)
  \/ \E claim \in Claims, s \in Servers, e \in events \union {NoEvent}, r \in {0} \union Runs :
       RecordEvidence(claim[1], claim[2], s, e, r)
  \/ \E c \in Configs : Restart(c)

LabNext ==
  \/ requests < MaxRequests /\ requests' = requests + 1 /\ Request
  \/ AccessProgress /\ UNCHANGED <<labOwnVars, requests>>
  \/ \E r \in Runs : RunStep(r) /\ UNCHANGED requests

LabSpec == LabInit /\ [][LabNext]_labVars

------------------------------------------------------------------------------
(* A server reported as full-chain ready was, within the freshness window, named    *)
(* in a boot request with a physical source and reached over SSH, and its BMC,      *)
(* where one is configured, answered a physical adapter: reconfiguring the process, *)
(* checking through the simulated adapter or reusing an old run does not bring      *)
(* readiness back (labValidationTargets, labEvidenceCountsAsFreshOK). The boot is   *)
(* believed as recorded; the machine's own answers are what the rest asks for.      *)
ReadyMeansRecent ==
  \A s \in Servers : FullChainReady(s) =>
    /\ Fresh(booted[s])
    /\ Fresh(answered["ssh"][s])
    /\ HasBmc(s) => Fresh(answered["bmc"][s])

(* A strict run of the whole chain that ends ok had every requested server answer   *)
(* its own SSH check, passed over none, and rests on evidence an earlier run        *)
(* supported: no run vouches for itself (runLabValidation).                         *)
StrictOkIsProven ==
  \A r \in Runs :
    LET o == runs[r].opts IN
    runs[r].status = "ok" /\ o.strict /\ o.pxe /\ o.ssh => \A s \in o.servers :
      /\ answered["ssh"][s] >= runs[r].startedAt
      /\ \A x \in runs[r].results : x.status = "success"
      /\ \E q \in Runs \ {r} : Finished(q) /\ runs[q].opts.strict /\ Proved(q, "ssh", s)
           /\ \E x \in evidence : x.server = s /\ x.kind = "full" /\ x.run = q

------------------------------------------------------------------------------
(* The evidence bundle of a finished run. Before a run's results are stored the     *)
(* bundle has none of them.                                                         *)

(* The servers a bundle is about: those the run named, and those with a result.     *)
Named(r) == runs[r].opts.servers \union ({x.server : x \in runs[r].results} \ {System})

(* The operator's checklist has the servers of the bundle, and every server when    *)
(* the bundle is about none; then the requested MACs that belong to no listed one.  *)
OnChecklist(r) == IF Named(r) = {} THEN Servers ELSE Named(r)

Ticked(r, step, s) ==
  CASE step = "pxe" -> PxeStatus(s) = "ok"
    [] step = "bmc" -> HasBmc(s) /\ Proved(r, "bmc", s)
    [] step = "ssh" -> Proved(r, "ssh", s)

(* An unlisted MAC shows its oldest event, of any age: a map the newer ones were    *)
(* put into first.                                                                  *)
UnlistedBoots(r) ==
  {e \in events : /\ e.server \in runs[r].opts.macs \ OnChecklist(r) /\ Physical(e)
                  /\ \A f \in events : f.server = e.server => f.at >= e.at}

(* The drafts of evidence a bundle proposes. A draft of the full chain is left out  *)
(* when evidence for the server counts already.                                     *)
Candidates(r) ==
  LET listed(steps) == {s \in OnChecklist(r) : \A step \in steps : Ticked(r, step, s)}
      boots == {e \in events : e.server \in listed({"pxe"}) /\ e \in PreferredEvents(e.server)}
      open == {s \in listed({"pxe", "ssh"}) : /\ HasBmc(s) => Ticked(r, "bmc", s)
                                              /\ ~ \E x \in evidence : x.server = s /\ CountsAsFreshOk(x)} IN
  {EvidenceRow("pxe", "ok", e.server, e, r) :
     e \in {b \in boots : b.server \in Named(r) \union runs[r].opts.macs} \union UnlistedBoots(r)}
  \union UNION {{EvidenceRow(kind, "ok", s, NoEvent, r) : s \in listed({kind})} : kind \in {"bmc", "ssh"}}
  \union {EvidenceRow("full", "ok", e.server, e, r) : e \in {b \in boots : b.server \in open}}

(* The drafts are made "by the same proof rules" as evidence is accepted by         *)
(* (docs/api.md:143): while the access rows are fresh and good, the handler takes   *)
(* every draft of a recent, finished, strict run.                                   *)
CandidatesAccepted ==
  \A r \in Runs : Finished(r) /\ Fresh(runs[r].startedAt) /\ runs[r].opts.strict => \A x \in Candidates(r) :
    /\ HasBmc(x.server) => BmcFreshOk(x.server)
    /\ ~SshPolicyIssue /\ SshFreshOk(x.server)
    => AttachReferences(x)
================================================================================
