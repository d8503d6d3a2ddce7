----------------------------- MODULE ServerAccess -----------------------------
(***************************************************************************)
(* The SSH access and the BMC endpoint of each server: one row per server  *)
(* and kind, written by an upsert handler and by checks that read the row, *)
(* talk to the machine and only then store the outcome under the row's id. *)
(* Checks come from an API handler or from a lab validation run.           *)
(***************************************************************************)
EXTENDS Integers, FiniteSets

CONSTANTS
  Servers,
  Configs,     \* configurations the process may be started with
  BmcTypes,    \* types an operator gives to BMC endpoints
  MaxTime,     \* bound on the clock
  MaxProbes,   \* bound on checks in flight
  MaxRuns      \* bound on lab validation runs

ASSUME BoundsAssumption == {MaxTime, MaxProbes, MaxRuns} \subseteq Nat

VARIABLES
  now,      \* clock, in units the freshness window counts
  config,   \* configuration of the running process
  retired,  \* servers that are retired or scrapped
  ssh,      \* the ssh_accesses row of each server
  bmc,      \* the bmc_endpoints row of each server
  probes,   \* checks that have read their row and wait for the machine
  answered  \* when each server's machine last answered, by kind

accessVars == <<now, config, retired, ssh, bmc, probes, answered>>

Never == -1
Kinds == {"ssh", "bmc"}
Runs == 1 .. MaxRuns
ByHandler == 0

SshRows == [status : {"absent", "configured", "ok", "error"}, checkedAt : Never .. MaxTime]
BmcRows == [status : {"absent", "unknown", "ok", "error"}, checkedAt : Never .. MaxTime,
            type : BmcTypes \union {"none"}]
Probes == [kind : Kinds, server : Servers, by : {ByHandler} \union Runs]

AccessTypeOK ==
  /\ now \in 0 .. MaxTime
  /\ config \in Configs
  /\ retired \subseteq Servers
  /\ ssh \in [Servers -> SshRows]
  /\ bmc \in [Servers -> BmcRows]
  /\ probes \subseteq Probes
  /\ answered \in [Kinds -> [Servers -> Never .. MaxTime]]

(* The operator has described some of the machines, and nothing has been checked. *)
AccessInit ==
  /\ now = 0
  /\ config \in Configs
  /\ retired = {}
  /\ ssh \in [Servers -> [status : {"absent", "configured"}, checkedAt : {Never}]]
  /\ bmc \in [Servers -> [status : {"absent"}, checkedAt : {Never}, type : {"none"}]
                         \union [status : {"unknown"}, checkedAt : {Never}, type : BmcTypes]]
  /\ probes = {}
  /\ answered = [k \in Kinds |-> [s \in Servers |-> Never]]

HasSsh(s) == ssh[s].status # "absent"
HasBmc(s) == bmc[s].status # "absent"

(* The adapter accepts the endpoint: the simulated one accepts any. *)
MatchesAdapter(s) == config.adapter \in {"simulated", bmc[s].type}

Tick ==
  /\ now < MaxTime
  /\ now' = now + 1
  /\ UNCHANGED <<config, retired, ssh, bmc, probes, answered>>

(* The handler saves the whole row: the outcome of the last check is replaced,   *)
(* its time is kept.                                                             *)
UpsertSSHAccess(s) ==
  /\ s \notin retired
  /\ ssh' = [ssh EXCEPT ![s].status = "configured"]
  /\ UNCHANGED <<now, config, retired, bmc, probes, answered>>

UpsertBMC(s, type) ==
  /\ s \notin retired
  /\ bmc' = [bmc EXCEPT ![s].status = "unknown", ![s].type = type]
  /\ UNCHANGED <<now, config, retired, ssh, probes, answered>>

Retire(s) ==
  /\ retired' = retired \union {s}
  /\ UNCHANGED <<now, config, ssh, bmc, probes, answered>>

ReadForCheck(kind, s, by) ==
  LET p == [kind |-> kind, server |-> s, by |-> by] IN
  /\ p \notin probes
  /\ probes' = probes \union {p}

CheckHandler(kind, s) ==
  /\ s \notin retired
  /\ IF kind = "ssh" THEN HasSsh(s) ELSE HasBmc(s)
  /\ Cardinality(probes) < MaxProbes
  /\ ReadForCheck(kind, s, ByHandler)
  /\ UNCHANGED <<now, config, retired, ssh, bmc, answered>>

(* What the machine, or the simulated adapter, may say. A BMC check is followed   *)
(* by a firmware query, which may or may not return an identity.                  *)
Outcomes(p) ==
  CASE p.kind = "ssh" -> {"error"} \union IF config.hostKeys = "unreadable" THEN {} ELSE {"ok"}
    [] config.adapter = "simulated" -> {"ok"}
    [] ~MatchesAdapter(p.server) -> {"error"}
    [] OTHER -> {"error", "ok", "identified"}

(* A check stores its outcome whatever happened to the row since it was read. *)
StoreOutcome(p, outcome) ==
  LET status == IF outcome = "error" THEN "error" ELSE "ok" IN
  /\ outcome \in Outcomes(p)
  /\ probes' = probes \ {p}
  /\ IF p.kind = "ssh"
     THEN /\ ssh' = [ssh EXCEPT ![p.server].status = status, ![p.server].checkedAt = now]
          /\ UNCHANGED bmc
     ELSE /\ bmc' = [bmc EXCEPT ![p.server].status = status, ![p.server].checkedAt = now]
          /\ UNCHANGED ssh
  /\ answered' = IF outcome # "error" /\ (p.kind = "ssh" \/ config.adapter # "simulated")
                 THEN [answered EXCEPT ![p.kind][p.server] = now]
                 ELSE answered
  /\ UNCHANGED <<now, config, retired>>

FinishCheckHandler(p, outcome) == p.by = ByHandler /\ StoreOutcome(p, outcome)

(* The process ends, checks in flight with it, and is started again, perhaps    *)
(* with another configuration. The rows stay.                                   *)
RestartAccess(c) ==
  /\ config' = c
  /\ probes' = {}
  /\ UNCHANGED <<now, retired, ssh, bmc, answered>>

AccessRequest ==
  \E s \in Servers :
    \/ UpsertSSHAccess(s)
    \/ \E type \in BmcTypes : UpsertBMC(s, type)
    \/ Retire(s)
    \/ \E kind \in Kinds : CheckHandler(kind, s)

AccessProgress ==
  \/ Tick
  \/ \E p \in probes : \E outcome \in {"error", "ok", "identified"} : FinishCheckHandler(p, outcome)
================================================================================
