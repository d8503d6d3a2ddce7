----------------------------- MODULE MCOperations -----------------------------
(***************************************************************************)
(* The services around deployment, which share no state in these models:   *)
(* script jobs, terminal sessions, alerts, the login limiter, user roles,  *)
(* and the inventory with its backup.  A behaviour exercises one of them.  *)
(* Collection jobs run one at a time.  Beside a backup, one goroutine      *)
(* handles at most BackupOps requests, and quotas are of one server.       *)
(***************************************************************************)
EXTENDS ScriptJobs, TerminalSessions, Alerting, LoginLimiter, UserRoles, BackupRestore, TLC

CONSTANTS t1, BackupOps

MCLimits == {1, NoLimit}

VARIABLE stage

mcVars == <<scriptVars, termVars, alertVars, limiterVars, userVars, allVars, stage>>

MCInit ==
  /\ stage \in {"scripts", "terminals", "alerts", "logins", "users", "assets", "backup"}
  /\ ScriptInit /\ (stage # "scripts" => operable = {} /\ ~remote)
  /\ AlertInit /\ (stage # "alerts" => \A r \in Rules : rules[r].status = "enabled")
  /\ TermInit /\ LimiterInit /\ UserInit /\ BackupInit

Scripts == stage = "scripts" /\ ScriptNext /\ UNCHANGED <<termVars, alertVars, limiterVars, userVars, allVars, stage>>
Terminals == stage = "terminals" /\ TermNext /\ UNCHANGED <<scriptVars, alertVars, limiterVars, userVars, allVars, stage>>
Alerts ==
  /\ stage = "alerts" /\ AlertNext
  /\ Cardinality({j \in DOMAIN collection' : collection'[j].pc # "ended"}) <= 1
  /\ UNCHANGED <<scriptVars, termVars, limiterVars, userVars, allVars, stage>>
LoginStage == stage = "logins" /\ LimiterNext /\ UNCHANGED <<scriptVars, termVars, alertVars, userVars, allVars, stage>>
UserStage == stage = "users" /\ UserNext /\ UNCHANGED <<scriptVars, termVars, alertVars, limiterVars, allVars, stage>>
Assets ==
  /\ stage = "assets" /\ InventoryNext
  /\ UNCHANGED <<scriptVars, termVars, alertVars, limiterVars, userVars, backupVars, stage>>
Backup ==
  /\ stage = "backup" /\ BackupNext
  /\ ops' <= BackupOps /\ \A h \in Workers \ {1} : worker'[h].pc = "idle"
  /\ \A t \in DOMAIN tenants' : tenants'[t].limit = 1
  /\ UNCHANGED <<scriptVars, termVars, alertVars, limiterVars, userVars, stage>>

MCNext == Scripts \/ Terminals \/ Alerts \/ LoginStage \/ UserStage \/ Assets \/ Backup

MCSpec ==
  /\ MCInit /\ [][MCNext]_mcVars
  /\ stage = "scripts" => ScriptFairness

(* Every component's variables have their types. *)
OperationsTypeOK ==
  ScriptTypeOK /\ TermTypeOK /\ AlertTypeOK /\ LimiterTypeOK /\ UserTypeOK /\ InventoryTypeOK /\ BackupTypeOK
===============================================================================
