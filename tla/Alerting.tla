------------------------------- MODULE Alerting -------------------------------
(***************************************************************************)
(* Metrics and alerts: collection jobs store samples of a server, an       *)
(* evaluation looks at the newest sample of each server for every enabled  *)
(* rule and opens an alert or refreshes the open one, and operators        *)
(* acknowledge and resolve alerts.  One metric is modelled.                *)
(***************************************************************************)
EXTENDS Integers, Sequences, FiniteSets

CONSTANTS
  Hosts,          \* servers
  Rules,          \* rule_id of the rules, each with an operator and threshold
  Operators,      \* operators a rule may have
  Values,         \* values of the metric
  Thresholds,     \* thresholds of the rules
  Evaluators,     \* goroutines of the HTTP server
  SampleLimit,    \* 200: the newest samples an evaluation reads
  MaxSamples,     \* bound on collection jobs
  MaxAlerts,      \* bound on alerts
  MaxVisits       \* bound on evaluations, acknowledgements and resolutions

ASSUME AlertAssumption ==
  /\ Values \union Thresholds \subseteq Int /\ Operators \subseteq {">", ">=", "<", "<=", "=="}
  /\ SampleLimit \in Nat \ {0} /\ {MaxSamples, MaxAlerts, MaxVisits} \subseteq Nat

VARIABLES
  rules,          \* alert_rules rows
  collection,     \* collection_jobs rows, with the goroutine of each
  samples,        \* metric_samples rows, newest first
  alerts,         \* alerts rows, by id
  visit,          \* the request each goroutine handles
  visits,         \* requests so far
  doubled         \* pairs of server and rule of which two requests overlapped

alertVars == <<rules, collection, samples, alerts, visit, visits, doubled>>

NoVisit == [pc |-> "idle", rules |-> {}, rule |-> "none", servers |-> {}, server |-> "none", alert |-> 0]
Unresolved == {a \in DOMAIN alerts : alerts[a].status # "resolved"}
OpenFor(server, rule) == {a \in Unresolved : alerts[a].server = server /\ alerts[a].rule = rule}

CompareMetric(value, operator, threshold) ==
  \/ operator = ">" /\ value > threshold
  \/ operator = ">=" /\ value >= threshold
  \/ operator = "<" /\ value < threshold
  \/ operator = "<=" /\ value <= threshold
  \/ operator = "==" /\ value = threshold

AlertInit ==
  /\ rules \in [Rules -> [operator : Operators, threshold : Thresholds, status : {"enabled", "disabled"}]]
  /\ collection = <<>> /\ samples = <<>> /\ alerts = <<>>
  /\ visit = [h \in Evaluators |-> NoVisit] /\ visits = 0 /\ doubled = {}

(* POST /servers/{id}/collections. *)
StartCollection(server) ==
  /\ Len(collection) < MaxSamples
  /\ collection' = Append(collection, [server |-> server, status |-> "running", pc |-> "collect"])
  /\ UNCHANGED <<rules, samples, alerts, visit, visits, doubled>>

(* The goroutine reaches the server, or fails within its 30 seconds. *)
Collect(j) ==
  /\ collection[j].pc = "collect"
  /\ \/ collection' = [collection EXCEPT ![j].pc = "store"]
     \/ collection' = [collection EXCEPT ![j].pc = "ended", ![j].status = "failed"]
  /\ UNCHANGED <<rules, samples, alerts, visit, visits, doubled>>

(* The samples, which may miss the metric; an error here is ignored too. *)
StoreSamples(j) ==
  /\ collection[j].pc = "store"
  /\ \/ \E v \in Values : samples' = <<[server |-> collection[j].server, value |-> v, old |-> FALSE]>> \o samples
     \/ UNCHANGED samples
  /\ collection' = [collection EXCEPT ![j].pc = "prune"]
  /\ UNCHANGED <<rules, alerts, visit, visits, doubled>>

(* The samples of the retention period, by position. *)
Recent == {i \in DOMAIN samples : ~samples[i].old}

(* pruneOldMetrics, then the job is settled. *)
SettleCollection(j) ==
  /\ collection[j].pc = "prune"
  /\ samples' = SubSeq(samples, 1, Cardinality(Recent))  \* the newest come first
  /\ collection' = [collection EXCEPT ![j].pc = "ended", ![j].status = "success"]
  /\ UNCHANGED <<rules, alerts, visit, visits, doubled>>

(* Seven days pass. *)
PassRetention ==
  /\ \E i \in DOMAIN samples : ~samples[i].old
  /\ samples' = [i \in DOMAIN samples |-> [samples[i] EXCEPT !.old = TRUE]]
  /\ UNCHANGED <<rules, collection, alerts, visit, visits, doubled>>

(* PATCH /alert-rules/{id}, which enables or disables the rule. *)
UpdateAlertRule(rule, status) ==
  /\ rules[rule].status # status
  /\ rules' = [rules EXCEPT ![rule].status = status]
  /\ UNCHANGED <<collection, samples, alerts, visit, visits, doubled>>

Enter(h, request) ==
  /\ visit[h].pc = "idle" /\ visits < MaxVisits
  /\ visits' = visits + 1 /\ visit' = [visit EXCEPT ![h] = request]

(* POST /alert-rules/evaluate reads the enabled rules. *)
StartEvaluation(h) ==
  /\ Enter(h, [NoVisit EXCEPT !.pc = "rule", !.rules = {r \in Rules : rules[r].status = "enabled"}])
  /\ UNCHANGED <<rules, collection, samples, alerts, doubled>>

(* The servers whose newest sample, among the newest SampleLimit samples of *)
(* the retention period, breaches the rule.                                 *)
Breaching(rule) ==
  LET read == {i \in Recent : Cardinality({j \in Recent : j <= i}) <= SampleLimit}
      newest == {i \in read : \A j \in read : j < i => samples[j].server # samples[i].server}
  IN {samples[i].server : i \in {n \in newest :
        CompareMetric(samples[n].value, rules[rule].operator, rules[rule].threshold)}}

(* The next rule and its samples. *)
TakeRule(h) ==
  /\ visit[h].pc = "rule"
  /\ \E r \in visit[h].rules :
       visit' = [visit EXCEPT ![h].pc = "lookup", ![h].rule = r, ![h].rules = @ \ {r}, ![h].servers = Breaching(r)]
  /\ UNCHANGED <<rules, collection, samples, alerts, visits, doubled>>

X_Existing(server, rule) == {a \in OpenFor(server, rule) : alerts[a].status = "firing"}

(* The alert an evaluation takes for the one already open. *)
Existing(server, rule) == OpenFor(server, rule)

(* The next server: its open alert is refreshed, or none was found.  The *)
(* refresh writes the severity and the texts, never the status.          *)
LookUp(h) ==
  /\ visit[h].pc = "lookup"
  /\ \E s \in visit[h].servers :
       visit' = IF Existing(s, visit[h].rule) # {}
                THEN [visit EXCEPT ![h].servers = @ \ {s}]
                ELSE [visit EXCEPT ![h].pc = "create", ![h].server = s, ![h].servers = @ \ {s}]
  /\ UNCHANGED <<rules, collection, samples, alerts, visits, doubled>>

CreateAlert(h) ==
  LET pair == <<visit[h].server, visit[h].rule>> IN
  /\ visit[h].pc = "create" /\ Len(alerts) < MaxAlerts
  /\ alerts' = Append(alerts, [server |-> pair[1], rule |-> pair[2], status |-> "firing"])
  /\ visit' = [visit EXCEPT ![h].pc = "lookup"]
  /\ doubled' = IF \E g \in Evaluators \ {h} : visit[g].pc = "create" /\ <<visit[g].server, visit[g].rule>> = pair
                THEN doubled \union {pair} ELSE doubled
  /\ UNCHANGED <<rules, collection, samples, visits>>

(* The servers of this rule are done, or the rules of this evaluation. *)
EndEvaluation(h) ==
  /\ \/ visit[h].pc = "lookup" /\ visit[h].servers = {} /\ visit' = [visit EXCEPT ![h].pc = "rule"]
     \/ visit[h].pc = "rule" /\ visit[h].rules = {} /\ visit' = [visit EXCEPT ![h] = NoVisit]
  /\ UNCHANGED <<rules, collection, samples, alerts, visits, doubled>>

(* The alert is read: ack wants a firing one, resolve any that is open. *)
StartAck(h, a) ==
  /\ alerts[a].status = "firing" /\ Enter(h, [NoVisit EXCEPT !.pc = "ack", !.alert = a])
  /\ UNCHANGED <<rules, collection, samples, alerts, doubled>>

StartResolve(h, a) ==
  /\ a \in Unresolved /\ Enter(h, [NoVisit EXCEPT !.pc = "resolve", !.alert = a])
  /\ UNCHANGED <<rules, collection, samples, alerts, doubled>>

(* The status is written whatever it has become: an acknowledgement may *)
(* open a resolved alert again.                                         *)
EndAck(h) ==
  LET a == visit[h].alert IN
  /\ visit[h].pc = "ack"
  /\ alerts' = [alerts EXCEPT ![a].status = "acknowledged"]
  /\ doubled' = IF a \in Unresolved THEN doubled ELSE doubled \union {<<alerts[a].server, alerts[a].rule>>}
  /\ visit' = [visit EXCEPT ![h] = NoVisit]
  /\ UNCHANGED <<rules, collection, samples, visits>>

EndResolve(h) ==
  /\ visit[h].pc = "resolve"
  /\ alerts' = [alerts EXCEPT ![visit[h].alert].status = "resolved"]
  /\ visit' = [visit EXCEPT ![h] = NoVisit]
  /\ UNCHANGED <<rules, collection, samples, visits, doubled>>

CollectionStep(j) == Collect(j) \/ StoreSamples(j) \/ SettleCollection(j)

AlertNext ==
  \/ \E s \in Hosts : StartCollection(s)
  \/ \E j \in DOMAIN collection : CollectionStep(j)
  \/ PassRetention
  \/ \E r \in Rules, status \in {"enabled", "disabled"} : UpdateAlertRule(r, status)
  \/ \E h \in Evaluators :
       \/ StartEvaluation(h) \/ TakeRule(h) \/ LookUp(h) \/ CreateAlert(h) \/ EndEvaluation(h)
       \/ \E a \in DOMAIN alerts : StartAck(h, a) \/ StartResolve(h, a)
       \/ EndAck(h) \/ EndResolve(h)

AlertSpec == AlertInit /\ [][AlertNext]_alertVars

AlertTypeOK ==
  /\ \A r \in Rules : rules[r].status \in {"enabled", "disabled"}
  /\ \A j \in DOMAIN collection :
       /\ collection[j].status \in {"running", "success", "failed"}
       /\ collection[j].status = "running" <=> collection[j].pc # "ended"
  /\ Len(samples) <= MaxSamples /\ Len(alerts) <= MaxAlerts /\ visits \in 0..MaxVisits
  /\ \A a \in DOMAIN alerts : alerts[a].status \in {"firing", "acknowledged", "resolved"}
  /\ \A h \in Evaluators : visit[h].pc \in {"idle", "rule", "lookup", "create", "ack", "resolve"}
  /\ doubled \subseteq Hosts \X Rules

(* A rule has at most one unresolved alert on a server however often it  *)
(* is evaluated, except where two evaluations found none at once or an   *)
(* acknowledgement wrote over a resolved alert (evaluateAlertRules,      *)
(* ackAlert).                                                            *)
OneOpenAlert ==
  \A s \in Hosts, r \in Rules : Cardinality(OpenFor(s, r)) <= 1 \/ <<s, r>> \in doubled
===============================================================================
