------------------------------ MODULE ServerLease ------------------------------
(***************************************************************************)
(* What the deployment handlers and the workflow goroutines promise        *)
(* together: a deployment holds the server it installs exclusively, from   *)
(* the moment it is queued until, once it has settled, the server is given *)
(* back; a settled deployment changes again only by being queued again.    *)
(* DeploymentWorkflow implements this without any such record: who holds a *)
(* server is spread over the deployment's status, the server's status and  *)
(* the program counters of goroutines and handlers.                        *)
(***************************************************************************)
EXTENDS Functions

CONSTANTS Servers, Deployments

VARIABLES
  phase,  \* status of each deployment
  holders \* the deployments that hold each server

leaseVars == <<phase, holders>>

Free(s) == holders[s] = {}
Unsettled == {"pending", "running"}

Init ==
  /\ phase = [d \in Deployments |-> "none"]
  /\ holders = [s \in Servers |-> {}]

(* Every deployment in the domain of target is queued for its own free server. *)
Queue(target) ==
  /\ IsInjective(target)
  /\ \A d \in DOMAIN target : phase[d] \notin Unsettled /\ Free(target[d])
  /\ phase' = [d \in Deployments |-> IF d \in DOMAIN target THEN "pending" ELSE phase[d]]
  /\ holders' = [s \in Servers |-> IF s \in Range(target)
                                   THEN {d \in DOMAIN target : target[d] = s}
                                   ELSE holders[s]]

Start(d) ==
  /\ phase[d] = "pending"
  /\ phase' = [phase EXCEPT ![d] = "running"]
  /\ UNCHANGED holders

Settle(d, outcome) ==
  /\ phase[d] \in (IF outcome = "cancelled" THEN Unsettled ELSE {"running"})
  /\ phase' = [phase EXCEPT ![d] = outcome]
  /\ UNCHANGED holders

Release(s) ==
  /\ \A d \in holders[s] : phase[d] \notin Unsettled
  /\ holders' = [holders EXCEPT ![s] = {}]
  /\ UNCHANGED phase

Next ==
  \/ \E D \in SUBSET Deployments : \E target \in [D -> Servers] : Queue(target)
  \/ \E d \in Deployments :
       Start(d) \/ \E outcome \in {"success", "failed", "cancelled"} : Settle(d, outcome)
  \/ \E s \in Servers : Release(s)

Spec == Init /\ [][Next]_leaseVars
================================================================================
