------------------------- MODULE MCDeploymentWorkflow -------------------------
(* Instances of DeploymentWorkflow for model checking.                       *)
EXTENDS DeploymentWorkflow, Sequences, TLC

CONSTANTS s1, s2, d1, d2, r1, r2, r3, r4, q1, q2

Symmetry == Permutations(Servers) \union Permutations(Deployments)
              \union Permutations(Runs) \union Permutations(Requests)

(* TLC's symmetry reduction does not go with liveness.  Servers, deployments *)
(* and goroutines are interchangeable, so any behaviour can be renamed to    *)
(* one in which d1 is created first, or together with d2, and on s1, and the *)
(* goroutines are started in order.  No goroutine or request that is under   *)
(* way is held up by this, so fairness asks for nothing that it forbids.     *)
InOrder == <<r1, r2, r3, r4>>
Canonical ==
  /\ depServer[d1] \in {NoServer, s1}
  /\ depStatus[d2] # "none" => depStatus[d1] # "none"
  /\ \A i \in 2..4 :
       InOrder[i] \in Runs /\ runPc[InOrder[i]] # "unused" => runPc[InOrder[i - 1]] # "unused"

CanonicalNext == Next /\ Canonical'
CanonicalSpec == Init /\ [][CanonicalNext]_vars /\ Fairness
================================================================================
