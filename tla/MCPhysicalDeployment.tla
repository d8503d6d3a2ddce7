------------------------- MODULE MCPhysicalDeployment -------------------------
(* Instances of PhysicalDeployment for model checking.                       *)
EXTENDS PhysicalDeployment, TLC

CONSTANTS s1, d1, d2, r1, r2, r3, q1, x1, x2

(* The id of d2 begins with that of d1, as 12 with 1: deployments are not    *)
(* interchangeable, and as ids are handed out in order d1 is created first.  *)
MCIdPrefix == {<<d1, d2>>}
InIdOrder == depStatus[d2] # "none" => depStatus[d1] # "none"

(* Bounds of PhysicalCrash.cfg.  Servers are proved by lab evidence or by    *)
(* SSH checks, not by both (PhysicalDeployment.cfg mixes them).  The third   *)
(* attempt, with which d1 is retried after d2 has come and gone, is made     *)
(* only when the first of each deployment was cancelled before it opened a   *)
(* workflow run; it is proved by lab evidence, and the process does not die. *)
OneKindOfProof == labbed = {} \/ checked = {}
ThirdAfterEarlyCancels ==
  (\A r \in Runs : runPc[r] # "unused") =>
    /\ up /\ checked = {}
    /\ \A d \in Deployments : \E r \in Runs :
         runDep[r] = d /\ runPc[r] = "done" /\ wfStatus[r] = "none"

CrashBounds == InIdOrder /\ OneKindOfProof /\ ThirdAfterEarlyCancels

Symmetry == Permutations(Runs) \union Permutations(Pollers)
================================================================================
