---------------------------- MODULE MCNetworkBoot ----------------------------
(***************************************************************************)
(* The two services a booting machine meets, the transfer of its loader    *)
(* and then the scripts and metadata, in one instance: they share no       *)
(* state, so a behaviour exercises one of them.                            *)
(***************************************************************************)
EXTENDS TftpTransfer, NetworkBoot, TLC

CONSTANT m1

VARIABLE stage

mcVars == <<tftpVars, bootVars, stage>>

MCInit ==
  /\ stage \in {"loader", "script"}
  /\ BootInit /\ (stage = "loader" => mode = "external" /\ ~network)
  /\ TftpInit /\ (stage = "script" => request = [name |-> "outside", options |-> FALSE, base |-> 0, limit |-> 1] /\ file = 0)

MCNext ==
  \/ stage = "loader" /\ TftpNext /\ UNCHANGED <<bootVars, stage>>
  \/ stage = "script" /\ BootNext /\ UNCHANGED <<tftpVars, stage>>

MCSpec == MCInit /\ [][MCNext]_mcVars /\ (stage = "loader" => TftpFairness)

(* The variables of the two services have their types. *)
NetworkBootTypeOK == TftpTypeOK /\ BootTypeOK
==============================================================================
