---------------------------- MODULE MCLabValidation ----------------------------
EXTENDS LabValidation, TLC

CONSTANT s1

Strict(servers) == [strict |-> TRUE, pxe |-> TRUE, bmc |-> TRUE, ssh |-> TRUE,
                    servers |-> servers, macs |-> servers]
MCOptions == {Strict(Servers), [Strict({}) EXCEPT !.strict = FALSE, !.pxe = FALSE, !.bmc = FALSE]}

(* A strict run that names no server: the gate fails it and its checks go on.       *)
MCUnnamed == {[Strict({}) EXCEPT !.pxe = FALSE]}

MCClaims == {<<"full", "ok">>, <<"bmc", "ok">>, <<"ssh", "error">>}

MCConfigs ==
  {[adapter |-> adapter, hostKeys |-> "known_hosts", production |-> FALSE, services |-> "ok"] :
     adapter \in {"simulated", "redfish"}}
================================================================================
