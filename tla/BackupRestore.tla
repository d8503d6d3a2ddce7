----------------------------- MODULE BackupRestore -----------------------------
(***************************************************************************)
(* Backup of the inventory and its restore into a new installation.  An    *)
(* export reads one table after the other while the platform works; the    *)
(* payload is validated for references and quotas before a restore, which  *)
(* wants an empty target, clears it and inserts the payload in one         *)
(* transaction.  The tables of AssetInventory stand for the 31 tables.     *)
(***************************************************************************)
EXTENDS AssetInventory

VARIABLES
  export,     \* the export: which table is next, and what was true of it
  payload,    \* the tables read so far
  restore     \* the restore: where it is, and whether requests overlapped it

backupVars == <<export, payload, restore>>
allVars == <<inventoryVars, backupVars>>

(* What a query sees of the tables: rows that are not deleted. *)
Live == [tenants |-> tenants,
         servers |-> [s \in LiveServers |-> servers[s].tenant],
         images |-> LiveImages,
         deployments |-> deployments,
         probed |-> probed]

Nothing == [tenants |-> [t \in {} |-> <<>>], servers |-> [s \in {} |-> "none"], images |-> {},
            deployments |-> [d \in {} |-> <<>>], probed |-> {}]

(* The order in which exportBackup queries the tables. *)
Order == <<"tenants", "servers", "images", "deployments", "probed">>

BackupInit ==
  /\ InventoryInit
  /\ export = [pc |-> "idle", table |-> 1, torn |-> FALSE, sound |-> TRUE]
  /\ payload = Nothing
  /\ restore = [pc |-> "idle", late |-> FALSE]

(* GET /ops/backup. *)
StartExport ==
  /\ export.pc = "idle" /\ restore.pc = "idle"
  /\ export' = [pc |-> "reading", table |-> 1, torn |-> FALSE,
                sound |-> severed = {} /\ overrun = {} /\ probed \subseteq LiveServers]
  /\ UNCHANGED <<inventoryVars, payload, restore>>

ReadTable ==
  LET table == Order[export.table] IN
  /\ export.pc = "reading"
  /\ payload' = [payload EXCEPT ![table] = Live[table]]
  /\ export' = IF export.table = Len(Order) THEN [export EXCEPT !.pc = "done"]
               ELSE [export EXCEPT !.table = @ + 1]
  /\ UNCHANGED <<inventoryVars, restore>>

(* backupReferenceProblems: none. *)
ReferencesOK(p) ==
  /\ \A s \in DOMAIN p.servers : p.servers[s] # "none" => p.servers[s] \in DOMAIN p.tenants
  /\ \A d \in DOMAIN p.deployments : p.deployments[d].server \in DOMAIN p.servers /\ p.deployments[d].image \in p.images
  /\ p.probed \subseteq DOMAIN p.servers

X_QuotasOK(p) ==
  \A t \in DOMAIN p.tenants :
    p.tenants[t].limit # NoLimit => Cardinality({s \in DOMAIN p.servers : p.servers[s] = t}) < p.tenants[t].limit

(* backupTenantQuotaUsageProblems: none. *)
QuotasOK(p) ==
  \A t \in DOMAIN p.tenants :
    p.tenants[t].limit # NoLimit => Cardinality({s \in DOMAIN p.servers : p.servers[s] = t}) <= p.tenants[t].limit

Valid(p) == ReferencesOK(p) /\ QuotasOK(p)

(* The payload is taken to a new installation, with its seeded user only. *)
Reinstall ==
  /\ export.pc = "done"
  /\ export' = [export EXCEPT !.pc = "moved"]
  /\ tenants' = Nothing.tenants /\ servers' = [s \in {} |-> <<>>] /\ images' = [i \in {} |-> TRUE]
  /\ deployments' = Nothing.deployments /\ probed' = {}
  /\ next' = [servers |-> 1, images |-> 1, deployments |-> 1]
  /\ worker' = [h \in Workers |-> Idle] /\ severed' = {} /\ overrun' = {}
  /\ UNCHANGED <<ops, payload, restore>>

(* ensureFreshRestoreTarget counts the rows; deleted ones do not count. *)
FreshTarget == Live = Nothing

(* POST /ops/backup/restore validates the payload and looks at the target. *)
CheckRestore ==
  /\ restore.pc = "idle" /\ export.pc = "moved"
  /\ Valid(payload) /\ FreshTarget
  /\ restore' = [restore EXCEPT !.pc = "checked"]
  /\ UNCHANGED <<inventoryVars, export, payload>>

(* The first id after all of those. *)
Above(ids) == CHOOSE n \in 1..(MaxServers + MaxImages + MaxDeployments + 1) :
                (\A i \in ids : i < n) /\ (n = 1 \/ (n - 1) \in ids)

X_NextIds(p) == next

(* resetBackupTableSequences: the ids after those of the restored rows. *)
NextIds(p) ==
  [servers |-> Above(DOMAIN p.servers), images |-> Above(p.images), deployments |-> Above(DOMAIN p.deployments)]

(* clearBackupTables, the inserts and the sequences, in one transaction. *)
(* A request that checked the rows they replace may break any promise.   *)
WriteRestore ==
  LET late == \E h \in Workers : worker[h].pc # "idle" IN
  /\ restore.pc = "checked"
  /\ tenants' = payload.tenants
  /\ servers' = [s \in DOMAIN payload.servers |-> [tenant |-> payload.servers[s], live |-> TRUE]]
  /\ images' = [i \in payload.images |-> TRUE]
  /\ deployments' = payload.deployments /\ probed' = payload.probed
  /\ next' = NextIds(payload)
  /\ restore' = [pc |-> "done", late |-> late]
  /\ severed' = (IF late THEN 1..MaxDeployments ELSE {}) /\ overrun' = (IF late THEN Tenants ELSE {})
  /\ UNCHANGED <<worker, ops, export, payload>>

(* The platform works on; a write during the export tears it. *)
Work ==
  /\ InventoryNext
  /\ export' = [export EXCEPT !.torn = @ \/ (export.pc = "reading" /\ tables' # tables)]
  /\ UNCHANGED <<payload, restore>>

BackupNext == Work \/ StartExport \/ ReadTable \/ Reinstall \/ CheckRestore \/ WriteRestore

BackupSpec == BackupInit /\ [][BackupNext]_allVars

BackupTypeOK ==
  /\ export.pc \in {"idle", "reading", "done", "moved"} /\ export.table \in DOMAIN Order
  /\ restore.pc \in {"idle", "checked", "done"}
  /\ DOMAIN payload.servers \subseteq 1..MaxServers /\ DOMAIN payload.deployments \subseteq 1..MaxDeployments

(* A backup can be restored: an export no write overlapped passes its     *)
(* validation, if the rows were sound when it began, that is no two       *)
(* requests raced before and no lab validation result refers to a deleted *)
(* server (exportBackup against buildBackupValidationReport and what the  *)
(* handlers of the inventory allow).                                      *)
BackupUsable == export.pc = "done" /\ export.sound /\ ~export.torn => Valid(payload)

(* The id a sequence gives out next is in no row, so that a platform that *)
(* was restored can go on adding rows, unless a request that had read the *)
(* rows of before was still to write (clearBackupTables,                  *)
(* resetBackupTableSequences, and the whole-row Save of the handlers,     *)
(* which inserts a row that is gone).                                     *)
FreshIds ==
  \/ restore.late
  \/ /\ next.servers \notin DOMAIN servers /\ next.images \notin DOMAIN images
     /\ next.deployments \notin DOMAIN deployments
================================================================================
