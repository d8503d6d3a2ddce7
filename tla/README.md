# bootmgr: models and proofs

bootmgr manages bare-metal servers: an inventory with a life cycle, PXE boot services (DHCP, TFTP,
iPXE scripts, installer metadata), operating-system deployments, and operations (SSH checks, scripts,
terminals, metrics, alerts, backup). It is one Go process with an HTTP API (gin), a relational database
(gorm), a DHCP and a TFTP server, and goroutines it starts for long work. There is no queue and no lock
between these: what keeps them apart is the order of their database statements, `WHERE status = ...`
guards, a few transactions, and one channel that bounds how many deployments run.

This directory holds TLA+ modules that model where that matters: how deployments claim, install and release
servers, how machines boot and are validated, and the services around them, with TLC configurations that check
them, and TLAPS proofs, for all values of the constants, of every safety invariant the passing runs check.
Paths below are relative to `src/backend/internal/` unless they start with `docs/` or `README.md`.

## Inventory

| Component | State | Operations | What makes it correct |
|---|---|---|---|
| Deployment API, `handlers/deployments.go` | `deployments` rows: status, server, times | create, batch, cancel, retry, get, logs, preflight | one active deployment per server; a batch is all or nothing; only failed or cancelled ones are retried |
| Workflow executor, `services/workflow.go` | goroutines, `slots` channel, `workflow_runs`, `task_executions` | run (simulated with a BMC, physical without), cancel, fail, finish, reconcile, resume at start-up | every deployment settles and gives its server back exactly once; the concurrency bound; what a restart may forget |
| Server inventory, `handlers/servers.go` | `servers` rows: status and attributes, history, BOM, retirement records | create, patch, delete, retire, scrap | life cycle order; no deletion while referenced; no lost update |
| Boot and metadata, `handlers/boot.go`, `services/boot.go` | `boot_events`, `metadata_tokens`, access logs | render iPXE, metadata by server, deployment, token | an event or access counts for the right deployment; tokens expire |
| DHCP and TFTP, `services/pxe.go` | sockets, one goroutine per packet or transfer | lease, boot file, transfer with retry, probes | transfers deliver the file or fail; 16-bit block numbers |
| SSH checks and executor, `services/ssh_executor.go`, `handlers/monitoring.go` | `ssh_accesses` row per server | configure, check, run | the latest outcome decides |
| Lab validation, `handlers/lab_validation.go` | evidence and run rows | run, record evidence, bundle | evidence refers to real, fresh observations |
| Scripts and terminals, `services/scripts.go`, `services/terminal.go` | job, execution and session rows | start, batch, time out; open, run, close, expire | a job ends; a transcript loses nothing |
| Monitoring, `handlers/monitoring.go`, `services/collector.go` | samples, alerts, rules | collect, evaluate, acknowledge, resolve | one open alert per server and rule; resolved stays resolved |
| Tenants, users, login limiter | rows; an in-memory map with a mutex | quota check, login, lock out | quota and attempt limits under concurrency |
| Images, templates, networks, BMC, credentials, audit, backup, configuration, readiness, frontend, tools | rows, files, external services | CRUD, upload, verify, power, export, restore | mostly single-row; check-then-delete and restore-when-fresh are the exceptions |

How they interact: the API handlers call `WorkflowService` directly; goroutines and handlers meet only in
the database; boot, metadata, SSH and lab handlers call `ReconcileDeployment` after recording their
evidence; `NewRouter` reconciles active deployments before the process serves requests, but after the DHCP
server has started (`cmd/api/main.go`). What is hard is therefore interleaving (a cancel and a retry while the
goroutine of the cancelled attempt sleeps), stale reads (rows read, then written later without a guard),
crashes between statements, and evidence that arrives in any order. `PROJECT.json` lists these hazards at
their lines, each with the properties that cover it or what is planned.

## Modules

| Module | Models | State and code |
|---|---|---|
| `DeploymentApi` | handlers of deployments, edits of server rows, crash and start-up | `serverStatus`, `depStatus`, `depServer`, `wfStatus` are columns; `req` is the place each HTTP request has reached and what it read; `runPc`, `runDep` are goroutines; `up`, `starting` the process |
| `DeploymentWorkflow` | `WorkflowService.run` with a BMC, composed with `DeploymentApi` | `runPc` is the statement a goroutine is at, `runStep` the steps it has completed |
| `PhysicalDeployment` | `startPhysicalPXEWorkflow`, `ReconcileDeployment` and all that call it, composed with `DeploymentApi` | `wfRows`, `tasked` are the workflow and task rows; `booted`, `accessed`, `labbed`, `checked`, `sshOk` the evidence; `rec` each call in progress |
| `ServerAccess` | SSH access rows and BMC endpoints: upsert, retirement, checks that store their outcome later | `ssh`, `bmc` are columns; `answered` is when the machine last really answered; `checker` the checks under way |
| `LabValidation` | validation runs, boot events, recorded evidence and its references, candidates, checklist, report, readiness, restarts with another configuration; composed with `ServerAccess` | `runs`, `evidence`, `events` are rows; `booted` is when a boot of the machine was last recorded with a physical source; a run stores its results, then its status |
| `TftpTransfer` | `serveTFTPRequest` and the client `ProbeTFTPFileWithOptions` over a channel that loses, repeats and reorders | `session` is the goroutine of each socket, `client` the prober, `net` the packets ever sent |
| `NetworkBoot` | DHCP answers, discovery, boot scripts, metadata by server, deployment and token, token rotation | `servers`, `deps`, `tokens`, `bootEvents`, `accesses` are rows; `handler` is the place of each request; `handed` the tokens given out; `network` whether the clients are in an enabled deployment network |
| `ScriptJobs` | a script job from its creation to its last write | `job`, `executions` are rows, `runner` the goroutine, `session` the goroutines of a batch |
| `TerminalSessions` | open, command, close, expiry | `sessions` are rows, `caller` the calls with the transcript each has read |
| `Alerting` | collection jobs, samples, retention, rule evaluation, acknowledge, resolve | `collection`, `samples`, `rules`, `alerts` are rows, `visit` the requests |
| `LoginLimiter` | `loginRateLimiter` around a slow password comparison | `attempt` is the entry of a key, `checking` the logins let through |
| `UserRoles` | creation of users and changes of roles | `users` are roles, `editor` the requests |
| `AssetInventory` | servers, tenants and quotas, images, and the deployments that refer to them: every check and the write that follows it | `tenants`, `servers`, `images`, `deployments`, `probed` are tables, `next` the id sequences, `worker` the requests |
| `BackupRestore` | export, validation, restore; extends `AssetInventory` | `payload` is the file, `export` and `restore` the two requests |
| `ServerLease` | abstract: a deployment holds its server exclusively until it has settled and released it | `phase`, `holders`; the two modules above implement it |
| `DeploymentWorkflowProofs`, `DeploymentLeaseProofs`, `DeploymentQueueProofs` | theorems about `DeploymentWorkflow` | types and evidence of claims, the lease, and the queue, in this order |
| `PhysicalDeploymentProofs` | theorems about `PhysicalDeployment` | types, evidence, settling, the lease |
| `LabValidationProofs` | theorems about `LabValidation` with `ServerAccess` | |
| `NetworkBootProofs` | theorems about `TftpTransfer` and `NetworkBoot` | the transfer, then the boot service, then both in `MCNetworkBoot` |
| `AdministrationProofs` | theorems about `UserRoles`, `LoginLimiter`, `AssetInventory`, `BackupRestore` | one part each, then the bounds of their rows |
| `OperationsProofs` | theorems about `ScriptJobs`, `TerminalSessions`, `Alerting` | one part each, then all seven operations services in `MCOperations` |
| `MCDeploymentWorkflow`, `MCPhysicalDeployment`, `MCLabValidation` | model values, symmetry and request options for TLC | |
| `MCNetworkBoot`, `MCOperations` | several components in one instance: `stage` says which one a behaviour exercises, since they share no state | |

Every action is one database statement (or one transaction) with the code up to the next one; a handler that
reads, then writes outside a transaction is several actions with its local variables kept in `req` or `rec`.

Some actions merge several statements:

- committing a creation and `go run` are one action, because a goroutine that waits for a slot and one not started yet
  differ in nothing another step can see, and a crash loses both alike;
- a piece of evidence is dated by the step that stores it;
- `Accessed` asks the token's use and the log of accesses at once, and they are one set; `Evidenced` asks for boot, access
  and check in one step, where `deploymentPhysicalEvidence` makes up to five queries;
- `RunPXEChecks` reads the events of all the machines of a run, and `StrictFullChainTargets` judges all its servers, at once;
- `RecordEvidence` checks what an evidence row refers to and inserts the row;
- `FinishRun` makes the report, of many queries, and stores its status (the results are stored before, by
  `PersistResults`).

In these a query may see what happened since the one before it. Events, accesses, evidence, stored results and finished
runs are only added to, so a query that comes later finds what an earlier one would have found; the one fact
`deploymentPhysicalEvidence` reads that can be taken back, the SSH row, it reads last. The access rows of
`ServerAccess` and the clock do change: a step of `LabValidation` that reads several of them is judged at one instant,
and a combination of an old and a new row is not explored.

Abstractions. Validation, preflight checks of images, templates and networks, audit and history rows change none
of the modelled state: a request they refuse is a request that does not happen (`RetryRefused` is the one that
matters, since it ends a request that is already under way). Times of evidence are only compared with the
creation of the deployment and with `started_at`, so an instant is named by the deployment or goroutine it
belongs to and evidence is the set of instants it is later than. Task statuses are for display. In
`DeploymentWorkflow` every target has a BMC endpoint and in `PhysicalDeployment` none has, since
`deploymentRequiresPhysicalPXE` is asked once per goroutine; a server that gains or loses its endpoint between two
attempts is not modelled.

In the other modules:
- `ServerAccess`, `LabValidation`: a MAC stands for its server. Rows may exist at the start, as an operator entered them
  earlier. The results of a run are stored in one statement before its status: a process that dies in between leaves
  them below a run that stays `running`, one that dies earlier loses them. A check through the simulated
  adapter stores `ok` without an answer of the machine, as in the code; that readiness is not fooled by it is what
  `ReadyMeansRecent` shows.
- `TftpTransfer`: a packet once sent may arrive at any time, any number of times or never, so the channel is the set of
  packets sent. Block numbers are `% 65536`; a transfer begins at `base`, so that a short one can cross the wrap.
  The server reads the whole file when the request arrives. The client never repeats an acknowledgement for a duplicate
  block, so that a lost one is fatal to a transfer, and the server may log a failure of a transfer the client has completed.
- `NetworkBoot`: DHCP addresses and packet layout are left out. The source of a boot event is modelled as recorded, and
  says less than `docs/integration-notes.md:17` makes of it: in `builtin` mode the DHCP server records `pxe_dhcp` for every
  client class, so an operating system that renews its lease counts as a boot (`services/pxe.go:169`), and the script is
  an open `GET` that any client of an enabled deployment network may make for any MAC, which is recorded as `http_ipxe`
  (`handlers/boot.go:29-54`). No property says that a physical event is of a machine that booted; what the other
  modules show of boots (`ReadyMeansRecent`, `SuccessHasEvidence`) believes the event, and their content is in the rest:
  the SSH and BMC answers, the deployment and the age. An existing server that an operator enters between a
  request's look and its `FirstOrCreate` gets a `boot.discovery` line in its history.
- `PhysicalDeployment`: evidence of an earlier attempt of the same row counts for a retry (boots and accesses of any age,
  `services/workflow.go:299-311`). The log of accesses is searched by `LIKE '%deployment_id=<id>%'`, so the access of a
  later deployment of the server whose id begins with the same digits counts too; `IdPrefix` is the set of such pairs.
- `ScriptJobs`: jobs share nothing, so one is modelled; a simulated run cannot time out, its timeout being a second
  or more and its duration 200 ms (`services/scripts.go:142` is never taken).
- `TerminalSessions`: a transcript is the set of its entries. `Alerting`: one metric; of a rule only its status changes.
- `AssetInventory`: deployments stand for the twelve tables that keep a server from being deleted
  (`handlers/servers.go:290`). Results of lab validation are not among them: once a server with such a result is deleted,
  every later export fails its own validation (`handlers/backup.go:744`), which is why `BackupUsable` asks that
  the rows were `sound`. `Save` of gorm inserts a row that is gone, which brings a deleted server back.
- `BackupRestore`: five of the 31 tables, in the order of the export. An export that a write overlaps is `torn`, as its
  tables are read by separate queries.

Properties excuse the races the code has by name (`contended`, `doubled`, `crossed`, `severed`, `overrun`, `raced`,
`late`), and hold everywhere else: what they show is that nothing but that race breaks the promise.

Definitions named `X_Something` are plausible bugs of `X`, used to show that the
properties can fail.

## Runs

Each attempt (creation, retry, start-up) uses one goroutine id of `Runs`, each HTTP request one slot of `Requests`
(reused when it returns), so the sizes of these sets bound the attempts and the overlap. The theorems hold for any
sizes, and any number of steps.

| Run | Question | Instance |
|---|---|---|
| `DeploymentLease` | without edits and crashes: is it an exclusive lease (`ImplementsLease`), does an active deployment keep its server (`ActiveHoldsServer`), does a deploying server always have somebody to release it (`DeployingIsHeld`), is the concurrency kept (`RunningWithinConcurrency`, of goroutines with a BMC: a physical one gives its slot back before its deployment settles), does every queued deployment settle (`DeploymentSettles`), is every server released (`ServerReleased`), types | 2 servers, 2 deployments, 3 attempts, 2 requests, batches of 2, 1 slot, 1 step |
| `DeploymentHostile` | with patch, retire and scrap at any time and a crash at any step: never two active deployments on a server (`AtMostOneActive`), none pending with nobody on the way to it but those of which a crash left a workflow run open (`ForgottenOnlyByCrash`) | 1 server, 2 deployments, 3 attempts, 2 requests, 1 step |
| `PhysicalDeployment` | is the physical workflow the same lease, is a running deployment never stranded (`RunningCanSettle`), is it settled when somebody looks once evidence is complete (`EvidenceSettles`), is its server released | 1 deployment, 2 attempts, 1 request for evidence, 1 other request |
| `PhysicalCrash` | across crashes: types, `ActiveHoldsServer`, no success without a boot and a check of its own and metadata read for it, or for a deployment the search cannot tell from it (`SuccessHasEvidence`) | 2 deployments of 1 server, one id the beginning of the other, 3 attempts, 1 request; lab evidence or SSH checks, not both; a third attempt only after the first one of each deployment was cancelled before it opened a workflow run, without a crash |
| `LabValidation` | is a server reported ready only after recent, real answers (`ReadyMeansRecent`), is a strict run that ends ok proven (`StrictOkIsProven`) | 1 server, 2 runs, 1 check beside them, 4 requests, 2 configurations, a strict full-chain request and a lenient SSH one, clock of 2 instants |
| `NetworkBoot` | does a completed download hold one version of the file (`DeliveredExact`), does a server that logs completion have a client that has it (`FinishedSessionDelivered`), do transfers end (`SessionEnds`); does a token handed out work (`HandedTokenWorks`), one token row per deployment (`SingleTokenRow`), one server per machine (`DiscoveredOnce`) | 2 sockets, files of one full and one short block starting below the wrap or not, 2 versions; 1 machine, 2 handlers, 2 requests, 1 deployment, 3 DHCP modes, token life 1, clock of 3 instants |
| `Operations` | does a settled script job tell the truth (`JobOutcomeExplained`) and does it settle (`ScriptJobEnds`); are transcript entries kept (`EntriesKept`), does a closed session stay closed (`ClosedStaysClosed`); one open alert per server and rule (`OneOpenAlert`); failed logins per window (`FailuresBounded`); an administrator remains (`AdminRemains`); references and quotas hold (`ReferencesResolve`, `QuotaBounded`), a backup can be restored (`BackupUsable`) and the platform works on after a restore (`FreshIds`) | see below |
| `RetrySucceeded`, `CancelIgnored`, `PhysicalRestart`, `EvidenceOverlooked`, `CandidateRefused` | claims of the documentation the code does not keep; see below | as small as shows it |

The bounds. The races are between at most a cancel, a retry and the goroutines of two attempts, which needs two
attempts of one deployment and one more deployment to claim the server; two requests allow two stale retries, or a
stale edit beside a cancel; one slot makes goroutines queue. A second server shows that deployments of different
servers meet only at the slots. `DeploymentLease` checks liveness too, which does not go with symmetry; instead one order of
creations and starts stands for the others (`Canonical`), and with one step a goroutine still has its last look, its
write and the sleep between them; `RetrySucceeded` and `CancelIgnored` have a first and a last step. In `PhysicalCrash`
the third attempt lets a deployment be retried after another of its server has read its metadata, which is when the
search of the log takes one for the other; the three restrictions (`CrashBounds`) are a constraint of the run, to keep
it small: the theorems know nothing of them. In `PhysicalDeployment` the goroutine's own call, the poller's and a DHCP
request overlap. `CHECK_DEADLOCK FALSE` is set everywhere: once the deployment and goroutine ids are used up and
nobody acts, the system rests, as an idle server does.

`LabValidation` needs an earlier run whose evidence a strict one rests on, hence two runs; four requests let checks and
evidence of different ages meet; with `Window = 0` evidence of the instant before is stale; the request of
`CandidateRefused` is strict and names no server. In `NetworkBoot` two sockets answer a request that was delivered
twice, and the second version is a file replaced in between; two handlers meet at every look-then-write of the boot
service. The instances of `Operations`: jobs of up to 3 servers in batches of up to 3 with one lost statement; 2
sessions, 2 callers, 4 calls; 2 servers, 1 rule, 2 collection jobs one at a time, 3 requests of 2 goroutines; 2 logins
at once, limit 2, window 3, 6 instants, which is where the bound of `FailuresBounded`, twice the limit less one and
the logins under way, is reached: with one less TLC finds a counterexample; 3 users, 3 role changes by 2 goroutines; 2
servers, 1 image, 1 deployment, 1 tenant, 4 requests of 2 goroutines; a backup beside one goroutine that handles 3
requests.

Symmetry is used in the safety runs only. Requests and goroutines that are interchangeable in the code are
interchangeable in the model.

Fairness. A goroutine that can take a step eventually does (the Go scheduler; statements return; the sleep ends).
Weak fairness of `AcquireSlot` per goroutine is enough here because a goroutine that holds the slot always finishes
and the attempts are finite in number; Go serves blocked senders in order. A cancel request and a
`ReconcileDeployment` call that have begun go on to their end. Nothing is assumed of users, servers or the DHCP
server: they may never act. A TFTP session's read deadline passes in the end, so it is fair that it either receives
what it waits for or times out; nothing is assumed of the channel or the client. The goroutine of a script job is
scheduled, and each script ends, since its context times out and closes the connection (`services/scripts.go:179`).

### What the failing claims show

- `RetrySucceeded`: `retryDeployment` looks at the status, runs a preflight that may wait for a BMC, and then
  re-queues the row in a transaction that locks and checks the server but not the deployment
  (`handlers/deployments.go:573`, `605`). Two retries that both read `failed` may thus install a server twice, the
  second time after the first has succeeded. `docs/api.md:245` allows a retry of failed and cancelled deployments only.
- `CancelIgnored`: `run` writes `success` to the workflow run without a guard (`services/workflow.go:198`), so a cancel
  that comes after the look at the end of the last step is answered, and then the run of the cancelled deployment
  succeeds. `docs/api.md:243`, `README.md:34` say the workflow stops writing success.
- `PhysicalRestart`: the workflow run is created before the deployment leaves `pending` (`services/workflow.go:223-224`).
  After a crash in between, and also when a cancelled physical attempt has left its run `running`, start-up takes the
  pending deployment for one in progress (`:48`) and does not resume it. `README.md:33` says pending physical
  deployments are resumed.
- `EvidenceOverlooked`: a boot seen by the DHCP server is recorded without reconciling (`services/pxe.go:176`); if it is
  the last evidence missing, the deployment goes on waiting until some request looks at it. `docs/integration-notes.md:70`
  names that event as one the workflow waits for.
- `CandidateRefused`: the bundle of a run proposes evidence for every server on its checklist, which has the servers the run
  named and all that have a result in it (`handlers/lab_validation.go:578`, `1841-1854`); a strict run without `server_ids`
  checks every server with an access row. The handler refuses evidence that refers to a run which does not name the
  server (`:1011`, `:1087`). `docs/api.md:143` says the drafts are generated by the same proof rules. A machine
  that boots again after the run has drafts refused as well: the draft has the newer boot, the run must be later.

`EvidenceSettles` has two exceptions that are behaviour of the code too, and excused, not caught: an SSH check that fails
overwrites the successful one (`services/ssh_executor.go:99`), and an attempt can be `Overtaken`. There a goroutine that
outlived a cancel and a retry opens a newer workflow run which never gets tasks; who reconciles before it is closed
takes it for the one at work and returns (`services/workflow.go:80`). Without that exception TLC finds the evidence
overlooked.

## Proofs

Every theorem is for arbitrary values of the constants, under the named assumptions of the modules, which TLC evaluates
in the runs. They give the constants their types (positive numbers, null values outside the sets) and little else:

- `PhysicalAssumption` has `Runs \intersect Deployments = {}`: instants are named by one or the other.
- `LimiterAssumption` and `ScriptAssumption` make `Logins` and `Targets` finite, as the goroutines of a process and the
  rows of a table are; a bound that counts them needs it.

What a theorem assumes beyond them stands in its statement, and is needed: a patch of a server row can free a deploying
server (`Edits = {}` excludes edits); a crash loses the goroutine that owed the release, and after it rows read
`running` that nobody runs (`~MayCrash`); of two blocks that share a 16-bit number one can be taken for the other
(`Blocks < 65535`: the proofs say nothing of a file of more blocks than there are numbers, wherever it begins).

### Deployments

| Theorem | States | Assumes further |
|---|---|---|
| `TypeOKAlways`, `PhysicalTypeOK` | `Spec => []TypeOK` | |
| `OneActive` | `Spec => []AtMostOneActive` | |
| `PendingForgottenOnlyByCrash` | `Spec => []ForgottenOnlyByCrash` | |
| `PendingOnItsWay` | `Serving => ... OnItsWay(d)` for every pending `d`, always | no crash |
| `ActiveHolds`, `PhysicalActiveHolds` | `Spec => []ActiveHoldsServer` | `Edits = {}` |
| `LeaseImplemented`, `PhysicalLeaseImplemented` | `Spec => ImplementsLease` | `Edits = {}`, no crash |
| `DeployingHeld` | `Spec => []DeployingIsHeld` | `Edits = {}`, no crash |
| `WithinConcurrency` | `Spec => []RunningWithinConcurrency` | no crash |
| `SuccessEvidenced` | `Spec => []SuccessHasEvidence` | |
| `RunningSettleable` | `Spec => []RunningCanSettle` | no crash |

`DeploymentWorkflow`:

- `TypeInv` adds to `TypeOK` that a goroutine in use has a deployment, a deployment row that exists has a server, a
  request in use names what it works on, and a goroutine still in its loop has steps left. Without them the values
  written to the rows have no type.
- `LeaseInv` is the heart: `AtMostOneActive` and `ActiveHoldsServer` are not inductive, since a goroutine or cancel
  that is about to write the server could give it away. `Exclusive` says that whoever still owes a release shares its
  server with no active deployment and no other debtor; `HeldIsDeploying` that the server of each reads `deploying`.
  Together they make the check `status deployable` of a creation or retry fail while anybody owes a release; this is
  the only reason the unguarded writes of the server are harmless.
- For `LeaseImplemented` each action maps to a step of `ServerLease` or a stutter: creation and `RetryCommit` to
  `Queue`, `MarkRunning` to `Start`, the guarded outcomes and the cancel to `Settle`, the last write of a goroutine or
  request to `Release`.
- `SlotInv` bounds the running deployments by mapping each to a goroutine that works on it and holds a slot; several
  goroutines may work on one deployment, two deployments never share one.
- `ClaimInv` says, of a pending deployment that start-up has dealt with, that a goroutine is on its way to it or a
  finished goroutine has left its workflow run open, and that no request runs before start-up is over.
- `LivingInv`, for a process that never dies, says that a goroutine which returned has closed its workflow run,
  so only a crash leaves one open.

`PhysicalDeployment`, where the release is owed by calls of `ReconcileDeployment` instead of goroutines:

- `TypeInv` ties the calls to the rows as well: the workflow row a call is about to close is of the deployment it will
  settle, `started_at` names a goroutine of that deployment that has got past `MarkRunning`, and a workflow row is open
  before it has tasks.
- `EvidenceInv`: a call past its look at the evidence keeps the right to settle, because boots, accesses and the instants
  of checks are never taken back, a deployment keeps its server, and a goroutine's instant is later than its
  deployment's (`InstantsImply`).
- `SettleInv`: a running deployment has its own attempt's row open, or a call about to settle it. It rests on
  `ReadWorkflow` taking the newest running row and refusing one without tasks; `CloseWorkflow` can therefore only
  close the row of the attempt or one that lost the race for it.
- `LeaseInv` is that of the other workflow with calls for goroutines. A call settles its deployment and owes the release
  in one guarded write, so at most one of the overlapping calls does.

### Lab validation and boot

| Theorem | States | Inductive because |
|---|---|---|
| `LabTypesHold` | `LabSpec => []LabTypeOK` | |
| `ReadyIsRecent` | `LabSpec => []ReadyMeansRecent` | `RowsBacked`, `Explained`: a physical boot event is no later than the last boot recorded, an `ok` row no later than its last answer, and between the start of a run and the end of a check that succeeded the machine answered |
| `StrictOkProven` | `LabSpec => []StrictOkIsProven` | `NobodyForgotten`: from the SSH stage on every requested server is still to do or has a result; `OkMeansAll`: with a result that failed or was skipped a run does not end ok; `Vouched`: a target that succeeded is backed by full evidence of another run, which had finished and can change no more |
| `DownloadsExact` | `TftpSpec => []DeliveredExact`, `Blocks < 65535` | `PacketsSent`: every data packet ever sent is a block, up to its position, of the version its socket opened; `Kept`: the client's blocks are those of the socket it has locked on to, in order |
| `TransfersDelivered` | `TftpSpec => []FinishedSessionDelivered`, `Blocks < 65535` | `AcksSent`: every acknowledgement in the network goes to the locked socket and is of a block the client has kept, of the options, or of the one block too many |
| `HandedTokensWork` | `BootSpec => []HandedTokenWorks` | `Works`: what was handed out is in its row still, has expired or was `raced`; `Found`: a goroutine that goes to rotate a token saw it expired, or the row is raced |
| `OneTokenRow` | `BootSpec => []SingleTokenRow` | `OneTokenEach`: a deployment has a token from the transaction that makes it, so `InsertToken` only adds rows of no deployment |
| `MachinesFoundOnce` | `BootSpec => []DiscoveredOnce` | the unique index on the MAC; what a goroutine has found is compared with the rows again at its insertion |
| `BootTypesHold`, `TftpTypesHold`, `NetworkBootTypesHold` | the types of each service, and `MCSpec => []NetworkBootTypeOK` of both (the TFTP part with `Blocks < 65535`) | `Stored`, `SessionsAgree` |

`NumbersDiffer` is the lemma behind the TFTP theorems: within `First .. Last` block numbers modulo 65536 are distinct, also
across the wrap.

### Operations and administration

| Theorem | States | Inductive because |
|---|---|---|
| `OutcomeExplained` | `ScriptSpec => []JobOutcomeExplained` | `BatchesTold`: before each batch, every execution of the batches done has an outcome that its row tells or a lost write excuses, and the goroutine knows whether one of them failed; `ListRead`: it has all the executions, or the query that lists them failed |
| `TranscriptKept` | `TermSpec => []EntriesKept` | `CopiesHold`: the copy a call will write back holds every entry that was not written while the copy was out |
| `SessionsStayClosed` | `TermSpec => ClosedStaysClosed` | the same invariant, which gives the rows their type; each action keeps or sets `closed` |
| `AlertsNotDoubled` | `AlertSpec => []OneOpenAlert` | `NoneFound`: who found no open alert still has none before him, or the pair of server and rule is marked |
| `AdminStays` | `UserSpec => []AdminRemains` | `DemotionBacked`: whoever is about to demote an administrator still has another to count on, as any demotion that could take that one away marks the behaviour as crossed |
| `FailuresStayBounded` | `LimiterSpec => []FailuresBounded` | `Split`: the failures fall into those counted now and those of the count before, of `Limit - 1` and the logins under way at most, which began a window earlier; `Counting`: once blocked, a key gains no more than the logins whose passwords are being compared, and the block outlasts the window of its count |
| `ReferencesStay`, `RestoredReferencesStay` | `[]ReferencesResolve` of `InventorySpec` and `BackupSpec` | `DeletionsClear`: who is about to delete a row still finds no deployment referring to it, but those made since |
| `QuotasHold`, `RestoredQuotasHold` | `[]QuotaBounded` of `InventorySpec` and `BackupSpec` | `Backed`: a request about to write for a tenant nobody has changed since it looked still has room; `Owned`: servers belong to tenants that are there |
| `BackupsUsable` | `BackupSpec => []BackupUsable` | `ExportInv`: the tables read so far are still equal to the live ones, which were valid when the export began |
| `IdsStayFresh` | `BackupSpec => []FreshIds` | `Below`: rows, and the rows requests are about to write, are below the id sequences; after a restore unless a request was still to write (`late`) |
| `OperationsTypesHold` | `MCSpec => []OperationsTypeOK` | the invariants above, and bounds: a collection job stores one sample, a login adds one failure, a job has a row per server |

These invariants hold the excuses of the properties to account: each excuse is a set (`crossed`, `contended`, `doubled`,
`severed`, `overrun`, `raced`, `lost`) that only the overlap or failure it names can add to.

### What proving changed in the models

- `PassOver` of `LabValidation` let a run skip a server whose BMC it was checking. TLC did not mind, but
  `ProbesOwned` is false then: `runLabBMCChecks` looks at the endpoint before the check and waits for its end. The
  guard now says so.
- `AckArrives` counts from the position of its session instead of taking a block number apart, and `RecvData` is split into
  `Refuse` and `Take`; the behaviours are the same.

### Model-checked only

Liveness (`DeploymentSettles`, `ServerReleased`, `EvidenceSettles`, `SettledServerReleased`, `SessionEnds`,
`ScriptJobEnds`), since fairness and `ENABLED` are beyond the prover; and the five claims that fail, of which TLC shows a
counterexample. Everything else the runs check is a theorem.

## Plan

1. Done: the deployment core; access checks and lab validation; TFTP and network boot; the operations services, the
   inventory, quotas and backup; a theorem for every safety invariant of the passing runs, and both implementations
   of `ServerLease`.
2. Next, proofs: what the models say beyond the runs. `AtMostOneActive` of `PhysicalDeployment` with edits; which rows a
   step may never change (a finished validation run, a settled deployment without a retry); `ServerLease` on its own:
   a released server has no active deployment.
3. Left to model, if it pays: BMC power control as part of an install, CIDR overlap of networks, restores of
   users with the recovery administrator.

Runs are kept few: one per component or group of components that share no state, and one per claim that fails.

## Not modelled

Rendering of scripts and templates, packet formats and the arithmetic of leases, image uploads and checksums, the BMC and SSH
protocols, BMC power control, CRUD of single rows (networks, templates, credentials), audit and history rows,
configuration, readiness probes, the web frontend and the tools: input, output or validation without state
that concurrent steps share. `PROJECT.json` gives the reason for each component.
