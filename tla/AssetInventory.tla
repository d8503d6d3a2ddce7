---------------------------- MODULE AssetInventory ----------------------------
(***************************************************************************)
(* Servers, their tenants and quotas, images, and the deployments that     *)
(* refer to them.  Every handler checks what it needs, then writes, in     *)
(* statements of its own.  Deployments stand for all the records that keep *)
(* a server from being deleted; results of lab validation runs refer to a  *)
(* server too and do not keep it.                                          *)
(***************************************************************************)
EXTENDS Integers, Sequences, FiniteSets

CONSTANTS
  Tenants,         \* tenant_id of the tenants an operator may create
  Limits,          \* quotas he may give them, NoLimit being none
  Workers,         \* goroutines of the HTTP server
  MaxServers,      \* bound on servers
  MaxImages,       \* bound on images
  MaxDeployments,  \* bound on deployments
  MaxOps           \* bound on requests

NoLimit == -1

ASSUME InventoryAssumption ==
  /\ Limits \subseteq Nat \union {NoLimit} /\ "none" \notin Tenants
  /\ {MaxServers, MaxImages, MaxDeployments, MaxOps} \subseteq Nat

VARIABLES
  tenants,         \* tenants rows, by tenant_id
  servers,         \* servers rows, by id; a deleted one stays, not live
  images,          \* images rows, by id, the same way
  deployments,     \* deployments rows, by id
  probed,          \* servers a lab validation result refers to
  next,            \* the id sequences
  worker,          \* the request each goroutine handles
  ops,             \* requests so far
  severed,         \* deployments made while their server or image was being deleted
  overrun          \* tenants two requests changed at once

tables == <<tenants, servers, images, deployments, probed>>
inventoryVars == <<tables, next, worker, ops, severed, overrun>>

Idle == [pc |-> "idle", server |-> 0, image |-> 0, tenant |-> "none", number |-> 0, row |-> <<>>]
LiveServers == {s \in DOMAIN servers : servers[s].live}
LiveImages == {i \in DOMAIN images : images[i]}
Busy(h) == {g \in Workers \ {h} : worker[g].pc # "idle"}

InventoryInit ==
  /\ tenants = [t \in {} |-> <<>>] /\ servers = [s \in {} |-> <<>>] /\ images = [i \in {} |-> TRUE]
  /\ deployments = [d \in {} |-> <<>>] /\ probed = {}
  /\ next = [servers |-> 1, images |-> 1, deployments |-> 1]
  /\ worker = [h \in Workers |-> Idle] /\ ops = 0 /\ severed = {} /\ overrun = {}

(* countTenantServers, with one server left out or none. *)
Used(t, except) == Cardinality({s \in LiveServers \ except : servers[s].tenant = t})

ActiveTenant(t) == t # "none" => t \in DOMAIN tenants /\ tenants[t].status = "active"

X_Admits(t, n, except) ==
  /\ ActiveTenant(t)
  /\ t # "none" => tenants[t].limit = NoLimit \/ Used(t, except) <= tenants[t].limit

(* enforceTenantServerQuota: room for the n-th server added by a request. *)
Admits(t, n, except) ==
  /\ ActiveTenant(t)
  /\ t # "none" => tenants[t].limit = NoLimit \/ Used(t, except) + n <= tenants[t].limit

(* A request passed its checks and is about to write. *)
Begin(h, request) ==
  /\ worker[h].pc = "idle" /\ ops < MaxOps
  /\ ops' = ops + 1 /\ worker' = [worker EXCEPT ![h] = request]
  /\ UNCHANGED <<tables, next, severed, overrun>>

Done(h) == worker' = [worker EXCEPT ![h] = Idle]

(* Tenants of ts that another request has checked and will write for. *)
Overrun(h, ts) ==
  overrun' = overrun \union {t \in ts \ {"none"} : \E g \in Busy(h) :
                                  worker[g].pc \in {"create", "update", "tenant"} /\ worker[g].tenant = t}

(* POST /tenants, one statement. *)
CreateTenant(t, limit) ==
  /\ t \notin DOMAIN tenants
  /\ tenants' = [u \in DOMAIN tenants \union {t} |->
                   IF u = t THEN [status |-> "active", limit |-> limit] ELSE tenants[u]]
  /\ UNCHANGED <<servers, images, deployments, probed, next, worker, ops, severed, overrun>>

(* PATCH /tenants/{id}: a quota may not be below what is in use. *)
CheckTenant(h, t, status, limit) ==
  /\ limit = NoLimit \/ Used(t, {}) <= limit
  /\ Begin(h, [Idle EXCEPT !.pc = "tenant", !.tenant = t, !.row = [status |-> status, limit |-> limit]])

SaveTenant(h) ==
  /\ worker[h].pc = "tenant"
  /\ tenants' = [t \in DOMAIN tenants \union {worker[h].tenant} |->
                   IF t = worker[h].tenant THEN worker[h].row ELSE tenants[t]]
  /\ Overrun(h, {worker[h].tenant})
  /\ Done(h) /\ UNCHANGED <<servers, images, deployments, probed, next, ops, severed>>

(* POST /servers, and an import, whose transaction adds its rows at once. *)
CheckCreate(h, t, n) ==
  /\ Admits(t, n, {})
  /\ Begin(h, [Idle EXCEPT !.pc = "create", !.tenant = t, !.number = n])

InsertServers(h) ==
  LET new == next.servers..(next.servers + worker[h].number - 1) IN
  /\ worker[h].pc = "create"
  /\ IF new \subseteq (1..MaxServers) \ DOMAIN servers
     THEN /\ servers' = [s \in DOMAIN servers \union new |->
                           IF s \in new THEN [tenant |-> worker[h].tenant, live |-> TRUE] ELSE servers[s]]
          /\ next' = [next EXCEPT !.servers = @ + worker[h].number]
          /\ Overrun(h, {worker[h].tenant})
     ELSE UNCHANGED <<servers, next, overrun>>  \* an id in use: the insert fails
  /\ Done(h) /\ UNCHANGED <<tenants, images, deployments, probed, ops, severed>>

(* PATCH /servers/{id}: the quota is looked at only when the tenant changes. *)
CheckUpdate(h, s, t) ==
  /\ s \in LiveServers /\ ActiveTenant(t)
  /\ t = servers[s].tenant \/ Admits(t, 1, {s})
  /\ Begin(h, [Idle EXCEPT !.pc = "update", !.server = s, !.tenant = t])

(* Save writes the whole row, and inserts it again if it is gone. *)
SaveServer(h) ==
  LET s == worker[h].server IN
  /\ worker[h].pc = "update"
  /\ servers' = [r \in DOMAIN servers \union {s} |->
                   IF r = s THEN [tenant |-> worker[h].tenant, live |-> TRUE] ELSE servers[r]]
  /\ Overrun(h, {worker[h].tenant} \union {servers[r].tenant : r \in {s} \intersect DOMAIN servers})
  /\ Done(h) /\ UNCHANGED <<tenants, images, deployments, probed, next, ops, severed>>

X_Blockers(s) == {}

(* The records that keep a server. *)
Blockers(s) == {d \in DOMAIN deployments : deployments[d].server = s}

CheckDelete(h, s) ==
  /\ s \in LiveServers /\ Blockers(s) = {}
  /\ Begin(h, [Idle EXCEPT !.pc = "delete", !.server = s])

DeleteServer(h) ==
  LET s == worker[h].server IN
  /\ worker[h].pc = "delete"
  /\ servers' = [r \in DOMAIN servers |-> IF r = s THEN [servers[r] EXCEPT !.live = FALSE] ELSE servers[r]]
  /\ Overrun(h, {servers[r].tenant : r \in {s} \intersect DOMAIN servers})
  /\ Done(h) /\ UNCHANGED <<tenants, images, deployments, probed, next, ops, severed>>

(* POST /images or an upload, one statement. *)
CreateImage ==
  /\ next.images <= MaxImages /\ next.images \notin DOMAIN images
  /\ images' = [i \in DOMAIN images \union {next.images} |-> IF i = next.images THEN TRUE ELSE images[i]]
  /\ next' = [next EXCEPT !.images = @ + 1]
  /\ UNCHANGED <<tenants, servers, deployments, probed, worker, ops, severed, overrun>>

(* PATCH /images/{id} reads the row and saves it whole. *)
ReadImage(h, i) == i \in LiveImages /\ Begin(h, [Idle EXCEPT !.pc = "image", !.image = i])

SaveImage(h) ==
  /\ worker[h].pc = "image"
  /\ images' = [i \in DOMAIN images \union {worker[h].image} |-> i = worker[h].image \/ images[i]]
  /\ Done(h) /\ UNCHANGED <<tenants, servers, deployments, probed, next, ops, severed, overrun>>

CheckDeleteImage(h, i) ==
  /\ i \in LiveImages /\ \A d \in DOMAIN deployments : deployments[d].image # i
  /\ Begin(h, [Idle EXCEPT !.pc = "unimage", !.image = i])

DeleteImage(h) ==
  /\ worker[h].pc = "unimage"
  /\ images' = [i \in DOMAIN images |-> i # worker[h].image /\ images[i]]
  /\ Done(h) /\ UNCHANGED <<tenants, servers, deployments, probed, next, ops, severed, overrun>>

(* POST /deployments: the preflight looks at the server and the image. *)
Preflight(h, s, i) ==
  /\ s \in LiveServers /\ i \in LiveImages
  /\ Begin(h, [Idle EXCEPT !.pc = "deploy", !.server = s, !.image = i])

(* createDeploymentInTx locks and reads the server again, not the image. *)
InsertDeployment(h) ==
  LET s == worker[h].server
      i == worker[h].image
      d == next.deployments IN
  /\ worker[h].pc = "deploy"
  /\ IF s \in LiveServers /\ d \in (1..MaxDeployments) \ DOMAIN deployments
     THEN /\ deployments' = [e \in DOMAIN deployments \union {d} |->
                               IF e = d THEN [server |-> s, image |-> i] ELSE deployments[e]]
          /\ next' = [next EXCEPT !.deployments = @ + 1]
          /\ severed' = IF \/ i \notin LiveImages
                           \/ \E g \in Busy(h) : \/ worker[g].pc = "delete" /\ worker[g].server = s
                                                 \/ worker[g].pc = "unimage" /\ worker[g].image = i
                        THEN severed \union {d} ELSE severed
     ELSE UNCHANGED <<deployments, next, severed>>
  /\ Done(h) /\ UNCHANGED <<tenants, servers, images, probed, ops, overrun>>

(* A lab validation run stores a result for the server. *)
StoreLabResult(s) ==
  /\ s \in LiveServers /\ s \notin probed
  /\ probed' = probed \union {s}
  /\ UNCHANGED <<tenants, servers, images, deployments, next, worker, ops, severed, overrun>>

Checks(h) ==
  \/ \E t \in DOMAIN tenants, status \in {"active", "disabled"}, limit \in Limits : CheckTenant(h, t, status, limit)
  \/ \E t \in DOMAIN tenants \union {"none"} :
       (\E n \in 1..2 : CheckCreate(h, t, n)) \/ (\E s \in DOMAIN servers : CheckUpdate(h, s, t))
  \/ \E s \in DOMAIN servers : CheckDelete(h, s) \/ \E i \in DOMAIN images : Preflight(h, s, i)
  \/ \E i \in DOMAIN images : ReadImage(h, i) \/ CheckDeleteImage(h, i)

Writes(h) ==
  \/ SaveTenant(h) \/ InsertServers(h) \/ SaveServer(h) \/ DeleteServer(h)
  \/ SaveImage(h) \/ DeleteImage(h) \/ InsertDeployment(h)

InventoryNext ==
  \/ \E t \in Tenants, limit \in Limits : CreateTenant(t, limit)
  \/ \E h \in Workers : Checks(h) \/ Writes(h)
  \/ CreateImage
  \/ \E s \in DOMAIN servers : StoreLabResult(s)

InventorySpec == InventoryInit /\ [][InventoryNext]_inventoryVars

InventoryTypeOK ==
  /\ \A t \in DOMAIN tenants : tenants[t].status \in {"active", "disabled"} /\ tenants[t].limit \in Limits
  /\ DOMAIN servers \subseteq 1..MaxServers /\ DOMAIN images \subseteq 1..MaxImages
  /\ DOMAIN deployments \subseteq 1..MaxDeployments /\ probed \subseteq DOMAIN servers
  /\ \A s \in DOMAIN servers : servers[s].tenant \in Tenants \union {"none"} /\ servers[s].live \in BOOLEAN
  /\ \A h \in Workers : worker[h].tenant \in Tenants \union {"none"}
  /\ severed \subseteq 1..MaxDeployments /\ overrun \subseteq Tenants /\ ops \in 0..MaxOps

(* The server and the image of a deployment stay there, whatever is       *)
(* deleted, unless the deployment was made between the check and the      *)
(* write of a deletion (serverDeletionBlockers, deleteImage,              *)
(* createDeploymentInTx).                                                 *)
ReferencesResolve ==
  \A d \in DOMAIN deployments \ severed : deployments[d].server \in LiveServers /\ deployments[d].image \in LiveImages

(* A tenant never holds more servers than its quota, by creation, import, *)
(* a move or a lower quota, unless two requests about it overlapped       *)
(* (enforceTenantServerQuota, validateTenantQuotaAllowsCurrentUsage).     *)
QuotaBounded ==
  \A t \in DOMAIN tenants : tenants[t].limit = NoLimit \/ Used(t, {}) <= tenants[t].limit \/ t \in overrun
===============================================================================
