----------------------------- MODULE NetworkBoot -----------------------------
(***************************************************************************)
(* Network boot: the DHCP listener, the iPXE script and the metadata a     *)
(* machine fetches with the token of its script.  A machine that boots     *)
(* leaves a request with the DHCP listener and another with the HTTP       *)
(* server, each of which looks for the server of its MAC, the active       *)
(* deployment and its token in separate steps, beside operators who        *)
(* create, settle and retry deployments.                                   *)
(***************************************************************************)
EXTENDS Integers, Sequences, FiniteSets

CONSTANTS
  Macs,
  Handlers,     \* goroutines: bound on requests handled at once
  Modes,        \* boot service modes the process may be started with
  TokenLife,    \* 24 hours
  MaxTime,      \* bound on the clock
  MaxRequests,  \* bound on the requests of machines, probes and installers
  MaxDeps       \* bound on deployments

ASSUME BootBoundsAssumption ==
  /\ {MaxTime, MaxRequests, MaxDeps} \subseteq Nat /\ TokenLife \in Nat \ {0}
  /\ Modes \subseteq {"builtin", "proxy", "external"}

VARIABLES
  clock,
  mode,        \* BOOT_SERVICE_MODE
  network,     \* whether a deployment network with the machines' addresses is enabled
  servers,     \* servers rows, by id
  deps,        \* deployments rows, by id
  tokens,      \* metadata_tokens rows, by id
  issued,      \* random token values drawn so far
  bootEvents,  \* boot_events rows
  accesses,    \* log rows of metadata accesses
  handler,     \* requests being handled
  handed,      \* tokens given out in scripts and userdata
  raced,       \* token rows rotated by two overlapping requests
  hits         \* requests so far

rows == <<servers, deps, tokens, issued>>
marks == <<bootEvents, accesses, handed, raced>>
world == <<clock, mode, network, hits>>
bootVars == <<rows, marks, world, handler>>

Wants == {"event", "script", "userdata", "field", "redeem"}
Scripted == {"event", "script"}
BootSources == {"pxe_dhcp", "http_ipxe", "api_event"}
Idle == [pc |-> "idle", mac |-> "none", source |-> "none", wants |-> "none", server |-> 0, dep |-> 0,
         row |-> 0, value |-> 0, expires |-> 0]
Least(ids) == CHOOSE i \in ids : \A j \in ids : i <= j

ServersOf(mac) == {i \in DOMAIN servers : servers[i].mac = mac}
(* At most one deployment of a server is active; 0 is none. *)
ActiveOf(s) == {d \in DOMAIN deps : deps[d].server = s /\ deps[d].active}
LatestActive(s) == IF ActiveOf(s) = {} THEN 0 ELSE Least(ActiveOf(s))
RowsOf(s, d) == {i \in DOMAIN tokens : tokens[i].server = s /\ tokens[i].dep = d}

BootInit ==
  /\ clock = 0 /\ mode \in Modes /\ network \in BOOLEAN
  /\ servers = <<>> /\ deps = <<>> /\ tokens = <<>> /\ issued = 0
  /\ bootEvents = {} /\ accesses = {} /\ handed = {} /\ raced = {}
  /\ handler = [k \in Handlers |-> Idle] /\ hits = 0

-----------------------------------------------------------------------------
(* A request arrives and finds a goroutine; nothing is kept of it between requests. *)
Arrive(k, request) ==
  /\ handler[k].pc = "idle" /\ hits < MaxRequests
  /\ hits' = hits + 1
  /\ handler' = [handler EXCEPT ![k] = request]
Request(mac, wants, source) ==
  [Idle EXCEPT !.pc = "find", !.mac = mac, !.wants = wants, !.source = source]

(* handleDHCPPacket: in proxy mode only PXE and iPXE clients are answered; the probe *)
(* of the platform itself is answered and leaves no trace; every other client has a  *)
(* boot event recorded after it was answered.  In builtin mode an installed system   *)
(* that asks for its lease is one of them.                                           *)
Recorded(class) == class = "netboot" \/ (mode = "builtin" /\ class = "os")

HandleDHCPPacket(k, m, class) ==
  /\ mode # "external" /\ Recorded(class)
  /\ Arrive(k, Request(m, "event", "pxe_dhcp"))
  /\ UNCHANGED <<rows, marks, clock, mode, network>>

(* renderIPXE answers every client, for the MAC it asks with; the source of the      *)
(* event tells clients inside an enabled deployment network from others and from the *)
(* probe of the platform itself.                                                     *)
ScriptSources == {"api_event"} \union IF network THEN {"http_ipxe"} ELSE {}

RenderIPXE(k, m) ==
  /\ \E source \in ScriptSources : Arrive(k, Request(m, "script", source))
  /\ UNCHANGED <<rows, marks, clock, mode, network>>

(* recordBootEvent answers with the event; the script rendered for it is dropped. *)
RecordBootEvent(k, m) ==
  /\ Arrive(k, Request(m, "event", "api_event"))
  /\ UNCHANGED <<rows, marks, clock, mode, network>>

(* Metadata asked for by server, MAC or address, or by deployment id, whatever the   *)
(* status of that deployment.  Access can be limited to enabled deployment networks: *)
(* a refused request leaves a warning.                                               *)
MetadataOfServer(k, m, wants) ==
  /\ network /\ wants \in {"userdata", "field"} /\ ServersOf(m) # {}
  /\ Arrive(k, Request(m, wants, "none"))
  /\ UNCHANGED <<rows, marks, clock, mode, network>>

MetadataByDeployment(k, d, wants) ==
  /\ network /\ wants \in {"userdata", "field"}
  /\ Arrive(k, [Idle EXCEPT !.pc = IF wants = "userdata" THEN "token" ELSE "answer", !.wants = wants,
                            !.server = deps[d].server, !.dep = d])
  /\ UNCHANGED <<rows, marks, clock, mode, network>>

(* metadataFromToken: an unknown token is answered 404, an expired one 401; else the *)
(* row says whose metadata it is.                                                    *)
MetadataByToken(k, t) ==
  /\ network
  /\ \E i \in DOMAIN tokens :
       /\ tokens[i].value = t.value /\ clock <= tokens[i].expires
       /\ Arrive(k, [Idle EXCEPT !.pc = "answer", !.wants = "redeem", !.row = i,
                                 !.server = tokens[i].server, !.dep = tokens[i].dep])
  /\ UNCHANGED <<rows, marks, clock, mode, network>>

-----------------------------------------------------------------------------
Goto(k, pc) == handler' = [handler EXCEPT ![k].pc = pc]

(* RenderIPXEScript looks for the server of the MAC. *)
FindServer(k) ==
  LET r == handler[k] IN
  /\ r.pc = "find"
  /\ handler' = [handler EXCEPT ![k] =
       IF ServersOf(r.mac) # {} THEN [@ EXCEPT !.pc = "deployment", !.server = Least(ServersOf(r.mac))]
       ELSE [@ EXCEPT !.pc = "create"]]
  /\ UNCHANGED <<rows, marks, world>>

(* createDiscoveredServer, FirstOrCreate in a transaction: a server found meanwhile   *)
(* is treated as discovered just now, and its history gets the entry unless it has   *)
(* one; otherwise it is inserted.                                                    *)
FindOrCreate(k) ==
  LET r == handler[k] found == ServersOf(r.mac) IN
  /\ r.pc = "create"
  /\ IF found = {} THEN Goto(k, "insert") /\ UNCHANGED servers
     ELSE /\ handler' = [handler EXCEPT ![k].pc = "record", ![k].server = Least(found)]
          /\ servers' = [servers EXCEPT ![Least(found)].discovered = 1]
  /\ UNCHANGED <<deps, tokens, issued, marks, world>>

(* The unique index on the MAC refuses a second row: the request fails. *)
X_InsertDiscovered(k) ==
  LET r == handler[k] IN
  /\ r.pc = "insert"
  /\ servers' = Append(servers, [mac |-> r.mac, discovered |-> 1])
  /\ handler' = [handler EXCEPT ![k].pc = "record", ![k].server = Len(servers')]
  /\ UNCHANGED <<deps, tokens, issued, marks, world>>

InsertDiscovered(k) ==
  LET r == handler[k] IN
  /\ r.pc = "insert"
  /\ IF ServersOf(r.mac) # {} THEN handler' = [handler EXCEPT ![k] = Idle] /\ UNCHANGED servers
     ELSE /\ servers' = Append(servers, [mac |-> r.mac, discovered |-> 1])
          /\ handler' = [handler EXCEPT ![k].pc = "record", ![k].server = Len(servers')]
  /\ UNCHANGED <<deps, tokens, issued, marks, world>>

(* The latest active deployment; a machine without one is given the idle script, and  *)
(* userdata without a deployment have a token of the server.                         *)
FindDeployment(k) ==
  LET r == handler[k] d == LatestActive(r.server) IN
  /\ r.pc = "deployment"
  /\ handler' = [handler EXCEPT ![k].dep = d,
                   ![k].pc = IF r.wants = "field" THEN "answer"
                             ELSE IF r.wants \in Scripted /\ d = 0 THEN "record" ELSE "token"]
  /\ UNCHANGED <<rows, marks, world>>

(* EnsureMetadataToken reads the first token of the server and deployment: a valid    *)
(* one is used again, an expired one rotated in place, a missing one inserted, and    *)
(* neither write looks again at what was read.                                        *)
X_Valid(row) == FALSE

Valid(row) == clock < row.expires

Fresh(s, d) == [value |-> issued + 1, server |-> s, dep |-> d, expires |-> clock + TokenLife, used |-> FALSE]
After(r) == IF r.wants \in Scripted THEN "record" ELSE "answer"
Holding(r, i, row) ==
  [r EXCEPT !.pc = After(r), !.row = i, !.value = row.value, !.expires = row.expires]

ReadToken(k) ==
  LET r == handler[k] found == RowsOf(r.server, r.dep) IN
  /\ r.pc = "token"
  /\ handler' = [handler EXCEPT ![k] =
       IF found = {} THEN [@ EXCEPT !.pc = "new"]
       ELSE IF Valid(tokens[Least(found)]) THEN Holding(@, Least(found), tokens[Least(found)])
       ELSE [@ EXCEPT !.pc = "rotate", !.row = Least(found)]]
  /\ UNCHANGED <<rows, marks, world>>

InsertToken(k) ==
  LET r == handler[k] row == Fresh(r.server, r.dep) IN
  /\ r.pc = "new"
  /\ tokens' = Append(tokens, row) /\ issued' = issued + 1
  /\ handler' = [handler EXCEPT ![k] = Holding(@, Len(tokens'), row)]
  /\ UNCHANGED <<servers, deps, marks, world>>

Rotating(i) == {k \in Handlers : handler[k].pc = "rotate" /\ handler[k].row = i}

RotateToken(k) ==
  LET r == handler[k] row == Fresh(r.server, r.dep) IN
  /\ r.pc = "rotate"
  /\ tokens' = [tokens EXCEPT ![r.row] = row] /\ issued' = issued + 1
  /\ raced' = IF Rotating(r.row) = {k} THEN raced ELSE raced \union {r.row}
  /\ handler' = [handler EXCEPT ![k] = Holding(@, r.row, row)]
  /\ UNCHANGED <<servers, deps, bootEvents, accesses, handed, world>>

Hand(r) == handed' = handed \union {[value |-> r.value, server |-> r.server, dep |-> r.dep,
                                     row |-> r.row, expires |-> r.expires]}

(* The event is stored, the script answered, and the deployment reconciled, except     *)
(* after a DHCP request.                                                             *)
RecordEvent(k) ==
  LET r == handler[k] IN
  /\ r.pc = "record"
  /\ bootEvents' = bootEvents \union {[mac |-> r.mac, source |-> r.source, server |-> r.server, dep |-> r.dep]}
  /\ IF r.wants = "script" /\ r.dep # 0 THEN Hand(r) ELSE UNCHANGED handed
  /\ handler' = [handler EXCEPT ![k] = Idle]
  /\ UNCHANGED <<rows, accesses, raced, world>>

(* Metadata are answered: the token is marked as used by its id, whatever its value   *)
(* is by then, and the access is logged.                                              *)
Answer(k) ==
  LET r == handler[k] IN
  /\ r.pc = "answer"
  /\ tokens' = IF r.row = 0 THEN tokens ELSE [tokens EXCEPT ![r.row].used = TRUE]
  /\ accesses' = accesses \union {[server |-> r.server, dep |-> r.dep]}
  /\ IF r.wants = "userdata" THEN Hand(r) ELSE UNCHANGED handed
  /\ handler' = [handler EXCEPT ![k] = Idle]
  /\ UNCHANGED <<servers, deps, issued, bootEvents, raced, world>>

-----------------------------------------------------------------------------
(* An operator enters a machine; the unique index refuses a MAC that has a row. *)
CreateServer(m) ==
  /\ ServersOf(m) = {}
  /\ servers' = Append(servers, [mac |-> m, discovered |-> 0])
  /\ UNCHANGED <<deps, tokens, issued, marks, world, handler>>

(* createDeploymentInTx makes the token with the deployment, in one transaction. *)
X_CreateDeployment(s) ==
  /\ ActiveOf(s) = {} /\ Len(deps) < MaxDeps
  /\ deps' = Append(deps, [server |-> s, active |-> TRUE])
  /\ UNCHANGED <<servers, tokens, issued, marks, world, handler>>

CreateDeployment(s) ==
  /\ ActiveOf(s) = {} /\ Len(deps) < MaxDeps
  /\ deps' = Append(deps, [server |-> s, active |-> TRUE])
  /\ tokens' = Append(tokens, Fresh(s, Len(deps'))) /\ issued' = issued + 1
  /\ UNCHANGED <<servers, marks, world, handler>>

(* A deployment succeeds, fails or is cancelled; its token stays. *)
Settle(d) ==
  /\ deps[d].active
  /\ deps' = [deps EXCEPT ![d].active = FALSE]
  /\ UNCHANGED <<servers, tokens, issued, marks, world, handler>>

(* retryDeployment ensures the token inside its transaction. *)
RetryDeployment(d) ==
  LET s == deps[d].server i == Least(RowsOf(s, d)) IN
  /\ ~deps[d].active /\ ActiveOf(s) = {} /\ RowsOf(s, d) # {}
  /\ deps' = [deps EXCEPT ![d].active = TRUE]
  /\ IF Valid(tokens[i]) THEN UNCHANGED <<tokens, issued, raced>>
     ELSE /\ tokens' = [tokens EXCEPT ![i] = Fresh(s, d)] /\ issued' = issued + 1
          /\ raced' = IF Rotating(i) = {} THEN raced ELSE raced \union {i}
  /\ UNCHANGED <<servers, bootEvents, accesses, handed, world, handler>>

(* Operators enable and disable deployment networks. *)
SetNetwork ==
  /\ network' = ~network
  /\ UNCHANGED <<rows, marks, clock, mode, hits, handler>>

PassTime ==
  /\ clock < MaxTime
  /\ clock' = clock + 1
  /\ UNCHANGED <<rows, marks, mode, network, hits, handler>>

HandlerStep(k) ==
  \/ FindServer(k) \/ FindOrCreate(k) \/ InsertDiscovered(k) \/ FindDeployment(k)
  \/ ReadToken(k) \/ InsertToken(k) \/ RotateToken(k) \/ RecordEvent(k) \/ Answer(k)

BootNext ==
  \/ \E k \in Handlers :
       \/ HandlerStep(k)
       \/ \E m \in Macs :
            \/ \E class \in {"netboot", "os", "probe"} : HandleDHCPPacket(k, m, class)
            \/ RenderIPXE(k, m)
            \/ RecordBootEvent(k, m)
            \/ \E wants \in {"userdata", "field"} : MetadataOfServer(k, m, wants)
       \/ \E d \in DOMAIN deps, wants \in {"userdata", "field"} : MetadataByDeployment(k, d, wants)
       \/ \E t \in handed : MetadataByToken(k, t)
  \/ \E m \in Macs : CreateServer(m)
  \/ \E s \in DOMAIN servers : CreateDeployment(s)
  \/ \E d \in DOMAIN deps : Settle(d) \/ RetryDeployment(d)
  \/ SetNetwork \/ PassTime

BootSpec == BootInit /\ [][BootNext]_bootVars

-----------------------------------------------------------------------------
BootTypeOK ==
  /\ clock \in 0 .. MaxTime /\ mode \in Modes /\ network \in BOOLEAN /\ hits \in 0 .. MaxRequests
  /\ \A s \in DOMAIN servers : servers[s] \in [mac : Macs, discovered : 0 .. 1]
  /\ \A d \in DOMAIN deps : deps[d] \in [server : DOMAIN servers, active : BOOLEAN]
  /\ \A i \in DOMAIN tokens :
       tokens[i] \in [value : 1 .. issued, server : DOMAIN servers, dep : {0} \union DOMAIN deps,
                      expires : TokenLife .. MaxTime + TokenLife, used : BOOLEAN]
  /\ bootEvents \subseteq [mac : Macs, source : BootSources, server : DOMAIN servers, dep : {0} \union DOMAIN deps]
  /\ accesses \subseteq [server : DOMAIN servers, dep : {0} \union DOMAIN deps]
  /\ \A k \in Handlers : handler[k].pc \in {"idle", "find", "create", "insert", "deployment", "token", "new",
                                            "rotate", "record", "answer"}
  /\ raced \subseteq DOMAIN tokens

(* The token of a script or of userdata is accepted for 24 hours after it was made and *)
(* leads to the deployment it was handed out for, through later boots, retries and     *)
(* settlements.  The one exception the code has is two requests that both found the    *)
(* token expired and both rotated it: the one that wrote first handed out a token the  *)
(* other had overwritten.                                                              *)
HandedTokenWorks ==
  \A t \in handed :
    clock < t.expires /\ t.row \notin raced =>
      \E i \in DOMAIN tokens :
        /\ tokens[i].value = t.value /\ tokens[i].expires = t.expires
        /\ tokens[i].server = t.server /\ tokens[i].dep = t.dep

(* A deployment has one token row, however many boots, retries and metadata requests  *)
(* look for it at once; rows may be doubled only for a server without a deployment,   *)
(* whose token is made by the request that misses it.                                 *)
SingleTokenRow ==
  \A i, j \in DOMAIN tokens :
    tokens[i].server = tokens[j].server /\ tokens[i].dep = tokens[j].dep /\ i # j => tokens[i].dep = 0

(* A machine unknown until now becomes one server, though its DHCP requests and its    *)
(* script request are handled at once and an operator enters it meanwhile.            *)
DiscoveredOnce == \A m \in Macs : Cardinality(ServersOf(m)) <= 1
=============================================================================
