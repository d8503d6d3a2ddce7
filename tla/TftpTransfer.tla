---------------------------- MODULE TftpTransfer ----------------------------
(***************************************************************************)
(* The TFTP server of the boot service and the client the platform probes  *)
(* it with.  The server reads the whole file when the read request arrives *)
(* and serves it from a socket of its own; every copy of the request that  *)
(* the network delivers starts another transfer.  Blocks carry 16-bit      *)
(* numbers and are acknowledged one by one.  The network loses, duplicates *)
(* and reorders packets: a packet once sent may arrive at any later time,  *)
(* several times or never.                                                 *)
(***************************************************************************)
EXTENDS Integers, Sequences, FiniteSets

CONSTANTS
  Ports,        \* transfer sockets: bound on the copies of the request that arrive
  Blocks,       \* full blocks of the file; a transfer ends with a shorter one
  Bases,        \* blocks before the modelled ones, already transferred without trouble
  Limits,       \* maxBytes of the probe, in full blocks
  MaxVersions   \* bound on the replacements of the file

ASSUME TftpBoundsAssumption ==
  /\ Blocks \in Nat /\ MaxVersions \in Nat \ {0}
  /\ Bases \subseteq Nat /\ Limits \subseteq Nat
  /\ 0 \notin Ports

VARIABLES
  request,  \* the read request: what it names, its options, the blocks before the modelled ones
  file,     \* version of the file under the TFTP root, 0 when there is none
  session,  \* one serveTFTPRequest per port
  client,   \* ProbeTFTPFileWithOptions
  net       \* packets sent so far

tftpVars == <<request, file, session, client, net>>

(* Block numbers are unsigned 16-bit integers, on both sides. *)
Number(i) == i % 65536
First == request.base + 1
Last == IF request.name = "generated" THEN First ELSE First + Blocks
Short(i) == i = Last

(* tftpData: the three iPXE scripts are generated, other names are read under the   *)
(* root, and names that leave it are refused.  Version 1 stands for the generated   *)
(* script, which never changes.                                                     *)
Content == CASE request.name = "generated" -> 1
             [] request.name = "file" -> file
             [] request.name = "outside" -> 0

Attempts == 5
NoSession == [pc |-> "idle", version |-> 0, pos |-> 0, tries |-> 0]

TftpInit ==
  /\ request \in [name : {"generated", "file", "outside"}, options : BOOLEAN, base : Bases, limit : Limits]
  /\ request.base # 0 => request.name = "file" /\ ~request.options
  /\ file \in 0 .. 1
  /\ session = [p \in Ports |-> NoSession]
  /\ client = [pc |-> "reading", lock |-> 0, expected |-> First, got |-> <<>>]
  /\ net = {[type |-> "RRQ"]}

Send(packets) == net' = net \union packets
Packet(type, p, i) == [type |-> type, port |-> p, block |-> i]
X_Data(p, i, v) ==
  [type |-> "DATA", port |-> p, block |-> Number(i), content |-> <<Content, i>>, short |-> Short(i)]

Data(p, i, v) ==
  [type |-> "DATA", port |-> p, block |-> Number(i), content |-> <<v, i>>, short |-> Short(i)]

-----------------------------------------------------------------------------
(* A copy of the request arrives: serveTFTP starts a goroutine for it, which reads  *)
(* the file at once, answers an ERROR from yet another socket when it cannot, and   *)
(* acknowledges the options when the request has some.                              *)
ServeTFTPRequest(p) ==
  /\ session[p].pc = "idle"
  /\ [type |-> "RRQ"] \in net
  /\ IF Content = 0
       THEN /\ session' = [session EXCEPT ![p].pc = "failed"]
            /\ Send({Packet("ERROR", p, 0)})
       ELSE /\ session' = [session EXCEPT ![p] =
                 [pc |-> IF request.options THEN "oack" ELSE "send", version |-> Content, pos |-> First, tries |-> 0]]
            /\ Send(IF request.options THEN {Packet("OACK", p, 0)} ELSE {})
  /\ UNCHANGED <<request, file, client>>

(* tftpSendDataWithRetry sends the block, at most five times. *)
X_SendData(p) ==
  /\ session[p].pc = "send"
  /\ Send({Data(p, session[p].pos, session[p].version)})
  /\ session' = [session EXCEPT ![p].pc = "wait", ![p].pos = @ + 1, ![p].tries = @ + 1]
  /\ UNCHANGED <<request, file, client>>

SendData(p) ==
  /\ session[p].pc = "send"
  /\ Send({Data(p, session[p].pos, session[p].version)})
  /\ session' = [session EXCEPT ![p].pc = "wait", ![p].tries = @ + 1]
  /\ UNCHANGED <<request, file, client>>

(* tftpWaitACK reads until the acknowledgement of this very block arrives: after    *)
(* the short block the transfer is complete.                                        *)
X_Acknowledges(p, packet) == packet.type = "ACK" /\ packet.port = p

Acknowledges(p, packet) ==
  /\ packet.type = "ACK" /\ packet.port = p
  /\ packet.block = IF session[p].pc = "oack" THEN 0 ELSE Number(session[p].pos)

AckArrives(p) ==
  /\ session[p].pc \in {"oack", "wait"}
  /\ \E packet \in net : Acknowledges(p, packet)
  /\ session' = [session EXCEPT ![p] =
       IF @.pc = "oack" THEN [@ EXCEPT !.pc = "send"]
       ELSE IF Short(@.pos) THEN [@ EXCEPT !.pc = "done"]
       ELSE [@ EXCEPT !.pc = "send", !.pos = session[p].pos + 1, !.tries = 0]]
  /\ UNCHANGED <<request, file, client, net>>

(* The read deadline passes: an option acknowledgement is not repeated, a block is. *)
X_AckTimeout(p) ==
  /\ session[p].pc \in {"oack", "wait"}
  /\ session' = [session EXCEPT ![p].pc = IF @ = "wait" THEN "send" ELSE "failed", ![p].tries = 0]
  /\ UNCHANGED <<request, file, client, net>>

AckTimeout(p) ==
  /\ session[p].pc \in {"oack", "wait"}
  /\ session' = [session EXCEPT ![p].pc = IF @ = "wait" /\ session[p].tries < Attempts THEN "send" ELSE "failed"]
  /\ UNCHANGED <<request, file, client, net>>

-----------------------------------------------------------------------------
Ack(p, block) == Packet("ACK", p, block)

(* The probe takes the first option acknowledgement it sees, before any block, and  *)
(* from then on listens to that socket alone.                                       *)
RecvOACK ==
  /\ client.pc = "reading" /\ client.lock = 0 /\ client.expected = First
  /\ \E packet \in net :
       /\ packet.type = "OACK"
       /\ client' = [client EXCEPT !.lock = packet.port]
       /\ Send({Ack(packet.port, 0)})
  /\ UNCHANGED <<request, file, session>>

(* The next block is appended and acknowledged; other blocks are passed over without *)
(* a word, so an acknowledgement is sent once.  A block that would exceed maxBytes   *)
(* (the last one, though short, is not empty) is acknowledged and ends the probe; a  *)
(* short one completes it.                                                           *)
Heard(packet) ==
  /\ packet.type = "DATA" /\ packet.block = Number(client.expected)
  /\ client.lock \in {0, packet.port}

AfterBlock(packet) == IF packet.short THEN "done" ELSE "reading"
Oversized == Len(client.got) >= request.limit
Refuse(packet) ==
  Oversized /\ client' = [client EXCEPT !.pc = "oversized", !.lock = packet.port]
Take(packet) ==
  ~Oversized /\ client' = [client EXCEPT !.lock = packet.port, !.expected = @ + 1,
                                         !.got = Append(@, packet.content), !.pc = AfterBlock(packet)]

RecvData ==
  /\ client.pc = "reading"
  /\ \E packet \in net :
       /\ Heard(packet)
       /\ Send({Ack(packet.port, packet.block)})
       /\ Refuse(packet) \/ Take(packet)
  /\ UNCHANGED <<request, file, session>>

(* An error comes from a socket of its own: it is heard only before a transfer has  *)
(* begun.                                                                           *)
RecvError ==
  /\ client.pc = "reading" /\ client.lock = 0
  /\ \E packet \in net : packet.type = "ERROR"
  /\ client' = [client EXCEPT !.pc = "failed"]
  /\ UNCHANGED <<request, file, session, net>>

(* Three seconds without a packet, or the deadline of the caller. *)
ClientTimeout ==
  /\ client.pc = "reading"
  /\ client' = [client EXCEPT !.pc = "failed"]
  /\ UNCHANGED <<request, file, session, net>>

(* An operator replaces the file under the root. *)
ReplaceFile ==
  /\ request.name = "file" /\ file < MaxVersions
  /\ file' = file + 1
  /\ UNCHANGED <<request, session, client, net>>

SessionStep(p) == ServeTFTPRequest(p) \/ SendData(p) \/ AckArrives(p) \/ AckTimeout(p)

TftpNext ==
  \/ \E p \in Ports : SessionStep(p)
  \/ RecvOACK \/ RecvData \/ RecvError \/ ClientTimeout \/ ReplaceFile

(* A goroutine that serves a transfer runs, and its read deadline passes when no    *)
(* acknowledgement comes.                                                           *)
TftpFairness == \A p \in Ports : WF_tftpVars(SendData(p) \/ AckArrives(p) \/ AckTimeout(p))

TftpSpec == TftpInit /\ [][TftpNext]_tftpVars /\ TftpFairness

-----------------------------------------------------------------------------
TftpTypeOK ==
  /\ file \in 0 .. MaxVersions
  /\ session \in [Ports -> [pc : {"idle", "oack", "send", "wait", "done", "failed"},
                          version : 0 .. MaxVersions, pos : {0} \union First .. Last, tries : 0 .. Attempts]]
  /\ client.pc \in {"reading", "done", "failed", "oversized"}
  /\ client.lock \in {0} \union Ports /\ client.expected \in First .. Last + 1

(* A completed download is one version of the file, whole and in order, though the   *)
(* request was delivered twice, the file was replaced in between, two sockets send   *)
(* at once and packets overtake each other.                                          *)
DeliveredExact ==
  client.pc = "done" =>
    \E v \in 1 .. MaxVersions : client.got = [j \in 1 .. Last - request.base |-> <<v, request.base + j>>]

(* What the server logs as a complete transfer did reach the client: the client     *)
(* listens to that socket and has acknowledged everything, having kept the whole    *)
(* file or stopped because it was too large.                                        *)
FinishedSessionDelivered ==
  \A p \in Ports :
    session[p].pc = "done" =>
      /\ client.lock = p
      /\ \/ client.pc = "done" /\ client.got[Len(client.got)][1] = session[p].version
         \/ client.pc = "oversized" /\ Len(client.got) = request.limit

(* A transfer ends, with a client that went away too: the retries are bounded.       *)
SessionEnds ==
  \A p \in Ports : session[p].pc # "idle" ~> session[p].pc \in {"done", "failed"}
=============================================================================
