-------------------------- MODULE NetworkBootProofs --------------------------
(***************************************************************************)
(* Proofs about the two services a booting machine meets: the transfer of  *)
(* its loader, for any number of sockets and any file whose modelled       *)
(* blocks have different 16-bit numbers, and the scripts and metadata, for *)
(* any number of machines, goroutines, deployments and requests.           *)
(***************************************************************************)
EXTENDS MCNetworkBoot, WellFoundedInduction, FiniteSetTheorems, TLAPS

LEMMA TftpBounds == Blocks \in Nat /\ MaxVersions \in Nat /\ MaxVersions # 0 /\ 0 \notin Ports
BY TftpBoundsAssumption

USE TftpBounds

-----------------------------------------------------------------------------
(***************************************************************************)
(* The transfer.                                                           *)
(***************************************************************************)
Requests == [name : {"generated", "file", "outside"}, options : BOOLEAN, base : Nat, limit : Nat]
SessionRows == [pc : {"idle", "oack", "send", "wait", "done", "failed"},
                version : 0 .. MaxVersions, pos : Nat, tries : 0 .. Attempts]
Contents == (1 .. MaxVersions) \X Nat
ClientRows == [pc : {"reading", "done", "failed", "oversized"}, lock : {0} \union Ports, expected : First .. Last + 1,
               got : Seq(Contents)]
Opened(p) == session[p].pc \in {"oack", "send", "wait", "done"}

TftpType ==
  /\ request \in Requests
  /\ request.options => request.base = 0
  /\ file \in 0 .. MaxVersions
  /\ session \in [Ports -> SessionRows]
  /\ client \in ClientRows

SessionsAgree ==
  \A p \in Ports :
    /\ session[p].pc \in {"idle", "oack"} => session[p].tries = 0
    /\ session[p].pc = "send" => session[p].tries < Attempts
    /\ Opened(p) => session[p].version # 0 /\ session[p].pos \in First .. Last
    /\ session[p].pc = "done" => session[p].pos = Last
    /\ session[p].pos \in {0} \union First .. Last
    /\ session[p].version # 0 => session[p].pc # "idle"

(* What the server has sent.                                                *)
PacketsSent ==
  \A x \in net :
    /\ x.type \in {"DATA", "OACK", "ACK"} => x.port \in Ports
    /\ x.type \in {"DATA", "OACK"} => session[x.port].version # 0
    /\ x.type = "OACK" => request.options
    /\ x.type = "DATA" => \E i \in First .. session[x.port].pos : x = Data(x.port, i, session[x.port].version)

(* What the client has kept, and from whom.                                 *)
Kept ==
  /\ Len(client.got) = client.expected - First
  /\ client.lock = 0 => client.expected = First /\ client.pc \in {"reading", "failed"}
  /\ client.lock # 0 =>
       /\ session[client.lock].version # 0
       /\ \A j \in 1 .. client.expected - First :
            client.got[j] = <<session[client.lock].version, request.base + j>>
  /\ client.expected = Last + 1 <=> client.pc = "done"
  /\ client.expected - First <= request.limit
  /\ client.pc = "oversized" => client.expected - First = request.limit

(* What the client has acknowledged: nothing but what it kept, the options, *)
(* and the block that was too much.                                         *)
Acknowledged(n) ==
  \/ n = 0 /\ request.options
  \/ \E i \in First .. client.expected - 1 : n = Number(i)
  \/ client.pc = "oversized" /\ n = Number(client.expected)
AcksSent == \A x \in net : x.type = "ACK" => x.port = client.lock /\ Acknowledged(x.block)

(* A transfer is complete when its last block was acknowledged.             *)
CompletesHeard ==
  \A p \in Ports : session[p].pc = "done" => p = client.lock /\ Acknowledged(Number(Last)) /\ Last # 0

TftpInv == TftpType /\ SessionsAgree /\ PacketsSent /\ Kept /\ AcksSent /\ CompletesHeard

LEMMA BlocksAre ==
  ASSUME request \in Requests
  PROVE  /\ request.base \in Nat /\ First \in Nat /\ Last \in Nat /\ 1 <= First /\ First <= Last
         /\ Last <= First + Blocks /\ First = request.base + 1 /\ Blocks \in Nat
BY DEF Requests, First, Last

LEMMA NumbersDiffer ==
  ASSUME Blocks < 65535, request \in Requests, NEW i \in First .. Last, NEW j \in First .. Last, Number(i) = Number(j)
  PROVE  i = j
<1>1. i \in Nat /\ j \in Nat /\ i - j <= Blocks /\ j - i <= Blocks /\ Blocks \in Nat
  BY BlocksAre
<1> QED
  BY <1>1 DEF Number

LEMMA LastIsNumbered ==
  ASSUME Blocks < 65535, request \in Requests, request.base = 0
  PROVE  Number(Last) # 0
<1>1. Last \in Nat /\ 1 <= Last /\ Last <= 65535
  <2>1. First = 1 /\ Blocks \in Nat
    BY BlocksAre
  <2> QED
    BY <2>1, BlocksAre
<1>2. \A n \in Nat : 1 <= n /\ n <= 65535 => n % 65536 # 0
  OBVIOUS
<1> QED
  BY <1>1, <1>2 DEF Number

LEMMA TftpInitially ==
  ASSUME TftpInit
  PROVE  TftpInv
<1>1. request \in Requests /\ (request.options => request.base = 0)
  BY TftpBoundsAssumption DEF TftpInit, Requests
<1>2. /\ 0 \in 0 .. MaxVersions /\ 0 \in Nat /\ 0 \in 0 .. Attempts /\ 1 <= MaxVersions
  BY DEF Attempts
<1>3. NoSession \in SessionRows /\ NoSession.pc = "idle" /\ NoSession.version = 0 /\ NoSession.pos = 0 /\ NoSession.tries = 0
  BY <1>2 DEF NoSession, SessionRows
<1>4. \A p \in Ports : session[p] = NoSession
  BY DEF TftpInit
<1>5. /\ client.pc = "reading" /\ client.lock = 0 /\ client.expected = First /\ client.got = <<>>
      /\ client = [pc |-> "reading", lock |-> 0, expected |-> First, got |-> <<>>]
  BY DEF TftpInit
<1>6. TftpType
  <2>1. session \in [Ports -> SessionRows] /\ file \in 0 .. MaxVersions
    BY <1>2, <1>3 DEF TftpInit
  <2>2. First \in First .. Last + 1 /\ <<>> \in Seq(Contents)
    BY <1>1, BlocksAre
  <2> QED
    BY <1>1, <1>5, <2>1, <2>2 DEF TftpType, ClientRows
<1>7. SessionsAgree /\ CompletesHeard
  BY <1>3, <1>4 DEF SessionsAgree, CompletesHeard, Attempts, Opened
<1>8. Kept
  BY <1>1, <1>5, BlocksAre DEF Kept, Requests
<1>9. PacketsSent /\ AcksSent
  BY DEF TftpInit, PacketsSent, AcksSent
<1> QED
  BY <1>6, <1>7, <1>8, <1>9 DEF TftpInv

(* A step of the session of one socket: it keeps its version, goes on in    *)
(* the file, and sends what is in it.                                       *)
GoesOn(p, c) ==
  /\ session[p].version # 0 => c.version = session[p].version /\ session[p].pos <= c.pos
  /\ c.pc # "idle"
  /\ c.pc = "oack" => c.tries = 0
  /\ c.pc = "send" => c.tries < Attempts
  /\ c.pc \in {"oack", "send", "wait", "done"} => c.version # 0 /\ c.pos \in First .. Last
  /\ c.pos \in {0} \union First .. Last
  /\ c.pc = "done" => c.pos = Last /\ p = client.lock /\ Acknowledged(Number(Last)) /\ Last # 0
FromFile(p, c, sent) ==
  \A x \in sent : /\ x.type \in {"DATA", "OACK", "ERROR"} /\ x.port = p
                  /\ x.type \in {"DATA", "OACK"} => c.version # 0
                  /\ x.type = "OACK" => request.options
                  /\ x.type = "DATA" => \E i \in First .. c.pos : x = Data(p, i, c.version)

LEMMA SessionMoves ==
  ASSUME TftpInv, NEW p \in Ports, UNCHANGED <<request, client>>, file' = file,
         NEW c \in SessionRows, session' = [session EXCEPT ![p] = c],
         GoesOn(p, c), NEW sent, net' = net \union sent, FromFile(p, c, sent)
  PROVE  TftpInv'
<1>0. /\ session \in [Ports -> SessionRows] /\ session' \in [Ports -> SessionRows]
      /\ session'[p] = c /\ \A q \in Ports \ {p} : session'[q] = session[q]
      /\ First' = First /\ Last' = Last
  BY DEF TftpInv, TftpType, First, Last
<1>1. TftpType'
  BY <1>0 DEF TftpInv, TftpType, ClientRows
<1>2. SessionsAgree'
  BY <1>0 DEF TftpInv, SessionsAgree, Opened, GoesOn
<1>3. \A q \in Ports : session[q].version # 0 => session'[q].version = session[q].version /\ session[q].pos <= session'[q].pos
  BY <1>0 DEF SessionRows, GoesOn
<1>4. PacketsSent'
  <2>1. \A q, i, v : Data(q, i, v)' = Data(q, i, v)
    BY <1>0 DEF Data, Short
  <2>2. ASSUME NEW x \in net
        PROVE  /\ x.type \in {"DATA", "OACK", "ACK"} => x.port \in Ports
               /\ x.type \in {"DATA", "OACK"} => session'[x.port].version # 0
               /\ x.type = "OACK" => request.options
               /\ x.type = "DATA" => \E i \in First .. session'[x.port].pos : x = Data(x.port, i, session'[x.port].version)
    <3>1. /\ x.type \in {"DATA", "OACK", "ACK"} => x.port \in Ports
          /\ x.type \in {"DATA", "OACK"} => session[x.port].version # 0
          /\ x.type = "OACK" => request.options
          /\ x.type = "DATA" => \E i \in First .. session[x.port].pos : x = Data(x.port, i, session[x.port].version)
      BY DEF TftpInv, PacketsSent
    <3>2. ASSUME x.type = "DATA"
          PROVE  \E i \in First .. session'[x.port].pos : x = Data(x.port, i, session'[x.port].version)
      <4>1. PICK i \in First .. session[x.port].pos : x = Data(x.port, i, session[x.port].version)
        BY <3>1, <3>2
      <4>2. /\ session'[x.port].version = session[x.port].version /\ session[x.port].pos <= session'[x.port].pos
            /\ session'[x.port].pos \in Nat /\ session[x.port].pos \in Nat /\ First \in Nat
        BY <1>0, <1>3, <3>1, <3>2, BlocksAre DEF SessionRows, TftpInv, TftpType
      <4>3. i \in First .. session'[x.port].pos
        BY <4>2
      <4> QED
        BY <4>1, <4>2, <4>3
    <3> QED
      BY <1>3, <3>1, <3>2
  <2> QED
    BY <1>0, <2>1, <2>2 DEF PacketsSent, FromFile
<1>5. Kept'
  BY <1>0, <1>3 DEF TftpInv, TftpType, ClientRows, Kept
<1>6. \A n : Acknowledged(n) => Acknowledged(n)'
  BY <1>0 DEF Acknowledged
<1>7. AcksSent' /\ CompletesHeard'
  <2>1. \A x \in net' : x.type = "ACK" => x \in net
    BY DEF FromFile
  <2>2. Number(Last)' = Number(Last)
    BY <1>0 DEF Number
  <2> QED
    BY <1>0, <1>6, <2>1, <2>2 DEF TftpInv, AcksSent, CompletesHeard, GoesOn
<1> QED
  BY <1>1, <1>2, <1>4, <1>5, <1>7 DEF TftpInv

LEMMA TftpIs ==
  ASSUME TftpInv
  PROVE  /\ request \in Requests /\ session \in [Ports -> SessionRows] /\ file \in 0 .. MaxVersions
         /\ request.options => request.base = 0
         /\ First \in Nat /\ Last \in Nat /\ 1 <= First /\ First <= Last /\ Last # 0 /\ First \in First .. Last
         /\ Last <= First + Blocks /\ First = request.base + 1 /\ request.base \in Nat
<1>1. /\ request \in Requests /\ session \in [Ports -> SessionRows] /\ file \in 0 .. MaxVersions
      /\ request.options => request.base = 0
  BY DEF TftpInv, TftpType
<1> QED
  BY <1>1, BlocksAre

LEMMA OpenedIs ==
  ASSUME TftpInv, NEW p \in Ports
  PROVE  LET c == session[p] IN
         /\ c \in SessionRows /\ c.pos \in Nat /\ c.version \in 0 .. MaxVersions /\ c.tries \in 0 .. Attempts
         /\ c.pc \in {"oack", "send", "wait", "done"} => c.version # 0 /\ c.pos \in First .. Last
         /\ c.pos \in {0} \union First .. Last
         /\ c.pc = "send" => c.tries < Attempts
         /\ c.pc \in {"idle", "oack"} => c.tries = 0
<1>1. session[p] \in SessionRows
  BY TftpIs
<1>2. session[p].pos \in Nat /\ session[p].version \in 0 .. MaxVersions /\ session[p].tries \in 0 .. Attempts
  BY <1>1 DEF SessionRows
<1> QED
  BY <1>1, <1>2 DEF TftpInv, SessionsAgree, Opened

LEMMA ServeKeeps ==
  ASSUME TftpInv, NEW p \in Ports, ServeTFTPRequest(p)
  PROVE  TftpInv'
<1>0. session[p] \in SessionRows /\ session[p].pc = "idle" /\ session[p].version = 0 /\ session[p].tries = 0
      /\ UNCHANGED <<request, client, file>> /\ session \in [Ports -> SessionRows]
      /\ session[p].pos \in {0} \union First .. Last
  BY DEF ServeTFTPRequest, TftpInv, TftpType, SessionsAgree
<1>1. First \in First .. Last /\ First \in Nat
  BY TftpIs
<1>2. CASE Content = 0
  <2> DEFINE c == [session[p] EXCEPT !.pc = "failed"]
             sent == {Packet("ERROR", p, 0)}
  <2>1. c \in SessionRows /\ c.pc = "failed" /\ c.pos = session[p].pos
    BY <1>0 DEF SessionRows
  <2>2. session' = [session EXCEPT ![p] = c] /\ net' = net \union sent
    BY <1>0, <1>2 DEF ServeTFTPRequest, Send
  <2>3. \A x \in sent : x.type = "ERROR" /\ x.port = p
    BY DEF Packet
  <2> HIDE DEF c, sent
  <2>4. GoesOn(p, c) /\ FromFile(p, c, sent)
    BY <1>0, <2>1, <2>3 DEF GoesOn, FromFile
  <2> QED
    BY <1>0, <2>1, <2>2, <2>4, SessionMoves
<1>3. CASE Content # 0
  <2> DEFINE c == [pc |-> IF request.options THEN "oack" ELSE "send", version |-> Content, pos |-> First, tries |-> 0]
             sent == IF request.options THEN {Packet("OACK", p, 0)} ELSE {}
  <2>1. Content \in 0 .. MaxVersions
    <3>1. request.name \in {"generated", "file", "outside"} /\ 1 <= MaxVersions /\ MaxVersions \in Nat /\ file \in 0 .. MaxVersions
      BY TftpIs DEF Requests
    <3> QED
      BY <3>1 DEF Content
  <2>2. c \in SessionRows /\ c.pc \in {"oack", "send"} /\ c.pos = First /\ c.version = Content /\ c.tries = 0
    BY <1>1, <2>1 DEF SessionRows, Attempts
  <2>3. session' = [session EXCEPT ![p] = c] /\ net' = net \union sent
    BY <1>3 DEF ServeTFTPRequest, Send
  <2>4. \A x \in sent : x.type = "OACK" /\ x.port = p /\ request.options
    BY DEF Packet
  <2> HIDE DEF c, sent
  <2>5. GoesOn(p, c) /\ FromFile(p, c, sent)
    BY <1>0, <1>1, <1>3, <2>2, <2>4 DEF GoesOn, FromFile, Attempts
  <2> QED
    BY <1>0, <2>2, <2>3, <2>5, SessionMoves
<1> QED
  BY <1>2, <1>3

LEMMA SendKeeps ==
  ASSUME TftpInv, NEW p \in Ports, SendData(p)
  PROVE  TftpInv'
<1> DEFINE s == session[p]
           c == [s EXCEPT !.pc = "wait", !.tries = @ + 1]
           sent == {Data(p, s.pos, s.version)}
<1>0. /\ s \in SessionRows /\ s.pc = "send" /\ s.version # 0 /\ s.pos \in First .. Last
      /\ s.tries \in 0 .. Attempts /\ s.tries < Attempts /\ s.pos \in Nat
      /\ UNCHANGED <<request, client, file>> /\ session \in [Ports -> SessionRows]
  BY OpenedIs, TftpIs DEF SendData
<1>1. c \in SessionRows /\ c.pc = "wait" /\ c.pos = s.pos /\ c.version = s.version
  <2>1. s.tries + 1 \in 0 .. Attempts
    BY <1>0 DEF Attempts
  <2> QED
    BY <1>0, <2>1 DEF SessionRows
<1>2. session' = [session EXCEPT ![p] = c] /\ net' = net \union sent
  BY <1>0 DEF SendData, Send
<1>3. \A x \in sent : x.type = "DATA" /\ x.port = p /\ x = Data(p, s.pos, s.version)
  BY DEF Data
<1>4. s.pos \in First .. s.pos
  BY <1>0, TftpIs
<1> HIDE DEF c, sent
<1>5. \A x \in sent : \E i \in First .. c.pos : x = Data(p, i, c.version)
  BY <1>1, <1>3, <1>4
<1>6. GoesOn(p, c) /\ FromFile(p, c, sent)
  BY <1>0, <1>1, <1>3, <1>5 DEF GoesOn, FromFile
<1> QED
  BY <1>0, <1>1, <1>2, <1>6, SessionMoves

LEMMA TimeoutKeeps ==
  ASSUME TftpInv, NEW p \in Ports, AckTimeout(p)
  PROVE  TftpInv'
<1> DEFINE s == session[p]
           c == [s EXCEPT !.pc = IF @ = "wait" /\ session[p].tries < Attempts THEN "send" ELSE "failed"]
<1>0. /\ s \in SessionRows /\ s.pc \in {"oack", "wait"} /\ s.version # 0 /\ s.pos \in First .. Last /\ s.pos \in Nat
      /\ UNCHANGED <<request, client, file>> /\ session \in [Ports -> SessionRows] /\ net' = net \union {}
      /\ session' = [session EXCEPT ![p].pc = IF @ = "wait" /\ session[p].tries < Attempts THEN "send" ELSE "failed"]
  BY OpenedIs, TftpIs DEF AckTimeout
<1>1. /\ c \in SessionRows /\ c.pc \in {"send", "failed"} /\ c.pos = s.pos /\ c.version = s.version
      /\ c.pc = "send" => c.tries < Attempts
  BY <1>0 DEF SessionRows
<1>2. session' = [session EXCEPT ![p] = c]
  BY <1>0
<1> HIDE DEF c
<1>3. GoesOn(p, c) /\ FromFile(p, c, {})
  BY <1>0, <1>1 DEF GoesOn, FromFile
<1> QED
  BY <1>0, <1>1, <1>2, <1>3, SessionMoves

(* The acknowledgement a session waits for is of the block it sent, and the *)
(* last one is given for the last block alone: its number is not that of    *)
(* the option acknowledgement, nor of any other block.                      *)
LEMMA AckKeeps ==
  ASSUME TftpInv, NEW p \in Ports, AckArrives(p)
  PROVE  TftpInv'
<1> DEFINE s == session[p]
           c == IF s.pc = "oack" THEN [s EXCEPT !.pc = "send"]
                ELSE IF Short(s.pos) THEN [s EXCEPT !.pc = "done"]
                ELSE [s EXCEPT !.pc = "send", !.pos = s.pos + 1, !.tries = 0]
<1>0. /\ s \in SessionRows /\ s.pc \in {"oack", "wait"} /\ s.version # 0 /\ s.pos \in First .. Last /\ s.pos \in Nat
      /\ UNCHANGED <<request, client, file>> /\ session \in [Ports -> SessionRows] /\ net' = net \union {}
      /\ s.pc = "oack" => s.tries = 0
  BY OpenedIs, TftpIs DEF AckArrives
<1>1. session' = [session EXCEPT ![p] = c]
  BY <1>0 DEF AckArrives
<1>2. First \in Nat /\ Last \in Nat /\ First <= Last /\ 1 <= First /\ request \in Requests /\ Last # 0
  BY TftpIs
<1>3. /\ c \in SessionRows /\ c.pc \in {"send", "done"} /\ s.pos <= c.pos /\ c.version = s.version
      /\ c.pos \in First .. Last /\ (c.pc = "send" => c.tries < Attempts)
      /\ c.pc = "done" => c.pos = Last /\ s.pc = "wait" /\ s.pos = Last
  <2>1. CASE s.pc = "oack"
    BY <1>0, <2>1 DEF SessionRows, Attempts
  <2>2. CASE s.pc = "wait" /\ Short(s.pos)
    BY <1>0, <2>2 DEF SessionRows, Short
  <2>3. CASE s.pc = "wait" /\ ~Short(s.pos)
    <3>1. s.pos # Last /\ c = [s EXCEPT !.pc = "send", !.pos = s.pos + 1, !.tries = 0]
      BY <1>0, <2>3 DEF Short
    <3>2. s.pos + 1 \in Nat /\ s.pos + 1 \in First .. Last /\ s.pos <= s.pos + 1 /\ 0 < Attempts /\ 0 \in 0 .. Attempts
      BY <1>0, <1>2, <3>1 DEF Attempts
    <3>3. /\ c \in SessionRows /\ c.pc = "send" /\ c.pos = s.pos + 1 /\ c.tries = 0 /\ c.version = s.version
      BY <1>0, <3>1, <3>2 DEF SessionRows
    <3> QED
      BY <3>2, <3>3
  <2> QED
    BY <1>0, <2>1, <2>2, <2>3
<1> HIDE DEF c
<1>4. c.pc = "done" => p = client.lock /\ Acknowledged(Number(Last)) /\ Last # 0
  <2>1. PICK x \in net : Acknowledges(p, x)
    BY DEF AckArrives
  <2>2. c.pc = "done" => x.type = "ACK" /\ x.port = p /\ x.block = Number(Last)
    BY <1>3, <2>1 DEF Acknowledges
  <2> QED
    BY <1>2, <2>2 DEF TftpInv, AcksSent
<1>5. GoesOn(p, c) /\ FromFile(p, c, {})
  BY <1>0, <1>3, <1>4 DEF GoesOn, FromFile
<1> QED
  BY <1>0, <1>1, <1>3, <1>5, SessionMoves

(***************************************************************************)
(* The client.                                                             *)
(***************************************************************************)
LEMMA ClientIs ==
  ASSUME TftpInv
  PROVE  /\ client.pc \in {"reading", "done", "failed", "oversized"}
         /\ client.lock \in {0} \union Ports /\ client.expected \in First .. Last + 1 /\ client.expected \in Nat
         /\ client.got \in Seq(Contents) /\ Len(client.got) = client.expected - First
         /\ client.lock = 0 => client.expected = First
         /\ client.pc = "reading" => client.expected <= Last
         /\ request.limit \in Nat
<1>1. /\ client.pc \in {"reading", "done", "failed", "oversized"}
      /\ client.lock \in {0} \union Ports /\ client.expected \in First .. Last + 1
      /\ client.got \in Seq(Contents)
  BY DEF TftpInv, TftpType, ClientRows
<1>2. request.limit \in Nat
  BY TftpIs DEF Requests
<1>3. First \in Nat /\ Last \in Nat
  BY TftpIs
<1>4. client.expected \in Nat
  <2>1. client.expected \in First .. Last + 1
    BY <1>1
  <2> QED
    BY <1>3, <2>1
<1>5. /\ Len(client.got) = client.expected - First
      /\ client.lock = 0 => client.expected = First
      /\ client.expected = Last + 1 <=> client.pc = "done"
  BY DEF TftpInv, Kept
<1>6. client.pc = "reading" => client.expected <= Last
  BY <1>1, <1>3, <1>4, <1>5
<1> QED
  BY <1>1, <1>2, <1>4, <1>5, <1>6

(* A step of the client that keeps what it has.                             *)
LEMMA ClientMoves ==
  ASSUME TftpInv, UNCHANGED <<request, file, session>>,
         client' \in ClientRows,
         client.lock \in {0, client'.lock}, Kept',
         \A n : Acknowledged(n) => Acknowledged(n)',
         NEW sent, net' = net \union sent,
         \A x \in sent : x.type = "ACK" /\ x.port = client'.lock /\ x.port \in Ports /\ Acknowledged(x.block)'
  PROVE  TftpInv'
<1>0. First' = First /\ Last' = Last /\ \A q, i, v : Data(q, i, v)' = Data(q, i, v)
  BY DEF First, Last, Data, Short
<1>1. TftpType'
  BY <1>0 DEF TftpInv, TftpType, ClientRows
<1>2. SessionsAgree'
  BY <1>0 DEF TftpInv, SessionsAgree, Opened
<1>3. PacketsSent'
  BY <1>0 DEF TftpInv, PacketsSent
<1>4. AcksSent' /\ CompletesHeard'
  <2>1. Number(Last)' = Number(Last)
    BY <1>0
  <2>2. \A x \in net : x.type = "ACK" => client.lock # 0
    BY DEF TftpInv, AcksSent, PacketsSent
  <2>3. AcksSent'
    BY <2>2 DEF TftpInv, AcksSent
  <2>4. ASSUME NEW p \in Ports, session[p].pc = "done" PROVE p = client'.lock /\ Acknowledged(Number(Last))' /\ Last' # 0
    BY <1>0, <2>1, <2>4 DEF TftpInv, CompletesHeard
  <2> QED
    BY <2>3, <2>4 DEF CompletesHeard
<1> QED
  BY <1>1, <1>2, <1>3, <1>4 DEF TftpInv

LEMMA ClientFields ==
  ASSUME TftpInv
  PROVE  client \in ClientRows
BY DEF TftpInv, TftpType

LEMMA OackKeeps ==
  ASSUME TftpInv, RecvOACK
  PROVE  TftpInv'
<1>1. PICK x \in net : /\ x.type = "OACK"
                       /\ client' = [client EXCEPT !.lock = x.port]
                       /\ net' = net \union {Packet("ACK", x.port, 0)}
  BY DEF RecvOACK, Send, Ack
<1>2. /\ client.pc = "reading" /\ client.lock = 0 /\ client.expected = First
      /\ UNCHANGED <<request, file, session>> /\ First' = First /\ Last' = Last
  BY DEF RecvOACK, First, Last
<1>3. x.port \in Ports /\ session[x.port].version # 0 /\ request.options
  BY <1>1 DEF TftpInv, PacketsSent
<1>4. /\ client' \in ClientRows
      /\ client'.pc = "reading" /\ client'.lock = x.port /\ client'.expected = First /\ client'.got = client.got
  BY <1>1, <1>2, <1>3, ClientFields DEF ClientRows
<1>5. Kept'
  BY <1>2, <1>3, <1>4, TftpIs, ClientIs DEF Kept, TftpInv
<1>6. \A n : Acknowledged(n) => Acknowledged(n)'
  BY <1>2, <1>4 DEF Acknowledged
<1>7. Acknowledged(0)'
  BY <1>2, <1>3 DEF Acknowledged
<1> DEFINE sent == {Packet("ACK", x.port, 0)}
<1>8. \A y \in sent : y.type = "ACK" /\ y.port = client'.lock /\ y.port \in Ports /\ Acknowledged(y.block)'
  BY <1>3, <1>4, <1>7 DEF Packet
<1>9. net' = net \union sent
  BY <1>1
<1> HIDE DEF sent
<1> QED
  BY <1>2, <1>4, <1>5, <1>6, <1>8, <1>9, ClientMoves

(* The packet the client hears carries the block it expects: no other of    *)
(* the modelled ones has its number.                                        *)
LEMMA HeardIs ==
  ASSUME TftpInv, Blocks < 65535, client.pc = "reading", NEW x \in net, Heard(x)
  PROVE  /\ x.port \in Ports /\ session[x.port].version \in 1 .. MaxVersions /\ client.lock \in {0, x.port}
         /\ x.content = <<session[x.port].version, client.expected>>
         /\ AfterBlock(x) \in {"done", "reading"}
         /\ AfterBlock(x) = "done" <=> client.expected = Last
         /\ x.block = Number(client.expected)
<1>1. /\ x.type = "DATA" /\ x.block = Number(client.expected) /\ client.lock \in {0, x.port}
  BY DEF Heard
<1>2. /\ x.port \in Ports /\ session[x.port].version # 0
      /\ \E i \in First .. session[x.port].pos : x = Data(x.port, i, session[x.port].version)
  BY <1>1 DEF TftpInv, PacketsSent
<1>3. PICK i \in First .. session[x.port].pos : x = Data(x.port, i, session[x.port].version)
  BY <1>2
<1>4. /\ session[x.port].version \in 0 .. MaxVersions /\ session[x.port].pos \in {0} \union First .. Last
      /\ session[x.port].pos \in Nat
  BY <1>2, OpenedIs
<1>5. First \in Nat /\ Last \in Nat /\ client.expected \in First .. Last + 1 /\ client.expected <= Last /\ client.expected \in Nat
  BY TftpIs, ClientIs
<1>6. i \in First .. Last
  BY <1>4, <1>5
<1>7. client.expected \in First .. Last
  BY <1>5
<1>8. x.block = Number(i) /\ x.content = <<session[x.port].version, i>>
  BY <1>3 DEF Data
<1>9. Number(i) = Number(client.expected) /\ request \in Requests
  BY <1>1, <1>8, TftpIs
<1>10. i = client.expected
  BY <1>6, <1>7, <1>9, NumbersDiffer
<1>11. AfterBlock(x) \in {"done", "reading"} /\ (AfterBlock(x) = "done" <=> client.expected = Last)
  <2>1. x.short = (client.expected = Last)
    BY <1>3, <1>10 DEF Data, Short
  <2>2. AfterBlock(x) = IF client.expected = Last THEN "done" ELSE "reading"
    BY ONLY <2>1, Zenon DEF AfterBlock
  <2> QED
    BY <2>2
<1>12. session[x.port].version \in 1 .. MaxVersions
  BY <1>2, <1>4
<1> QED
  BY <1>1, <1>2, <1>8, <1>10, <1>11, <1>12

(* The first n blocks of a version, and one block more.                     *)
Whole(got, v, n) == got \in Seq(Contents) /\ Len(got) = n /\ \A j \in 1 .. n : got[j] = <<v, request.base + j>>
Extended(got, block) == Append(got, block)

LEMMA AppendIs ==
  ASSUME NEW S, NEW s \in Seq(S), NEW e \in S
  PROVE  /\ Append(s, e) \in Seq(S)
         /\ Len(Append(s, e)) = Len(s) + 1 /\ Len(s) \in Nat
         /\ \A i \in 1 .. Len(s) : Append(s, e)[i] = s[i]
         /\ Append(s, e)[Len(s) + 1] = e
OBVIOUS

LEMMA OneMore ==
  ASSUME NEW got, NEW v \in 1 .. MaxVersions, NEW n \in Nat, request.base \in Nat,
         Whole(got, v, n), NEW x, x = <<v, request.base + n + 1>>
  PROVE  Whole(Extended(got, x), v, n + 1)
<1>1. x \in Contents /\ got \in Seq(Contents) /\ Len(got) = n
  BY DEF Contents, Whole
<1> DEFINE more == Append(got, x)
<1>2. more \in Seq(Contents) /\ Len(more) = n + 1 /\ (\A i \in 1 .. n : more[i] = got[i]) /\ more[n + 1] = x
  BY <1>1, AppendIs
<1> HIDE DEF more
<1>3. ASSUME NEW j \in 1 .. n + 1 PROVE more[j] = <<v, request.base + j>>
  <2>1. CASE j = n + 1
    <3>1. request.base + j = request.base + n + 1
      BY <2>1
    <3> QED
      BY <1>2, <2>1, <3>1
  <2>2. CASE j # n + 1
    <3>1. j \in 1 .. n
      BY <2>2
    <3> QED
      BY <1>2, <3>1 DEF Whole
  <2> QED
    BY <2>1, <2>2
<1> QED
  BY <1>2, <1>3 DEF Whole, more, Extended

LEMMA Positions ==
  ASSUME NEW b \in Nat, NEW f \in Nat, NEW e \in Nat, NEW l \in Nat, f = b + 1, f <= e, e <= l
  PROVE  /\ e - f \in Nat /\ b + (e - f) + 1 = e /\ (e - f) + 1 = (e + 1) - f
         /\ e + 1 \in f .. l + 1 /\ e + 1 \in Nat /\ e + 1 # f /\ (e + 1 = l + 1 <=> e = l) /\ e # l + 1
         /\ \A i \in f .. e : i \in f .. (e + 1) - 1
         /\ \A i \in f .. e - 1 : i \in f .. e
         /\ e \in f .. e /\ e \in f .. l + 1
OBVIOUS

(* Where a client that reads is.                                            *)
Held == client.expected - First

LEMMA ReadingIs ==
  ASSUME TftpInv, client.pc = "reading"
  PROVE  /\ Held \in Nat /\ request.base + Held + 1 = client.expected /\ Held + 1 = (client.expected + 1) - First
         /\ client.expected + 1 \in First .. Last + 1 /\ client.expected + 1 # First
         /\ client.expected + 1 = Last + 1 <=> client.expected = Last
         /\ client.expected # Last + 1
         /\ \A i \in First .. client.expected : i \in First .. (client.expected + 1) - 1
         /\ \A i \in First .. client.expected - 1 : i \in First .. client.expected
         /\ client.expected \in First .. client.expected /\ client.expected \in First .. Last + 1
         /\ request.base \in Nat
<1>1. /\ client.expected \in Nat /\ First \in Nat /\ Last \in Nat /\ client.expected <= Last
      /\ request.base \in Nat /\ First = request.base + 1 /\ client.expected \in First .. Last + 1
  BY TftpIs, ClientIs
<1>2. First <= client.expected
  BY <1>1
<1> QED
  BY <1>1, <1>2, Positions DEF Held

LEMMA KeptBlocks ==
  ASSUME TftpInv, client.pc = "reading", NEW p \in Ports, client.lock \in {0, p}
  PROVE  /\ Whole(client.got, session[p].version, Held)
         /\ Held <= request.limit /\ Held \in Nat /\ request.limit \in Nat
         /\ Oversized <=> Held = request.limit
<1>1. /\ client.got \in Seq(Contents) /\ Len(client.got) = Held /\ Held \in Nat /\ request.limit \in Nat
      /\ client.lock = 0 => Held = 0
  <2>1. First - First = 0
    BY TftpIs
  <2> QED
    BY <2>1, ClientIs, ReadingIs DEF Held
<1>2. Held <= request.limit
  BY DEF TftpInv, Kept, Held
<1>3. Oversized <=> Held = request.limit
  BY <1>1, <1>2 DEF Oversized
<1>4. CASE client.lock = 0
  BY <1>1, <1>2, <1>3, <1>4 DEF Whole
<1>5. CASE client.lock # 0
  BY <1>1, <1>2, <1>3, <1>5 DEF Whole, TftpInv, Kept, Held
<1> QED
  BY <1>4, <1>5

(* What a client that has kept the first blocks of a version may be.        *)
LEMMA KeptWhole ==
  ASSUME UNCHANGED <<request, session>>, NEW p \in Ports, session[p].version # 0, client'.lock = p,
         Whole(client'.got, session[p].version, client'.expected - First),
         client'.expected = Last + 1 <=> client'.pc = "done",
         client'.expected - First <= request.limit,
         client'.pc = "oversized" => client'.expected - First = request.limit
  PROVE  Kept'
<1>1. First' = First /\ Last' = Last /\ p # 0
  BY DEF First, Last
<1>2. client'.lock # 0
  BY <1>1
<1>3. Whole(client'.got, session'[client'.lock].version, client'.expected - First)
  OBVIOUS
<1> QED
  BY <1>1, <1>2, <1>3 DEF Kept, Whole

(* The client takes the block it waited for, or has too much of the file.   *)
TakesBlock(p, block, outcome) ==
  /\ ~Oversized
  /\ client' = [client EXCEPT !.lock = p, !.expected = client.expected + 1,
                              !.got = Extended(client.got, block), !.pc = outcome]
HasTooMuch(p) ==
  /\ Oversized
  /\ client' = [client EXCEPT !.pc = "oversized", !.lock = p]
Answers(p, sent) == \A y \in sent : y.type = "ACK" /\ y.port = p /\ y.block = Number(client.expected)

LEMMA TooLargeKeeps ==
  ASSUME TftpInv, client.pc = "reading", NEW p \in Ports, session[p].version # 0, client.lock \in {0, p},
         UNCHANGED <<request, file, session>>, HasTooMuch(p),
         NEW sent, net' = net \union sent, Answers(p, sent)
  PROVE  TftpInv'
<1>1. /\ client' \in ClientRows /\ p # 0
      /\ client'.pc = "oversized" /\ client'.lock = p /\ client'.expected = client.expected /\ client'.got = client.got
  BY ClientFields DEF ClientRows, HasTooMuch
<1>2. /\ Whole(client.got, session[p].version, Held)
      /\ Held = request.limit /\ Held \in Nat /\ request.limit \in Nat
  BY KeptBlocks DEF HasTooMuch
<1>3. client.expected # Last + 1
  BY ReadingIs
<1>4. First' = First /\ Last' = Last
  BY DEF First, Last
<1>5. Kept'
  <2>1. client'.expected - First = Held /\ client'.expected # Last + 1
    BY <1>1, <1>3 DEF Held
  <2>3. client'.pc # "done"
    BY <1>1
  <2>4. Held <= request.limit
    BY <1>2
  <2>2. Whole(client'.got, session[p].version, client'.expected - First)
    BY <1>1, <1>2, <2>1
  <2> QED
    BY <1>1, <1>2, <2>1, <2>2, <2>3, <2>4, KeptWhole
<1>6. \A m : Acknowledged(m) => Acknowledged(m)'
  BY <1>1, <1>4 DEF Acknowledged
<1>7. \A m : m = Number(client.expected) => Acknowledged(m)'
  BY <1>1 DEF Acknowledged
<1>8. \A y \in sent : y.type = "ACK" /\ y.port = client'.lock /\ y.port \in Ports /\ Acknowledged(y.block)'
  BY <1>1, <1>7 DEF Answers
<1> QED
  BY <1>1, <1>5, <1>6, <1>8, ClientMoves

(* The row of a client that took a block.                                   *)
LEMMA RowMoves ==
  ASSUME client \in ClientRows, NEW lock \in Ports, NEW expected \in First .. Last + 1,
         NEW got, got \in Seq(Contents), NEW outcome \in {"done", "reading"},
         client' = [client EXCEPT !.lock = lock, !.expected = expected, !.got = got, !.pc = outcome]
  PROVE  /\ client' \in ClientRows
         /\ client'.lock = lock /\ client'.expected = expected /\ client'.got = got /\ client'.pc = outcome
BY DEF ClientRows

LEMMA NextBlockKeeps ==
  ASSUME TftpInv, client.pc = "reading", NEW p \in Ports, session[p].version \in 1 .. MaxVersions, client.lock \in {0, p},
         UNCHANGED <<request, file, session>>,
         NEW block, block = <<session[p].version, client.expected>>,
         NEW outcome \in {"done", "reading"}, outcome = "done" <=> client.expected = Last,
         TakesBlock(p, block, outcome),
         NEW sent, net' = net \union sent, Answers(p, sent)
  PROVE  TftpInv'
<1>1. Whole(Extended(client.got, block), session[p].version, Held + 1) /\ Held + 1 <= request.limit
  <2>1. /\ Whole(client.got, session[p].version, Held) /\ Held \in Nat /\ request.limit \in Nat
        /\ Held <= request.limit /\ Held # request.limit
    BY KeptBlocks DEF TakesBlock
  <2>2. Held + 1 <= request.limit
    BY <2>1
  <2>3. request.base \in Nat /\ request.base + Held + 1 = client.expected
    BY ReadingIs
  <2>4. block = <<session[p].version, request.base + Held + 1>>
    BY <2>3
  <2> QED
    BY <2>1, <2>2, <2>3, <2>4, OneMore
<1>2. /\ client' \in ClientRows
      /\ client'.pc = outcome /\ client'.lock = p /\ client'.expected = client.expected + 1
      /\ client'.got = Extended(client.got, block)
  <2>1. client.expected + 1 \in First .. Last + 1
    BY ReadingIs
  <2>2. Extended(client.got, block) \in Seq(Contents)
    BY <1>1 DEF Whole
  <2>3. client' = [client EXCEPT !.lock = p, !.expected = client.expected + 1,
                                 !.got = Extended(client.got, block), !.pc = outcome]
    BY DEF TakesBlock
  <2>4. client \in ClientRows
    BY ClientFields
  <2> QED
    BY <2>1, <2>2, <2>3, <2>4, RowMoves, ZenonT(30)
<1>3. Kept'
  <2>0. /\ client.expected + 1 # First /\ (client.expected + 1) - First = Held + 1
        /\ client.expected + 1 = Last + 1 <=> client.expected = Last
    BY ReadingIs
  <2>1. client'.expected - First = Held + 1
    BY <1>2, <2>0
  <2>4. client'.pc # "oversized"
    BY <1>2
  <2>5. session[p].version # 0
    OBVIOUS
  <2>3. client'.expected = Last + 1 <=> client'.pc = "done"
    <3>1. client'.expected = Last + 1 <=> client.expected = Last
      BY <1>2, <2>0
    <3>2. client'.pc = "done" <=> client.expected = Last
      BY <1>2
    <3> QED
      BY ONLY <3>1, <3>2
  <2>2. Whole(client'.got, session[p].version, client'.expected - First) /\ client'.expected - First <= request.limit
    BY <1>1, <1>2, <2>1
  <2> QED
    BY <1>2, <2>1, <2>2, <2>3, <2>4, <2>5, KeptWhole
<1>4. First' = First /\ Last' = Last
  BY DEF First, Last
<1>5. /\ \A i \in First .. client.expected : i \in First .. client'.expected - 1
      /\ \A i \in First .. client.expected - 1 : i \in First .. client.expected
      /\ client.expected \in First .. client.expected
  BY <1>2, ReadingIs
<1>6. \A m : Acknowledged(m) => Acknowledged(m)'
  BY <1>4, <1>5 DEF Acknowledged
<1>7. \A m : m = Number(client.expected) => Acknowledged(m)'
  BY <1>4, <1>5 DEF Acknowledged
<1>8. \A y \in sent : y.type = "ACK" /\ y.port = client'.lock /\ y.port \in Ports /\ Acknowledged(y.block)'
  BY <1>2, <1>7 DEF Answers
<1> QED
  BY <1>2, <1>3, <1>6, <1>8, ClientMoves

LEMMA DataTaken ==
  ASSUME TftpInv, Blocks < 65535, client.pc = "reading", UNCHANGED <<request, file, session>>,
         NEW x \in net, Heard(x), NEW p, p = x.port, NEW block, block = x.content, NEW outcome, outcome = AfterBlock(x),
         NEW sent, sent = {Ack(x.port, x.block)}, net' = net \union sent,
         HasTooMuch(p) \/ TakesBlock(p, block, outcome)
  PROVE  TftpInv'
<1>1. /\ p \in Ports /\ session[p].version \in 1 .. MaxVersions /\ client.lock \in {0, p}
      /\ block = <<session[p].version, client.expected>>
      /\ outcome \in {"done", "reading"} /\ (outcome = "done" <=> client.expected = Last)
      /\ x.block = Number(client.expected)
  BY HeardIs
<1>2. Answers(p, sent)
  BY <1>1 DEF Ack, Packet, Answers
<1>3. session[p].version # 0
  BY <1>1
<1>4. CASE HasTooMuch(p)
  BY <1>1, <1>2, <1>3, <1>4, TooLargeKeeps
<1>5. CASE TakesBlock(p, block, outcome)
  BY <1>1, <1>2, <1>5, NextBlockKeeps
<1> QED
  BY <1>4, <1>5

LEMMA RefuseIs ==
  ASSUME NEW x, Refuse(x)
  PROVE  HasTooMuch(x.port)
BY DEF Refuse, HasTooMuch

LEMMA TakeIs ==
  ASSUME NEW x, Take(x)
  PROVE  TakesBlock(x.port, x.content, AfterBlock(x))
BY DEF Take, TakesBlock, Extended

LEMMA DataKeeps ==
  ASSUME TftpInv, Blocks < 65535, RecvData
  PROVE  TftpInv'
<1>1. client.pc = "reading" /\ UNCHANGED <<request, file, session>>
  BY DEF RecvData
<1>2. PICK x \in net : /\ Heard(x)
                       /\ net' = net \union {Ack(x.port, x.block)}
                       /\ Refuse(x) \/ Take(x)
  BY DEF RecvData, Send
<1> DEFINE p == x.port
           block == x.content
           outcome == AfterBlock(x)
           sent == {Ack(x.port, x.block)}
<1>3. p = x.port /\ block = x.content /\ outcome = AfterBlock(x) /\ sent = {Ack(x.port, x.block)}
  OBVIOUS
<1> HIDE DEF p, block, outcome, sent
<1>4. HasTooMuch(p) \/ TakesBlock(p, block, outcome)
  BY <1>2, <1>3, RefuseIs, TakeIs
<1>5. net' = net \union sent
  BY <1>2, <1>3
<1>6. Heard(x)
  BY <1>2
<1> QED
  BY <1>1, <1>3, <1>4, <1>5, <1>6, DataTaken

LEMMA GiveUpKeeps ==
  ASSUME TftpInv, RecvError \/ ClientTimeout
  PROVE  TftpInv'
<1>1. /\ client.pc = "reading" /\ client' = [client EXCEPT !.pc = "failed"] /\ UNCHANGED <<request, file, session>>
      /\ net' = net \union {} /\ First' = First /\ Last' = Last
  BY DEF RecvError, ClientTimeout, First, Last
<1>2. /\ client' \in ClientRows
      /\ client'.pc = "failed" /\ client'.lock = client.lock /\ client'.expected = client.expected /\ client'.got = client.got
  BY <1>1, ClientFields DEF ClientRows
<1>3. client.expected <= Last /\ client.expected \in Nat /\ Last \in Nat
  BY <1>1, ClientIs, TftpIs
<1>4. Kept'
  BY <1>1, <1>2, <1>3 DEF TftpInv, Kept
<1>5. \A n : Acknowledged(n) => Acknowledged(n)'
  BY <1>1, <1>2 DEF Acknowledged
<1> DEFINE sent == {}
<1>6. net' = net \union sent /\ \A x \in sent : x.type = "ACK" /\ x.port = client'.lock /\ x.port \in Ports /\ Acknowledged(x.block)'
  BY <1>1
<1>7. client.lock \in {0, client'.lock}
  BY <1>2
<1> HIDE DEF sent
<1> QED
  BY <1>1, <1>2, <1>4, <1>5, <1>6, <1>7, ClientMoves

LEMMA FileKeeps ==
  ASSUME TftpInv, file' \in 0 .. MaxVersions, UNCHANGED <<request, session, client, net>>
  PROVE  TftpInv'
<1>0. First' = First /\ Last' = Last /\ \A q, i, v : Data(q, i, v)' = Data(q, i, v)
  BY DEF First, Last, Data, Short
<1>1. TftpType' /\ SessionsAgree' /\ PacketsSent' /\ Kept'
  BY <1>0 DEF TftpInv, TftpType, ClientRows, SessionsAgree, Opened, PacketsSent, Kept
<1>2. \A n : Acknowledged(n)' = Acknowledged(n)
  BY <1>0 DEF Acknowledged
<1>3. AcksSent' /\ CompletesHeard'
  BY <1>0, <1>2 DEF TftpInv, AcksSent, CompletesHeard
<1> QED
  BY <1>1, <1>3 DEF TftpInv

LEMMA TftpStep ==
  ASSUME TftpInv, Blocks < 65535, [TftpNext]_tftpVars
  PROVE  TftpInv'
<1>1. CASE ReplaceFile
  <2>1. file' \in 0 .. MaxVersions
    BY <1>1, TftpIs DEF ReplaceFile
  <2> QED
    BY <1>1, <2>1, FileKeeps DEF ReplaceFile
<1>2. CASE UNCHANGED tftpVars
  BY <1>2, FileKeeps, TftpIs DEF tftpVars
<1> QED
  BY <1>1, <1>2, ServeKeeps, SendKeeps, AckKeeps, TimeoutKeeps, OackKeeps, DataKeeps, GiveUpKeeps
     DEF TftpNext, SessionStep

LEMMA TftpTypes ==
  ASSUME TftpInv
  PROVE  TftpTypeOK
<1>1. /\ session \in [Ports -> SessionRows] /\ file \in 0 .. MaxVersions
      /\ client.pc \in {"reading", "done", "failed", "oversized"}
      /\ client.lock \in {0} \union Ports /\ client.expected \in First .. Last + 1
  BY TftpIs, ClientIs
<1>2. ASSUME NEW p \in Ports
      PROVE  session[p] \in [pc : {"idle", "oack", "send", "wait", "done", "failed"},
                             version : 0 .. MaxVersions, pos : {0} \union First .. Last, tries : 0 .. Attempts]
  <2>1. session[p] \in SessionRows /\ session[p].pos \in {0} \union First .. Last
    BY OpenedIs
  <2> QED
    BY <2>1 DEF SessionRows
<1> QED
  BY <1>1, <1>2 DEF TftpTypeOK

LEMMA TftpInvariant ==
  ASSUME Blocks < 65535
  PROVE  TftpSpec => []TftpInv
<1>1. TftpInit => TftpInv
  BY TftpInitially
<1>2. TftpInv /\ [TftpNext]_tftpVars => TftpInv'
  BY TftpStep
<1> QED
  BY <1>1, <1>2, PTL DEF TftpSpec

(* TftpTypeOK for every file and any number of sockets: the counters of serveTFTP and of *)
(* the probe stay inside the file and the five attempts.                                 *)
THEOREM TftpTypesHold ==
  ASSUME Blocks < 65535
  PROVE  TftpSpec => []TftpTypeOK
<1>1. TftpInv => TftpTypeOK
  BY TftpTypes
<1> QED
  BY <1>1, TftpInvariant, PTL

(* DeliveredExact: a download ProbeTFTPFileWithOptions completes is one version of the   *)
(* file, whole and in order, whatever the network does and however many copies of the    *)
(* request are served, as long as no two of the modelled blocks share a 16-bit number.   *)
THEOREM DownloadsExact ==
  ASSUME Blocks < 65535
  PROVE  TftpSpec => []DeliveredExact
<1>1. ASSUME TftpInv, client.pc = "done"
      PROVE  \E v \in 1 .. MaxVersions : client.got = [j \in 1 .. Last - request.base |-> <<v, request.base + j>>]
  <2>1. /\ client.lock # 0 /\ client.expected = Last + 1
        /\ session[client.lock].version # 0
        /\ \A j \in 1 .. client.expected - First :
             client.got[j] = <<session[client.lock].version, request.base + j>>
    BY <1>1 DEF TftpInv, Kept
  <2>2. client.lock \in Ports
    BY <1>1, <2>1, ClientIs
  <2>3. session[client.lock].version \in 1 .. MaxVersions
    BY <1>1, <2>1, <2>2, OpenedIs
  <2>4. client.expected - First = Last - request.base /\ Len(client.got) = Last - request.base
    <3>1. First = request.base + 1 /\ Last \in Nat /\ request.base \in Nat
      BY <1>1, TftpIs
    <3>2. Len(client.got) = client.expected - First
      BY <1>1, ClientIs
    <3> QED
      BY <2>1, <3>1, <3>2
  <2>5. client.got = [j \in 1 .. Len(client.got) |-> client.got[j]]
    <3>1. client.got \in Seq(Contents)
      BY <1>1, ClientIs
    <3> QED
      BY <3>1
  <2>6. client.got = [j \in 1 .. Last - request.base |-> <<session[client.lock].version, request.base + j>>]
    <3>1. PICK g, n, v, b : /\ g = client.got /\ n = Last - request.base
                            /\ v = session[client.lock].version /\ b = request.base
      OBVIOUS
    <3>2. n = Len(g) /\ n = client.expected - First
      BY <2>4, <3>1
    <3>3. g = [j \in 1 .. n |-> g[j]]
      BY <2>5, <3>1, <3>2
    <3>4. \A j \in 1 .. n : g[j] = <<v, b + j>>
      BY <2>1, <3>1, <3>2
    <3>5. g = [j \in 1 .. n |-> <<v, b + j>>]
      BY <3>3, <3>4
    <3> QED
      BY <3>1, <3>5
  <2> QED
    BY <2>3, <2>6
<1>2. TftpInv => DeliveredExact
  BY <1>1 DEF DeliveredExact
<1> QED
  BY <1>2, TftpInvariant, PTL

LEMMA KeptIs ==
  ASSUME TftpInv
  PROVE  /\ client.expected = Last + 1 => client.pc = "done"
         /\ client.pc = "oversized" => Held = request.limit
         /\ client.lock # 0 => Whole(client.got, session[client.lock].version, Held)
<1>1. client.got \in Seq(Contents) /\ Len(client.got) = Held
  BY ClientIs DEF Held
<1>2. client.expected = Last + 1 => client.pc = "done"
  BY DEF TftpInv, Kept
<1>3. client.pc = "oversized" => Held = request.limit
  BY DEF TftpInv, Kept, Held
<1>4. client.lock # 0 => Whole(client.got, session[client.lock].version, Held)
  BY <1>1 DEF TftpInv, Kept, Whole, Held
<1> QED
  BY <1>2, <1>3, <1>4

LEMMA LastAcknowledged ==
  ASSUME TftpInv, Blocks < 65535, Acknowledged(Number(Last))
  PROVE  client.expected = Last + 1 \/ client.pc = "oversized"
<1>1. /\ First \in Nat /\ Last \in Nat /\ First <= Last /\ client.expected \in First .. Last + 1 /\ client.expected \in Nat
  BY TftpIs, ClientIs
<1>2. request \in Requests /\ (request.options => request.base = 0)
  BY TftpIs
<1>3. ~(Number(Last) = 0 /\ request.options)
  BY <1>2, LastIsNumbered
<1>4. CASE \E i \in First .. client.expected - 1 : Number(Last) = Number(i)
  <2>1. PICK i \in First .. client.expected - 1 : Number(Last) = Number(i)
    BY <1>4
  <2>2. i \in First .. Last /\ Last \in First .. Last /\ i <= client.expected - 1
    BY <1>1
  <2>3. i = Last
    BY <1>2, <2>1, <2>2, NumbersDiffer
  <2>4. client.expected = Last + 1
    BY <1>1, <2>2, <2>3
  <2> QED
    BY <2>4
<1> QED
  BY <1>3, <1>4 DEF Acknowledged

LEMMA FinishedIs ==
  ASSUME TftpInv, Blocks < 65535, NEW p \in Ports, session[p].pc = "done"
  PROVE  /\ client.lock = p
         /\ \/ client.pc = "done" /\ client.got[Len(client.got)][1] = session[p].version
            \/ client.pc = "oversized" /\ Len(client.got) = request.limit
<1>1. client.lock = p /\ Acknowledged(Number(Last)) /\ p # 0
  BY DEF TftpInv, CompletesHeard
<1>2. Whole(client.got, session[p].version, Held)
  BY <1>1, KeptIs
<1>3. Len(client.got) = Held
  BY <1>2 DEF Whole
<1>4. CASE client.expected = Last + 1
  <2>1. Held \in 1 .. Held
    <3>1. First \in Nat /\ Last \in Nat /\ First <= Last
      BY TftpIs
    <3> QED
      BY <1>4, <3>1 DEF Held
  <2>2. client.got[Held] = <<session[p].version, request.base + Held>>
    BY <1>2, <2>1 DEF Whole
  <2>3. client.got[Held][1] = session[p].version
    BY <2>2
  <2>4. client.pc = "done"
    BY <1>4, KeptIs
  <2> QED
    BY <1>1, <1>3, <2>3, <2>4
<1>5. CASE client.pc = "oversized"
  <2>1. Len(client.got) = request.limit
    BY <1>3, <1>5, KeptIs
  <2> QED
    BY <1>1, <1>5, <2>1
<1> QED
  BY <1>1, <1>4, <1>5, LastAcknowledged

(* FinishedSessionDelivered: when serveTFTPRequest logs a transfer as complete, the      *)
(* probe has kept the whole file it sent, or stopped at its limit: no acknowledgement of *)
(* an earlier block, of the options or of another socket can stand for the last one.     *)
THEOREM TransfersDelivered ==
  ASSUME Blocks < 65535
  PROVE  TftpSpec => []FinishedSessionDelivered
<1>1. TftpInv => FinishedSessionDelivered
  BY FinishedIs DEF FinishedSessionDelivered
<1> QED
  BY <1>1, TftpInvariant, PTL

-----------------------------------------------------------------------------
(***************************************************************************)
(* The scripts and metadata.                                               *)
(***************************************************************************)
ServerRows == [mac : Macs, discovered : 0 .. 1]
DeploymentRows == [server : Nat, active : BOOLEAN]
TokenRows == [value : Nat, server : Nat, dep : Nat, expires : Nat, used : BOOLEAN]
HandlerRows == [pc : {"idle", "find", "create", "insert", "deployment", "token", "new", "rotate", "record", "answer"},
                mac : Macs \union {"none"}, source : BootSources \union {"none"}, wants : Wants \union {"none"},
                server : Nat, dep : Nat, row : Nat, value : Nat, expires : Nat]

(* The rows of the database refer to each other.                            *)
Stored ==
  /\ clock \in 0 .. MaxTime /\ issued \in Nat
  /\ servers \in Seq(ServerRows) /\ deps \in Seq(DeploymentRows) /\ tokens \in Seq(TokenRows)
  /\ \A s, t \in DOMAIN servers : servers[s].mac = servers[t].mac => s = t
  /\ \A d \in DOMAIN deps : deps[d].server \in DOMAIN servers
  /\ \A i \in DOMAIN tokens :
       /\ tokens[i].server \in DOMAIN servers /\ tokens[i].dep \in {0} \union DOMAIN deps
       /\ tokens[i].dep # 0 => tokens[i].server = deps[tokens[i].dep].server
       /\ tokens[i].value \in 1 .. issued /\ tokens[i].expires \in TokenLife .. MaxTime + TokenLife

(* A deployment has a token from the transaction that made it, and no other. *)
OneTokenEach ==
  /\ \A d \in DOMAIN deps : RowsOf(deps[d].server, d) # {}
  /\ \A i, j \in DOMAIN tokens : tokens[i].dep = tokens[j].dep /\ tokens[i].dep # 0 => i = j

(* What was given out is in its row still, or has expired, or was lost to an *)
(* overlapping rotation.                                                     *)
Works(t) ==
  /\ t.expires \in Nat
  /\ t.row \in DOMAIN tokens /\ tokens[t.row].server = t.server /\ tokens[t.row].dep = t.dep
  /\ \/ tokens[t.row].value = t.value /\ tokens[t.row].expires = t.expires
     \/ clock >= t.expires \/ t.row \in raced

(* What a goroutine has read of the rows, and has not looked at since.      *)
Found(r) ==
  /\ r.pc \in {"deployment", "token", "new", "rotate", "record", "answer"} => r.server \in DOMAIN servers
  /\ r.dep \in {0} \union DOMAIN deps /\ (r.dep # 0 => deps[r.dep].server = r.server)
  /\ r.row \in {0} \union DOMAIN tokens
  /\ r.pc = "find" /\ r.wants \notin Scripted => ServersOf(r.mac) # {}
  /\ r.pc = "rotate" => /\ r.row \in DOMAIN tokens /\ tokens[r.row].server = r.server /\ tokens[r.row].dep = r.dep
                        /\ clock >= tokens[r.row].expires \/ r.row \in raced
  /\ r.pc = "answer" /\ r.wants = "userdata" => Works(r)
  /\ r.pc = "record" /\ r.wants = "script" /\ r.dep # 0 => Works(r)

(* What it does next follows from what was asked.                           *)
Asked(r) ==
  /\ r \in HandlerRows
  /\ r.pc \in {"find", "create", "insert", "deployment", "new"} => r.dep = 0
  /\ r.pc = "find" => r.mac \in Macs
  /\ r.pc \in {"create", "insert", "record"} => r.wants \in Scripted
  /\ r.wants \in Scripted => r.mac \in Macs /\ r.source \in BootSources
  /\ r.pc \in {"find", "deployment"} => r.wants \in {"event", "script", "userdata", "field"}
  /\ r.pc \in {"token", "new", "rotate"} => r.wants \in {"event", "script", "userdata"}

Handling ==
  /\ DOMAIN handler = Handlers
  /\ \A k \in Handlers : Asked(handler[k]) /\ Found(handler[k])

Marked ==
  /\ raced \subseteq DOMAIN tokens
  /\ bootEvents \subseteq [mac : Macs, source : BootSources, server : DOMAIN servers, dep : {0} \union DOMAIN deps]
  /\ accesses \subseteq [server : DOMAIN servers, dep : {0} \union DOMAIN deps]
  /\ \A t \in handed : Works(t)

Around ==
  /\ mode \in Modes /\ network \in BOOLEAN /\ hits \in 0 .. MaxRequests

BootInv == Stored /\ OneTokenEach /\ Handling /\ Marked /\ Around

(* What a row is once written stays, but for a token past its life, and     *)
(* rotations that overlap are remembered.                                   *)
ServersGrown == \A s \in DOMAIN servers : s \in DOMAIN servers' /\ servers'[s].mac = servers[s].mac
DeploymentsGrown == \A d \in DOMAIN deps : d \in DOMAIN deps' /\ deps'[d].server = deps[d].server
TokensGrown ==
  \A i \in DOMAIN tokens :
    /\ i \in DOMAIN tokens' /\ tokens'[i].server = tokens[i].server /\ tokens'[i].dep = tokens[i].dep
    /\ \/ tokens'[i].value = tokens[i].value /\ tokens'[i].expires = tokens[i].expires
       \/ clock >= tokens[i].expires \/ i \in raced'
WorldGrown ==
  /\ clock \in Nat /\ clock' \in Nat /\ clock <= clock'
  /\ raced \subseteq raced'
Grown == ServersGrown /\ DeploymentsGrown /\ TokensGrown /\ WorldGrown
KeepsRow(r) == r.pc = "rotate" => r.row \in raced' \/ tokens'[r.row].expires = tokens[r.row].expires

LEMMA LeastIs ==
  ASSUME NEW S, S \subseteq Nat, S # {}
  PROVE  Least(S) \in S
<1> DEFINE R == {pair \in Nat \X Nat : pair[1] < pair[2]}
<1>1. IsWellFoundedOn(R, Nat)
  BY NatLessThanWellFounded DEF OpToRel
<1>2. PICK i \in S : \A j \in S : ~(<<j, i>> \in R)
  <2> HIDE DEF R
  <2> QED
    BY <1>1, WFMin
<1>3. ASSUME NEW j \in S PROVE i <= j
  <2>1. i \in Nat /\ j \in Nat
    OBVIOUS
  <2>2. j < i => <<j, i>> \in R
    BY <2>1
  <2> HIDE DEF R
  <2> QED
    BY <1>2, <2>1, <2>2
<1> QED
  BY <1>3 DEF Least

LEMMA AppendRow ==
  ASSUME NEW S, NEW s \in Seq(S), NEW e \in S
  PROVE  /\ Append(s, e) \in Seq(S) /\ Len(Append(s, e)) = Len(s) + 1
         /\ DOMAIN Append(s, e) = DOMAIN s \union {Len(s) + 1} /\ Len(s) + 1 \notin DOMAIN s
         /\ \A i \in DOMAIN s : Append(s, e)[i] = s[i]
         /\ Append(s, e)[Len(s) + 1] = e
OBVIOUS

LEMMA ReplaceRow ==
  ASSUME NEW S, NEW s \in Seq(S), NEW i \in DOMAIN s, NEW e \in S
  PROVE  LET t == [s EXCEPT ![i] = e] IN
         /\ t \in Seq(S) /\ Len(t) = Len(s) /\ DOMAIN t = DOMAIN s /\ t[i] = e
         /\ \A j \in DOMAIN s : j # i => t[j] = s[j]
OBVIOUS

LEMMA RowsAre ==
  ASSUME NEW S, NEW s \in Seq(S)
  PROVE  /\ DOMAIN s \subseteq Nat /\ 0 \notin DOMAIN s /\ \A i \in DOMAIN s : s[i] \in S
         /\ Len(s) \in Nat /\ Len(s) + 1 # 0
OBVIOUS

LEMMA StoredIs ==
  ASSUME Stored
  PROVE  /\ DOMAIN servers \subseteq Nat /\ 0 \notin DOMAIN servers /\ DOMAIN deps \subseteq Nat /\ 0 \notin DOMAIN deps
         /\ DOMAIN tokens \subseteq Nat /\ 0 \notin DOMAIN tokens
         /\ \A s \in DOMAIN servers : servers[s] \in ServerRows
         /\ \A d \in DOMAIN deps : deps[d] \in DeploymentRows /\ deps[d].server \in DOMAIN servers
         /\ \A i \in DOMAIN tokens : tokens[i] \in TokenRows /\ tokens[i].expires \in Nat
         /\ clock \in Nat /\ issued \in Nat
<1>1. servers \in Seq(ServerRows) /\ deps \in Seq(DeploymentRows) /\ tokens \in Seq(TokenRows)
      /\ clock \in 0 .. MaxTime /\ issued \in Nat /\ \A d \in DOMAIN deps : deps[d].server \in DOMAIN servers
  BY DEF Stored
<1>2. \A i \in DOMAIN tokens : tokens[i] \in TokenRows
  BY <1>1, RowsAre
<1>3. \A i \in DOMAIN tokens : tokens[i].expires \in Nat
  BY <1>2 DEF TokenRows
<1>4. clock \in Nat
  BY <1>1
<1> QED
  BY <1>1, <1>2, <1>3, <1>4, RowsAre

(***************************************************************************)
(* What stays true of what was read and of what was given out.             *)
(***************************************************************************)
LEMMA WorksOn ==
  ASSUME Stored, Grown, NEW t, Works(t)
  PROVE  Works(t)'
<1>1. t.row \in DOMAIN tokens /\ t.expires \in Nat /\ tokens[t.row].expires \in Nat /\ tokens[t.row].server = t.server
      /\ tokens[t.row].dep = t.dep
  BY StoredIs DEF Works
<1>2. /\ t.row \in DOMAIN tokens' /\ tokens'[t.row].server = t.server /\ tokens'[t.row].dep = t.dep
      /\ \/ tokens'[t.row].value = tokens[t.row].value /\ tokens'[t.row].expires = tokens[t.row].expires
         \/ clock >= tokens[t.row].expires \/ t.row \in raced'
  BY <1>1 DEF Grown, TokensGrown
<1>3. /\ clock \in Nat /\ clock' \in Nat /\ clock <= clock' /\ raced \subseteq raced'
  BY DEF Grown, WorldGrown
<1>4. \/ tokens[t.row].value = t.value /\ tokens[t.row].expires = t.expires
      \/ clock >= t.expires \/ t.row \in raced
  BY DEF Works
<1> QED
  BY <1>1, <1>2, <1>3, <1>4 DEF Works

LEMMA FoundOn ==
  ASSUME Stored, Grown, NEW r, Found(r), KeepsRow(r)
  PROVE  Found(r)'
<1>1. /\ r.pc \in {"deployment", "token", "new", "rotate", "record", "answer"} => r.server \in DOMAIN servers'
      /\ r.dep \in {0} \union DOMAIN deps' /\ (r.dep # 0 => deps'[r.dep].server = r.server)
      /\ r.row \in {0} \union DOMAIN tokens'
  BY DEF Found, Grown, ServersGrown, DeploymentsGrown, TokensGrown
<1>2. r.pc = "find" /\ r.wants \notin Scripted => ServersOf(r.mac)' # {}
  BY DEF Found, Grown, ServersGrown, ServersOf
<1>3. ASSUME r.pc = "rotate"
      PROVE  /\ r.row \in DOMAIN tokens' /\ tokens'[r.row].server = r.server /\ tokens'[r.row].dep = r.dep
             /\ clock' >= tokens'[r.row].expires \/ r.row \in raced'
  <2>1. /\ r.row \in DOMAIN tokens /\ tokens[r.row].server = r.server /\ tokens[r.row].dep = r.dep
        /\ clock >= tokens[r.row].expires \/ r.row \in raced
    BY <1>3 DEF Found
  <2>2. /\ r.row \in DOMAIN tokens' /\ tokens'[r.row].server = r.server /\ tokens'[r.row].dep = r.dep
    BY <2>1 DEF Grown, TokensGrown
  <2>3. r.row \in raced' \/ tokens'[r.row].expires = tokens[r.row].expires
    BY <1>3 DEF KeepsRow
  <2>4. clock \in Nat /\ clock' \in Nat /\ clock <= clock' /\ raced \subseteq raced' /\ tokens[r.row].expires \in Nat
    BY <2>1, StoredIs DEF Grown, WorldGrown
  <2> QED
    BY <2>1, <2>2, <2>3, <2>4
<1>4. Works(r) => Works(r)'
  BY WorksOn
<1> QED
  BY <1>1, <1>2, <1>3, <1>4 DEF Found

LEMMA HandlerMoves ==
  ASSUME Stored, Handling, Grown, NEW k \in Handlers, NEW c, handler' = [handler EXCEPT ![k] = c],
         Asked(c), Found(c)', \A j \in Handlers \ {k} : KeepsRow(handler[j])
  PROVE  Handling'
<1>1. DOMAIN handler' = Handlers /\ handler'[k] = c /\ \A j \in Handlers \ {k} : handler'[j] = handler[j]
  BY DEF Handling
<1>2. ASSUME NEW j \in Handlers \ {k} PROVE (Asked(handler[j]) /\ Found(handler[j]))'
  <2>1. PICK r : r = handler[j]
    OBVIOUS
  <2>2. Asked(r) /\ Found(r) /\ KeepsRow(r)
    BY <2>1 DEF Handling
  <2>3. Asked(r) /\ Found(r)'
    BY <2>2, FoundOn
  <2>4. handler'[j] = r
    BY <1>1, <2>1
  <2> QED
    BY <2>3, <2>4 DEF Asked, Found, Works
<1>3. (Asked(handler[k]) /\ Found(handler[k]))'
  BY <1>1 DEF Asked, Found, Works
<1> QED
  BY <1>1, <1>2, <1>3 DEF Handling

LEMMA HandlersStay ==
  ASSUME Stored, Handling, Grown, handler' = handler, \A j \in Handlers : KeepsRow(handler[j])
  PROVE  Handling'
<1>2. ASSUME NEW j \in Handlers PROVE (Asked(handler[j]) /\ Found(handler[j]))'
  <2>1. PICK r : r = handler[j]
    OBVIOUS
  <2>2. Asked(r) /\ Found(r) /\ KeepsRow(r)
    BY <2>1 DEF Handling
  <2>3. Asked(r) /\ Found(r)'
    BY <2>2, FoundOn
  <2> QED
    BY <2>1, <2>3 DEF Asked, Found, Works
<1> QED
  BY <1>2 DEF Handling

EventRows == [mac : Macs, source : BootSources, server : DOMAIN servers, dep : {0} \union DOMAIN deps]
AccessRows == [server : DOMAIN servers, dep : {0} \union DOMAIN deps]

(* The traces only grow, by what the rows bear out.                         *)
LEMMA MarksMove ==
  ASSUME Stored, Marked, Grown, raced' \subseteq DOMAIN tokens',
         NEW events, bootEvents' = bootEvents \union events, \A e \in events : e \in EventRows',
         NEW logged, accesses' = accesses \union logged, \A a \in logged : a \in AccessRows',
         NEW given, handed' = handed \union given, \A t \in given : Works(t)'
  PROVE  Marked'
<1>1. DOMAIN servers \subseteq DOMAIN servers' /\ DOMAIN deps \subseteq DOMAIN deps'
  BY DEF Grown, ServersGrown, DeploymentsGrown
<1>2. bootEvents \subseteq EventRows' /\ accesses \subseteq AccessRows'
  BY <1>1 DEF Marked, EventRows, AccessRows
<1>4. \A t \in handed : Works(t)'
  BY WorksOn DEF Marked
<1>5. /\ bootEvents' \subseteq EventRows' /\ accesses' \subseteq AccessRows'
      /\ \A t \in handed' : Works(t)'
  BY <1>2, <1>4
<1> QED
  BY <1>5 DEF Marked, EventRows, AccessRows

LEMMA MarksStay ==
  ASSUME Stored, Marked, Grown, raced' \subseteq DOMAIN tokens', UNCHANGED <<bootEvents, accesses, handed>>
  PROVE  Marked'
<1> DEFINE nothing == {}
<1>1. /\ bootEvents' = bootEvents \union nothing /\ accesses' = accesses \union nothing /\ handed' = handed \union nothing
      /\ \A x \in nothing : x \in EventRows' /\ x \in AccessRows' /\ Works(x)'
  OBVIOUS
<1> HIDE DEF nothing
<1> QED
  BY <1>1, MarksMove

(***************************************************************************)
(* The tables.                                                             *)
(***************************************************************************)
LEMMA BootBounds == MaxTime \in Nat /\ MaxRequests \in Nat /\ TokenLife \in Nat /\ TokenLife # 0
BY BootBoundsAssumption

LEMMA RowsStay ==
  ASSUME Stored, OneTokenEach, UNCHANGED rows, clock' \in 0 .. MaxTime
  PROVE  /\ Stored' /\ OneTokenEach' /\ ServersGrown /\ DeploymentsGrown /\ TokensGrown
         /\ \A r : KeepsRow(r)
<1>1. UNCHANGED <<servers, deps, tokens, issued>>
  BY DEF rows
<1>2. Stored'
  BY <1>1 DEF Stored
<1>3. OneTokenEach'
  BY <1>1 DEF OneTokenEach, RowsOf
<1>4. ServersGrown /\ DeploymentsGrown /\ TokensGrown /\ \A r : KeepsRow(r)
  BY <1>1 DEF ServersGrown, DeploymentsGrown, TokensGrown, KeepsRow
<1> QED
  BY <1>2, <1>3, <1>4

(* A token is rotated or marked as used, or rotated with its deployment put  *)
(* back to work: the row is still of the same server and deployment.        *)
LEMMA RowsReplaced ==
  ASSUME Stored, OneTokenEach, UNCHANGED <<servers, clock>>, NEW i \in DOMAIN tokens, NEW row \in TokenRows,
         deps' \in Seq(DeploymentRows), DOMAIN deps' = DOMAIN deps, \A d \in DOMAIN deps : deps'[d].server = deps[d].server,
         tokens' = [tokens EXCEPT ![i] = row], row.server = tokens[i].server, row.dep = tokens[i].dep,
         issued' \in Nat, issued <= issued', row.value \in 1 .. issued', row.expires \in TokenLife .. MaxTime + TokenLife,
         \/ row.value = tokens[i].value /\ row.expires = tokens[i].expires
         \/ clock >= tokens[i].expires \/ i \in raced'
  PROVE  Stored' /\ OneTokenEach' /\ ServersGrown /\ DeploymentsGrown /\ TokensGrown
<1>1. tokens \in Seq(TokenRows) /\ issued \in Nat
  BY DEF Stored
<1>2. /\ tokens' \in Seq(TokenRows) /\ DOMAIN tokens' = DOMAIN tokens /\ tokens'[i] = row
      /\ \A j \in DOMAIN tokens : j # i => tokens'[j] = tokens[j]
  BY <1>1, ReplaceRow
<1>3. \A j \in DOMAIN tokens : tokens'[j].server = tokens[j].server /\ tokens'[j].dep = tokens[j].dep
  BY <1>2
<1>4. Stored'
  <2>1. ASSUME NEW j \in DOMAIN tokens'
        PROVE  /\ tokens'[j].server \in DOMAIN servers /\ tokens'[j].dep \in {0} \union DOMAIN deps'
               /\ tokens'[j].dep # 0 => tokens'[j].server = deps'[tokens'[j].dep].server
    <3>1. PICK s, d : s = tokens[j].server /\ d = tokens[j].dep
      OBVIOUS
    <3>2. tokens'[j].server = s /\ tokens'[j].dep = d
      BY <1>2, <1>3, <3>1
    <3>3. s \in DOMAIN servers /\ d \in {0} \union DOMAIN deps /\ (d # 0 => s = deps[d].server)
      BY <1>2, <3>1 DEF Stored
    <3>4. d # 0 => d \in DOMAIN deps /\ deps'[d].server = s
      BY <3>3
    <3> QED
      BY <3>2, <3>3, <3>4
  <2>2. ASSUME NEW j \in DOMAIN tokens'
        PROVE  tokens'[j].value \in 1 .. issued' /\ tokens'[j].expires \in TokenLife .. MaxTime + TokenLife
    <3>1. CASE j = i
      BY <1>2, <3>1
    <3>2. CASE j # i
      <4>1. tokens'[j] = tokens[j] /\ tokens[j].value \in 1 .. issued /\ tokens[j].expires \in TokenLife .. MaxTime + TokenLife
        BY <1>2, <3>2 DEF Stored
      <4> QED
        BY <1>1, <4>1
    <3> QED
      BY <3>1, <3>2
  <2>3. \A d \in DOMAIN deps' : deps'[d].server \in DOMAIN servers
    BY DEF Stored
  <2> QED
    BY <1>2, <2>1, <2>2, <2>3 DEF Stored
<1>5. OneTokenEach'
  <2>1. ASSUME NEW d \in DOMAIN deps' PROVE \E j \in DOMAIN tokens' : tokens'[j].server = deps'[d].server /\ tokens'[j].dep = d
    <3>1. d \in DOMAIN deps /\ deps'[d].server = deps[d].server
      OBVIOUS
    <3>2. PICK j \in DOMAIN tokens : tokens[j].server = deps[d].server /\ tokens[j].dep = d
      BY <3>1 DEF OneTokenEach, RowsOf
    <3> QED
      BY <1>2, <1>3, <3>1, <3>2
  <2>2. \A j, n \in DOMAIN tokens' : tokens'[j].dep = tokens'[n].dep /\ tokens'[j].dep # 0 => j = n
    BY <1>2, <1>3 DEF OneTokenEach
  <2> QED
    BY <2>1, <2>2 DEF OneTokenEach, RowsOf
<1>6. ServersGrown /\ DeploymentsGrown
  BY DEF ServersGrown, DeploymentsGrown
<1>7. TokensGrown
  BY <1>2, <1>3 DEF TokensGrown
<1> QED
  BY <1>4, <1>5, <1>6, <1>7

LEMMA TokenReplaced ==
  ASSUME Stored, OneTokenEach, UNCHANGED <<servers, deps, clock>>, NEW i \in DOMAIN tokens, NEW row \in TokenRows,
         tokens' = [tokens EXCEPT ![i] = row], row.server = tokens[i].server, row.dep = tokens[i].dep,
         issued' \in Nat, issued <= issued', row.value \in 1 .. issued', row.expires \in TokenLife .. MaxTime + TokenLife,
         \/ row.value = tokens[i].value /\ row.expires = tokens[i].expires
         \/ clock >= tokens[i].expires \/ i \in raced'
  PROVE  Stored' /\ OneTokenEach' /\ ServersGrown /\ DeploymentsGrown /\ TokensGrown
<1>1. deps' \in Seq(DeploymentRows) /\ deps' = deps
  BY DEF Stored
<1> QED
  BY <1>1, RowsReplaced

LEMMA FreshIs ==
  ASSUME Stored, NEW s \in Nat, NEW d \in Nat
  PROVE  LET row == Fresh(s, d) IN
         /\ row \in TokenRows /\ row.server = s /\ row.dep = d /\ row.value = issued + 1 /\ row.value \in 1 .. issued + 1
         /\ row.expires = clock + TokenLife /\ row.expires \in TokenLife .. MaxTime + TokenLife /\ row.expires \in Nat
         /\ issued + 1 \in Nat /\ issued <= issued + 1 /\ row.value \in Nat
<1>1. issued \in Nat /\ clock \in 0 .. MaxTime /\ MaxTime \in Nat /\ TokenLife \in Nat
  BY BootBounds DEF Stored
<1>2. /\ issued + 1 \in 1 .. issued + 1 /\ clock + TokenLife \in TokenLife .. MaxTime + TokenLife
      /\ clock + TokenLife \in Nat /\ issued + 1 \in Nat /\ issued <= issued + 1
  BY <1>1
<1> QED
  BY <1>2 DEF Fresh, TokenRows

(* A token of a server without a deployment is inserted.                    *)
LEMMA TokenAdded ==
  ASSUME Stored, OneTokenEach, UNCHANGED <<servers, deps, clock>>, NEW s \in DOMAIN servers,
         tokens' = Append(tokens, Fresh(s, 0)), issued' = issued + 1
  PROVE  /\ Stored' /\ OneTokenEach' /\ ServersGrown /\ DeploymentsGrown /\ TokensGrown
         /\ Len(tokens') \in DOMAIN tokens' /\ tokens'[Len(tokens')] = Fresh(s, 0)
         /\ \A i \in DOMAIN tokens : tokens'[i] = tokens[i]
<1> DEFINE row == Fresh(s, 0)
<1>1. tokens \in Seq(TokenRows) /\ issued \in Nat /\ s \in Nat /\ 0 \in Nat
  BY StoredIs DEF Stored
<1>2. /\ row \in TokenRows /\ row.server = s /\ row.dep = 0 /\ row.value \in 1 .. issued'
      /\ row.expires \in TokenLife .. MaxTime + TokenLife /\ issued' \in Nat /\ issued <= issued'
  BY <1>1, FreshIs
<1> HIDE DEF row
<1>3. /\ tokens' \in Seq(TokenRows) /\ Len(tokens') = Len(tokens) + 1
      /\ DOMAIN tokens' = DOMAIN tokens \union {Len(tokens) + 1} /\ Len(tokens) + 1 \notin DOMAIN tokens
      /\ \A i \in DOMAIN tokens : tokens'[i] = tokens[i]
      /\ tokens'[Len(tokens) + 1] = row
  BY <1>1, <1>2, AppendRow DEF row
<1>4. Stored'
  <2>1. ASSUME NEW j \in DOMAIN tokens'
        PROVE  /\ tokens'[j].server \in DOMAIN servers /\ tokens'[j].dep \in {0} \union DOMAIN deps
               /\ tokens'[j].dep # 0 => tokens'[j].server = deps[tokens'[j].dep].server
               /\ tokens'[j].value \in 1 .. issued' /\ tokens'[j].expires \in TokenLife .. MaxTime + TokenLife
    <3>1. CASE j = Len(tokens) + 1
      BY <1>2, <1>3, <3>1
    <3>2. CASE j \in DOMAIN tokens
      <4>1. /\ tokens'[j] = tokens[j]
            /\ tokens[j].server \in DOMAIN servers /\ tokens[j].dep \in {0} \union DOMAIN deps
            /\ tokens[j].dep # 0 => tokens[j].server = deps[tokens[j].dep].server
            /\ tokens[j].value \in 1 .. issued /\ tokens[j].expires \in TokenLife .. MaxTime + TokenLife
        BY <1>3, <3>2 DEF Stored
      <4>2. tokens[j].value \in 1 .. issued'
        BY <1>1, <1>2, <4>1
      <4> QED
        BY <4>1, <4>2
    <3> QED
      BY <1>3, <3>1, <3>2
  <2> QED
    BY <1>2, <1>3, <2>1 DEF Stored
<1>5. OneTokenEach'
  <2>1. \A d \in DOMAIN deps : RowsOf(deps[d].server, d)' # {}
    BY <1>3 DEF OneTokenEach, RowsOf
  <2>2. ASSUME NEW i \in DOMAIN tokens', NEW j \in DOMAIN tokens', tokens'[i].dep = tokens'[j].dep, tokens'[i].dep # 0
        PROVE  i = j
    <3>1. i \in DOMAIN tokens /\ j \in DOMAIN tokens
      BY <1>2, <1>3, <2>2
    <3> QED
      BY <1>3, <2>2, <3>1 DEF OneTokenEach
  <2> QED
    BY <2>1, <2>2 DEF OneTokenEach, RowsOf
<1>6. ServersGrown /\ DeploymentsGrown
  BY DEF ServersGrown, DeploymentsGrown
<1>7. TokensGrown
  BY <1>3 DEF TokensGrown
<1> QED
  BY <1>3, <1>4, <1>5, <1>6, <1>7 DEF row

LEMMA ServerAdded ==
  ASSUME Stored, OneTokenEach, UNCHANGED <<deps, tokens, issued, clock>>, NEW row \in ServerRows, ServersOf(row.mac) = {},
         servers' = Append(servers, row)
  PROVE  /\ Stored' /\ OneTokenEach' /\ ServersGrown /\ DeploymentsGrown /\ TokensGrown
         /\ Len(servers') \in DOMAIN servers'
<1>1. servers \in Seq(ServerRows)
  BY DEF Stored
<1>2. /\ servers' \in Seq(ServerRows) /\ Len(servers') = Len(servers) + 1
      /\ DOMAIN servers' = DOMAIN servers \union {Len(servers) + 1}
      /\ \A i \in DOMAIN servers : servers'[i] = servers[i]
      /\ servers'[Len(servers) + 1] = row
  BY <1>1, AppendRow
<1>3. \A i \in DOMAIN servers : servers[i].mac # row.mac
  BY DEF ServersOf
<1>4. \A s, t \in DOMAIN servers' : servers'[s].mac = servers'[t].mac => s = t
  BY <1>2, <1>3 DEF Stored
<1>5. Stored'
  BY <1>2, <1>4 DEF Stored
<1>6. OneTokenEach'
  BY DEF OneTokenEach, RowsOf
<1>7. ServersGrown /\ DeploymentsGrown /\ TokensGrown
  BY <1>2 DEF ServersGrown, DeploymentsGrown, TokensGrown
<1> QED
  BY <1>2, <1>5, <1>6, <1>7

LEMMA ServerMarked ==
  ASSUME Stored, OneTokenEach, UNCHANGED <<deps, tokens, issued, clock>>, NEW s \in DOMAIN servers, NEW row \in ServerRows,
         row.mac = servers[s].mac, servers' = [servers EXCEPT ![s] = row]
  PROVE  Stored' /\ OneTokenEach' /\ ServersGrown /\ DeploymentsGrown /\ TokensGrown
<1>1. servers \in Seq(ServerRows)
  BY DEF Stored
<1>2. /\ servers' \in Seq(ServerRows) /\ DOMAIN servers' = DOMAIN servers
      /\ servers'[s] = row /\ \A j \in DOMAIN servers : j # s => servers'[j] = servers[j]
  BY <1>1, ReplaceRow
<1>3. \A j \in DOMAIN servers : servers'[j].mac = servers[j].mac
  BY <1>2
<1>4. Stored'
  BY <1>2, <1>3 DEF Stored
<1>5. OneTokenEach'
  BY DEF OneTokenEach, RowsOf
<1>6. ServersGrown /\ DeploymentsGrown /\ TokensGrown
  BY <1>2, <1>3 DEF ServersGrown, DeploymentsGrown, TokensGrown
<1> QED
  BY <1>4, <1>5, <1>6

LEMMA DeploymentMarked ==
  ASSUME Stored, OneTokenEach, UNCHANGED <<servers, tokens, issued, clock>>, NEW d \in DOMAIN deps, NEW row \in DeploymentRows,
         row.server = deps[d].server, deps' = [deps EXCEPT ![d] = row]
  PROVE  Stored' /\ OneTokenEach' /\ ServersGrown /\ DeploymentsGrown /\ TokensGrown
<1>1. deps \in Seq(DeploymentRows)
  BY DEF Stored
<1>2. /\ deps' \in Seq(DeploymentRows) /\ DOMAIN deps' = DOMAIN deps
      /\ deps'[d] = row /\ \A j \in DOMAIN deps : j # d => deps'[j] = deps[j]
  BY <1>1, ReplaceRow
<1>3. \A j \in DOMAIN deps : deps'[j].server = deps[j].server
  BY <1>2
<1>4. Stored'
  BY <1>2, <1>3 DEF Stored
<1>5. OneTokenEach'
  BY <1>2, <1>3 DEF OneTokenEach, RowsOf
<1>6. ServersGrown /\ DeploymentsGrown /\ TokensGrown
  BY <1>2, <1>3 DEF ServersGrown, DeploymentsGrown, TokensGrown
<1> QED
  BY <1>4, <1>5, <1>6

(* A deployment is created with its token.                                  *)
LEMMA DeploymentAdded ==
  ASSUME Stored, OneTokenEach, UNCHANGED <<servers, clock>>, NEW s \in DOMAIN servers,
         deps' = Append(deps, [server |-> s, active |-> TRUE]),
         tokens' = Append(tokens, Fresh(s, Len(deps'))), issued' = issued + 1
  PROVE  /\ Stored' /\ OneTokenEach' /\ ServersGrown /\ DeploymentsGrown /\ TokensGrown
         /\ \A i \in DOMAIN tokens : tokens'[i] = tokens[i]
<1> DEFINE d == Len(deps) + 1
           dep == [server |-> s, active |-> TRUE]
           row == Fresh(s, d)
           n == Len(tokens) + 1
<1>1. /\ tokens \in Seq(TokenRows) /\ deps \in Seq(DeploymentRows) /\ issued \in Nat /\ s \in Nat
      /\ d \in Nat /\ d # 0
  <2>1. tokens \in Seq(TokenRows) /\ deps \in Seq(DeploymentRows) /\ issued \in Nat
    BY DEF Stored
  <2> QED
    BY <2>1, StoredIs, RowsAre
<1>2. dep \in DeploymentRows /\ dep.server = s
  BY <1>1 DEF DeploymentRows
<1> HIDE DEF dep
<1>3. /\ deps' \in Seq(DeploymentRows) /\ Len(deps') = d /\ DOMAIN deps' = DOMAIN deps \union {d} /\ d \notin DOMAIN deps
      /\ (\A i \in DOMAIN deps : deps'[i] = deps[i]) /\ deps'[d] = dep
  BY <1>1, <1>2, AppendRow DEF dep
<1>4. /\ row \in TokenRows /\ row.server = s /\ row.dep = d /\ row.value \in 1 .. issued'
      /\ row.expires \in TokenLife .. MaxTime + TokenLife /\ issued' \in Nat /\ issued <= issued'
  BY <1>1, FreshIs
<1>5. tokens' = Append(tokens, row)
  BY <1>3
<1> HIDE DEF row, d
<1>6. /\ tokens' \in Seq(TokenRows) /\ DOMAIN tokens' = DOMAIN tokens \union {n} /\ n \notin DOMAIN tokens
      /\ (\A i \in DOMAIN tokens : tokens'[i] = tokens[i]) /\ tokens'[n] = row
  BY <1>1, <1>4, <1>5, AppendRow
<1> HIDE DEF n
<1>7. \A i \in DOMAIN tokens : tokens[i].dep # d
  BY <1>1, <1>3 DEF Stored
<1>8. Stored'
  <2>1. ASSUME NEW j \in DOMAIN tokens'
        PROVE  /\ tokens'[j].server \in DOMAIN servers' /\ tokens'[j].dep \in {0} \union DOMAIN deps'
               /\ tokens'[j].dep # 0 => tokens'[j].server = deps'[tokens'[j].dep].server
               /\ tokens'[j].value \in 1 .. issued' /\ tokens'[j].expires \in TokenLife .. MaxTime + TokenLife
    <3>1. CASE j = n
      BY <1>2, <1>3, <1>4, <1>6, <3>1
    <3>2. CASE j \in DOMAIN tokens
      <4>1. /\ tokens'[j] = tokens[j]
            /\ tokens[j].server \in DOMAIN servers /\ tokens[j].dep \in {0} \union DOMAIN deps
            /\ tokens[j].dep # 0 => tokens[j].server = deps[tokens[j].dep].server
            /\ tokens[j].value \in 1 .. issued /\ tokens[j].expires \in TokenLife .. MaxTime + TokenLife
        BY <1>6, <3>2 DEF Stored
      <4>2. tokens[j].value \in 1 .. issued'
        BY <1>1, <1>4, <4>1
      <4>3. tokens[j].dep \in {0} \union DOMAIN deps' /\ (tokens[j].dep # 0 => tokens[j].server = deps'[tokens[j].dep].server)
        BY <1>3, <4>1
      <4> QED
        BY <4>1, <4>2, <4>3
    <3> QED
      BY <1>6, <3>1, <3>2
  <2>2. \A e \in DOMAIN deps' : deps'[e].server \in DOMAIN servers
    BY <1>2, <1>3 DEF Stored
  <2> QED
    BY <1>3, <1>4, <1>6, <2>1, <2>2 DEF Stored
<1>9. OneTokenEach'
  <2>1. ASSUME NEW e \in DOMAIN deps' PROVE \E i \in DOMAIN tokens' : tokens'[i].server = deps'[e].server /\ tokens'[i].dep = e
    <3>1. CASE e = d
      BY <1>2, <1>3, <1>4, <1>6, <3>1
    <3>2. CASE e \in DOMAIN deps
      <4>1. \E i \in DOMAIN tokens : tokens[i].server = deps[e].server /\ tokens[i].dep = e
        BY <3>2 DEF OneTokenEach, RowsOf
      <4> QED
        BY <1>3, <1>6, <3>2, <4>1
    <3> QED
      BY <1>3, <3>1, <3>2
  <2>2. ASSUME NEW i \in DOMAIN tokens', NEW j \in DOMAIN tokens', tokens'[i].dep = tokens'[j].dep, tokens'[i].dep # 0
        PROVE  i = j
    <3>1. CASE i \in DOMAIN tokens /\ j \in DOMAIN tokens
      BY <1>6, <2>2, <3>1 DEF OneTokenEach
    <3>2. CASE i = n \/ j = n
      BY <1>4, <1>6, <1>7, <2>2, <3>2
    <3> QED
      BY <1>6, <3>1, <3>2
  <2> QED
    BY <2>1, <2>2 DEF OneTokenEach, RowsOf
<1>10. ServersGrown /\ DeploymentsGrown /\ TokensGrown
  BY <1>3, <1>6 DEF ServersGrown, DeploymentsGrown, TokensGrown
<1> QED
  BY <1>6, <1>8, <1>9, <1>10

(***************************************************************************)
(* The actions.                                                            *)
(***************************************************************************)
LEMMA BootIs ==
  ASSUME BootInv, NEW k \in Handlers
  PROVE  LET r == handler[k] IN
         /\ Stored /\ OneTokenEach /\ Handling /\ Marked /\ Around
         /\ r \in HandlerRows /\ Asked(r) /\ Found(r)
BY DEF BootInv, Handling, Asked

LEMMA RowFields ==
  ASSUME NEW r \in HandlerRows
  PROVE  /\ r.server \in Nat /\ r.dep \in Nat /\ r.row \in Nat /\ r.value \in Nat /\ r.expires \in Nat
         /\ r.mac \in Macs \union {"none"} /\ r.source \in BootSources \union {"none"} /\ r.wants \in Wants \union {"none"}
BY DEF HandlerRows

LEMMA IdleIs ==
  /\ Asked(Idle) /\ Found(Idle) /\ Idle \in HandlerRows
<1>1. Idle \in HandlerRows /\ Idle.pc = "idle" /\ Idle.dep = 0 /\ Idle.wants = "none" /\ Idle.source = "none"
      /\ Idle.server = 0 /\ Idle.row = 0
  BY DEF Idle, HandlerRows
<1> QED
  BY <1>1 DEF Asked, Found, Scripted

(* A step that leaves the rows and the traces alone.                        *)
LEMMA HandlerOnly ==
  ASSUME BootInv, UNCHANGED <<rows, marks>>, clock' \in 0 .. MaxTime, clock <= clock',
         Around'
  PROVE  Stored' /\ OneTokenEach' /\ Marked' /\ Grown /\ \A r : KeepsRow(r)
<1>1. Stored /\ OneTokenEach /\ Handling /\ Marked /\ clock \in Nat
  BY StoredIs DEF BootInv
<1>2. /\ Stored' /\ OneTokenEach' /\ ServersGrown /\ DeploymentsGrown /\ TokensGrown
      /\ \A r : KeepsRow(r)
  BY <1>1, RowsStay
<1>3. UNCHANGED <<bootEvents, accesses, handed, raced, tokens>>
  BY DEF rows, marks
<1>4. Grown
  BY <1>1, <1>2, <1>3 DEF Grown, WorldGrown
<1>5. raced' \subseteq DOMAIN tokens'
  BY <1>1, <1>3 DEF Marked
<1>6. Marked'
  BY <1>1, <1>3, <1>4, <1>5, MarksStay
<1> QED
  BY <1>2, <1>4, <1>6

LEMMA TurnsKeep ==
  ASSUME BootInv, UNCHANGED <<rows, marks>>, clock' \in 0 .. MaxTime, clock <= clock',
         Around', handler' = handler
  PROVE  BootInv'
<1>1. Stored /\ Handling
  BY DEF BootInv
<1>2. Stored' /\ OneTokenEach' /\ Marked' /\ Grown /\ \A r : KeepsRow(r)
  BY HandlerOnly
<1>3. Handling'
  BY <1>1, <1>2, HandlersStay
<1> QED
  BY <1>2, <1>3 DEF BootInv

LEMMA MovesKeep ==
  ASSUME BootInv, UNCHANGED <<rows, marks>>, clock' = clock,
         Around', NEW k \in Handlers, NEW c, handler' = [handler EXCEPT ![k] = c], Asked(c), Found(c)
  PROVE  BootInv'
<1>1. Stored /\ Handling /\ clock \in 0 .. MaxTime /\ clock \in Nat
  BY StoredIs DEF BootInv, Stored
<1>2. Stored' /\ OneTokenEach' /\ Marked' /\ Grown /\ \A r : KeepsRow(r)
  BY <1>1, HandlerOnly
<1>3. Found(c)'
  BY <1>1, <1>2, FoundOn
<1>4. Handling'
  BY <1>1, <1>2, <1>3, HandlerMoves
<1> QED
  BY <1>2, <1>4 DEF BootInv

LEMMA AroundIs ==
  ASSUME BootInv
  PROVE  /\ Around /\ clock \in 0 .. MaxTime /\ clock <= clock
         /\ mode \in Modes /\ network \in BOOLEAN /\ hits \in 0 .. MaxRequests
         /\ (hits < MaxRequests => hits + 1 \in 0 .. MaxRequests)
<1>1. Around /\ clock \in 0 .. MaxTime /\ clock \in Nat
  BY StoredIs DEF BootInv, Stored
<1>2. hits \in 0 .. MaxRequests
  BY <1>1 DEF Around
<1> QED
  BY <1>1, <1>2, BootBounds DEF Around

LEMMA AroundStays ==
  ASSUME Around, UNCHANGED world
  PROVE  /\ Around' /\ clock' = clock
BY DEF Around, world

(* A request of a machine, of a probe or for its metadata.                  *)
LEMMA RequestIs ==
  ASSUME NEW m \in Macs, NEW wants \in {"event", "script", "userdata", "field"}, NEW source \in BootSources \union {"none"},
         wants \in Scripted => source \in BootSources, wants \notin Scripted => ServersOf(m) # {}
  PROVE  LET r == Request(m, wants, source) IN
         /\ Asked(r) /\ Found(r) /\ r.source = source /\ r.mac = m
<1> DEFINE r == Request(m, wants, source)
<1>1. /\ r \in HandlerRows /\ r.pc = "find" /\ r.mac = m /\ r.wants = wants /\ r.source = source /\ r.dep = 0 /\ r.row = 0
      /\ r.server = 0
  BY DEF Request, Idle, HandlerRows, Wants
<1> HIDE DEF r
<1>2. Asked(r)
  BY <1>1 DEF Asked
<1>3. Found(r)
  BY <1>1 DEF Found
<1> QED
  BY <1>1, <1>2, <1>3 DEF r

LEMMA ArriveIs ==
  ASSUME BootInv, NEW k \in Handlers, NEW r, Arrive(k, r)
  PROVE  hits' \in 0 .. MaxRequests /\ handler' = [handler EXCEPT ![k] = r]
BY AroundIs DEF Arrive

LEMMA DHCPKeeps ==
  ASSUME BootInv, NEW k \in Handlers, NEW m \in Macs, NEW class \in {"netboot", "os", "probe"}, HandleDHCPPacket(k, m, class)
  PROVE  BootInv'
<1> DEFINE r == Request(m, "event", "pxe_dhcp")
<1>1. UNCHANGED <<rows, marks, clock, mode, network>> /\ Arrive(k, r)
  BY DEF HandleDHCPPacket
<1>2. Asked(r) /\ Found(r)
  BY RequestIs DEF Scripted, BootSources
<1> HIDE DEF r
<1>3. hits' \in 0 .. MaxRequests /\ handler' = [handler EXCEPT ![k] = r]
  BY <1>1, ArriveIs
<1>4. Around'
  BY <1>1, <1>3, AroundIs DEF Around
<1> QED
  BY <1>1, <1>2, <1>3, <1>4, MovesKeep

LEMMA ScriptKeeps ==
  ASSUME BootInv, NEW k \in Handlers, NEW m \in Macs, RenderIPXE(k, m)
  PROVE  BootInv'
<1>1. PICK source \in ScriptSources : Arrive(k, Request(m, "script", source))
  BY DEF RenderIPXE
<1>2. PICK r : r = Request(m, "script", source)
  OBVIOUS
<1>3. UNCHANGED <<rows, marks, clock, mode, network>> /\ Arrive(k, r)
  BY <1>1, <1>2 DEF RenderIPXE
<1>4. source \in BootSources
  BY DEF ScriptSources, BootSources
<1>5. Asked(r) /\ Found(r)
  BY <1>2, <1>4, RequestIs DEF Scripted
<1>6. hits' \in 0 .. MaxRequests /\ handler' = [handler EXCEPT ![k] = r]
  BY <1>3, ArriveIs
<1>7. Around'
  BY <1>3, <1>6, AroundIs DEF Around
<1> QED
  BY <1>3, <1>5, <1>6, <1>7, MovesKeep

LEMMA EventKeeps ==
  ASSUME BootInv, NEW k \in Handlers, NEW m \in Macs, RecordBootEvent(k, m)
  PROVE  BootInv'
<1> DEFINE r == Request(m, "event", "api_event")
<1>1. UNCHANGED <<rows, marks, clock, mode, network>> /\ Arrive(k, r)
  BY DEF RecordBootEvent
<1>2. Asked(r) /\ Found(r)
  BY RequestIs DEF Scripted, BootSources
<1> HIDE DEF r
<1>3. hits' \in 0 .. MaxRequests /\ handler' = [handler EXCEPT ![k] = r]
  BY <1>1, ArriveIs
<1>4. Around'
  BY <1>1, <1>3, AroundIs DEF Around
<1> QED
  BY <1>1, <1>2, <1>3, <1>4, MovesKeep

LEMMA MetadataKeeps ==
  ASSUME BootInv, NEW k \in Handlers, NEW m \in Macs, NEW wants \in {"userdata", "field"}, MetadataOfServer(k, m, wants)
  PROVE  BootInv'
<1> DEFINE r == Request(m, wants, "none")
<1>1. UNCHANGED <<rows, marks, clock, mode, network>> /\ Arrive(k, r) /\ ServersOf(m) # {}
  BY DEF MetadataOfServer
<1>2. Asked(r) /\ Found(r) /\ r.source = "none"
  BY <1>1, RequestIs DEF Scripted
<1> HIDE DEF r
<1>4. hits' \in 0 .. MaxRequests /\ handler' = [handler EXCEPT ![k] = r]
  BY <1>1, ArriveIs
<1>5. Around'
  BY <1>1, <1>4, AroundIs DEF Around
<1> QED
  BY <1>1, <1>2, <1>4, <1>5, MovesKeep

LEMMA ByDeploymentKeeps ==
  ASSUME BootInv, NEW k \in Handlers, NEW d \in DOMAIN deps, NEW wants \in {"userdata", "field"}, MetadataByDeployment(k, d, wants)
  PROVE  BootInv'
<1>0. PICK r : r = [Idle EXCEPT !.pc = IF wants = "userdata" THEN "token" ELSE "answer", !.wants = wants,
                                !.server = deps[d].server, !.dep = d]
  OBVIOUS
<1>1. UNCHANGED <<rows, marks, clock, mode, network>> /\ Arrive(k, r)
  BY <1>0 DEF MetadataByDeployment
<1>2. d \in Nat /\ deps[d].server \in Nat /\ deps[d].server \in DOMAIN servers /\ Stored
  BY StoredIs DEF BootInv
<1>3. /\ r \in HandlerRows /\ r.pc = (IF wants = "userdata" THEN "token" ELSE "answer") /\ r.wants = wants
      /\ r.server = deps[d].server /\ r.dep = d /\ r.row = 0 /\ r.source = "none"
  BY <1>0, <1>2 DEF Idle, HandlerRows, Wants
<1>4. Asked(r) /\ Found(r)
  BY <1>2, <1>3 DEF Asked, Found, Scripted
<1>6. hits' \in 0 .. MaxRequests /\ handler' = [handler EXCEPT ![k] = r]
  BY <1>1, ArriveIs
<1>7. Around'
  BY <1>1, <1>6, AroundIs DEF Around
<1> QED
  BY <1>1, <1>4, <1>6, <1>7, MovesKeep

LEMMA ByTokenKeeps ==
  ASSUME BootInv, NEW k \in Handlers, NEW t, MetadataByToken(k, t)
  PROVE  BootInv'
<1>1. PICK i \in DOMAIN tokens : Arrive(k, [Idle EXCEPT !.pc = "answer", !.wants = "redeem", !.row = i,
                                 !.server = tokens[i].server, !.dep = tokens[i].dep])
  BY DEF MetadataByToken
<1>0. PICK r : r = [Idle EXCEPT !.pc = "answer", !.wants = "redeem", !.row = i,
                                !.server = tokens[i].server, !.dep = tokens[i].dep]
  OBVIOUS
<1>2. UNCHANGED <<rows, marks, clock, mode, network>> /\ Arrive(k, r)
  BY <1>0, <1>1 DEF MetadataByToken
<1>3. /\ i \in Nat /\ tokens[i] \in TokenRows /\ tokens[i].server \in DOMAIN servers
      /\ tokens[i].dep \in {0} \union DOMAIN deps /\ (tokens[i].dep # 0 => tokens[i].server = deps[tokens[i].dep].server)
  BY StoredIs DEF BootInv, Stored
<1>4. tokens[i].server \in Nat /\ tokens[i].dep \in Nat
  BY <1>3 DEF TokenRows
<1>5. /\ r \in HandlerRows /\ r.pc = "answer" /\ r.wants = "redeem" /\ r.row = i
      /\ r.server = tokens[i].server /\ r.dep = tokens[i].dep /\ r.source = "none"
  BY <1>0, <1>3, <1>4 DEF Idle, HandlerRows, Wants
<1>6. Asked(r) /\ Found(r)
  BY <1>3, <1>5 DEF Asked, Found, Scripted
<1>8. hits' \in 0 .. MaxRequests /\ handler' = [handler EXCEPT ![k] = r]
  BY <1>2, ArriveIs
<1>9. Around'
  BY <1>2, <1>8, AroundIs DEF Around
<1> QED
  BY <1>2, <1>6, <1>8, <1>9, MovesKeep

LEMMA WorldIs ==
  ASSUME BootInv, UNCHANGED world
  PROVE  Around' /\ clock' = clock /\ clock' \in 0 .. MaxTime
BY AroundIs DEF Around, world

LEMMA FindKeeps ==
  ASSUME BootInv, NEW k \in Handlers, FindServer(k)
  PROVE  BootInv'
<1>0. PICK r : r = handler[k]
  OBVIOUS
<1>1. /\ r.pc = "find" /\ UNCHANGED <<rows, marks, world>>
      /\ handler' = [handler EXCEPT ![k] = IF ServersOf(r.mac) # {} THEN [r EXCEPT !.pc = "deployment", !.server = Least(ServersOf(r.mac))]
                                           ELSE [r EXCEPT !.pc = "create"]]
  BY <1>0 DEF FindServer
<1>2. r \in HandlerRows /\ Asked(r) /\ Found(r) /\ Stored
  BY <1>0, BootIs
<1>3. ServersOf(r.mac) \subseteq Nat /\ ServersOf(r.mac) \subseteq DOMAIN servers
  BY <1>2, StoredIs DEF ServersOf
<1>4. CASE ServersOf(r.mac) # {}
  <2>1. PICK s : s = Least(ServersOf(r.mac))
    OBVIOUS
  <2>2. s \in DOMAIN servers /\ s \in Nat
    BY <1>3, <1>4, <2>1, LeastIs
  <2>3. PICK c : c = [r EXCEPT !.pc = "deployment", !.server = s]
    OBVIOUS
  <2>4. /\ c \in HandlerRows /\ c.pc = "deployment" /\ c.server = s /\ c.dep = r.dep /\ c.row = r.row /\ c.wants = r.wants
        /\ c.mac = r.mac /\ c.source = r.source
    BY <1>2, <2>2, <2>3 DEF HandlerRows
  <2>5. r.dep = 0
    BY <1>1, <1>2 DEF Asked
  <2>6. Asked(c) /\ Found(c)
    <3>1. Asked(c)
      BY <1>1, <1>2, <2>4, <2>5 DEF Asked
    <3>2. Found(c)
      BY <1>2, <2>2, <2>4, <2>5 DEF Found
    <3> QED
      BY <3>1, <3>2
  <2>7. handler' = [handler EXCEPT ![k] = c]
    BY <1>1, <1>4, <2>1, <2>3
  <2> QED
    BY <1>1, <2>6, <2>7, WorldIs, MovesKeep
<1>5. CASE ServersOf(r.mac) = {}
  <2>3. PICK c : c = [r EXCEPT !.pc = "create"]
    OBVIOUS
  <2>4. /\ c \in HandlerRows /\ c.pc = "create" /\ c.server = r.server /\ c.dep = r.dep /\ c.row = r.row /\ c.wants = r.wants
        /\ c.mac = r.mac /\ c.source = r.source
    BY <1>2, <2>3 DEF HandlerRows
  <2>5. r.wants \in Scripted /\ r.dep = 0
    BY <1>1, <1>2, <1>5 DEF Found, Asked
  <2>6. Asked(c) /\ Found(c)
    BY <1>2, <2>4, <2>5 DEF Asked, Found
  <2>7. handler' = [handler EXCEPT ![k] = c]
    BY <1>1, <1>5, <2>3
  <2> QED
    BY <1>1, <2>6, <2>7, WorldIs, MovesKeep
<1> QED
  BY <1>4, <1>5

LEMMA DeploymentFoundKeeps ==
  ASSUME BootInv, NEW k \in Handlers, FindDeployment(k)
  PROVE  BootInv'
<1>0. PICK r, d : r = handler[k] /\ d = LatestActive(r.server)
  OBVIOUS
<1> DEFINE pc == IF r.wants = "field" THEN "answer" ELSE IF r.wants \in Scripted /\ d = 0 THEN "record" ELSE "token"
<1>2. r \in HandlerRows /\ Asked(r) /\ Found(r) /\ Stored
  BY <1>0, BootIs
<1>1. /\ r.pc = "deployment" /\ UNCHANGED <<rows, marks, world>>
      /\ handler' = [handler EXCEPT ![k] = [r EXCEPT !.dep = d, !.pc = pc]]
  BY <1>0 DEF FindDeployment, Handling, BootInv
<1>3. d = 0 \/ (d \in DOMAIN deps /\ deps[d].server = r.server)
  <2>1. ActiveOf(r.server) \subseteq Nat
    BY <1>2, StoredIs DEF ActiveOf
  <2> QED
    BY <1>0, <2>1, LeastIs DEF LatestActive, ActiveOf
<1>4. d \in Nat
  BY <1>2, <1>3, StoredIs
<1>5. PICK c : c = [r EXCEPT !.dep = d, !.pc = pc]
  OBVIOUS
<1>6. pc \in {"answer", "record", "token"} /\ (pc = "record" => r.wants \in Scripted /\ d = 0)
      /\ (pc = "answer" => r.wants = "field") /\ (pc = "token" => r.wants # "field")
  OBVIOUS
<1> HIDE DEF pc
<1>7. /\ c \in HandlerRows /\ c.pc = pc /\ c.server = r.server /\ c.dep = d /\ c.row = r.row /\ c.wants = r.wants
      /\ c.mac = r.mac /\ c.source = r.source
  BY <1>2, <1>4, <1>5, <1>6 DEF HandlerRows
<1>8. r.server \in DOMAIN servers /\ r.wants \in {"event", "script", "userdata", "field"}
  BY <1>1, <1>2 DEF Found, Asked
<1>9. Asked(c)
  BY <1>2, <1>6, <1>7, <1>8 DEF Asked
<1>10. Found(c)
  BY <1>2, <1>3, <1>6, <1>7, <1>8 DEF Found
<1>13. handler' = [handler EXCEPT ![k] = c]
  BY <1>1, <1>5
<1> QED
  BY <1>1, <1>9, <1>10, <1>13, WorldIs, MovesKeep

(* A step that writes the tables and leaves the rest of the world alone.    *)
LEMMA TablesMove ==
  ASSUME BootInv, UNCHANGED world, ServersGrown, DeploymentsGrown, TokensGrown, raced \subseteq raced'
  PROVE  Grown /\ Around'
<1>1. Around' /\ clock' = clock /\ clock \in Nat
  BY WorldIs, StoredIs DEF BootInv
<1> QED
  BY <1>1 DEF Grown, WorldGrown

(* A goroutine that has its token goes on to answer.                        *)
LEMMA HoldingIs ==
  ASSUME NEW r \in HandlerRows, Asked(r), r.pc \in {"token", "new", "rotate"}, NEW i \in Nat, NEW row,
         row.value \in Nat, row.expires \in Nat, NEW c, c = Holding(r, i, row)
  PROVE  /\ c \in HandlerRows /\ Asked(c) /\ c.pc \in {"record", "answer"}
         /\ c.row = i /\ c.value = row.value /\ c.expires = row.expires /\ c.expires \in Nat
         /\ c.server = r.server /\ c.dep = r.dep /\ c.mac = r.mac /\ c.source = r.source /\ c.wants = r.wants
<1>1. After(r) \in {"record", "answer"} /\ (After(r) = "record" => r.wants \in Scripted)
  BY DEF After
<1>2. /\ c \in HandlerRows /\ c.pc = After(r)
      /\ c.row = i /\ c.value = row.value /\ c.expires = row.expires
      /\ c.server = r.server /\ c.dep = r.dep /\ c.mac = r.mac /\ c.source = r.source /\ c.wants = r.wants
  BY <1>1 DEF Holding, HandlerRows
<1>3. Asked(c)
  BY <1>1, <1>2 DEF Asked
<1> QED
  BY <1>1, <1>2, <1>3

LEMMA ReadKeeps ==
  ASSUME BootInv, NEW k \in Handlers, ReadToken(k)
  PROVE  BootInv'
<1>0. PICK r, i : r = handler[k] /\ i = Least(RowsOf(r.server, r.dep))
  OBVIOUS
<1>1. /\ r.pc = "token" /\ UNCHANGED <<rows, marks, world>>
      /\ handler' = [handler EXCEPT ![k] =
           IF RowsOf(r.server, r.dep) = {} THEN [r EXCEPT !.pc = "new"]
           ELSE IF Valid(tokens[i]) THEN Holding(r, i, tokens[i])
           ELSE [r EXCEPT !.pc = "rotate", !.row = i]]
  BY <1>0 DEF ReadToken
<1>2. r \in HandlerRows /\ Asked(r) /\ Found(r) /\ Stored /\ OneTokenEach
  BY <1>0, BootIs
<1>3. r.server \in DOMAIN servers /\ r.wants \in {"event", "script", "userdata"}
  BY <1>1, <1>2 DEF Found, Asked
<1>4. CASE RowsOf(r.server, r.dep) = {}
  <2>1. PICK c : c = [r EXCEPT !.pc = "new"]
    OBVIOUS
  <2>2. /\ c \in HandlerRows /\ c.pc = "new" /\ c.server = r.server /\ c.dep = r.dep /\ c.row = r.row /\ c.wants = r.wants
        /\ c.mac = r.mac /\ c.source = r.source
    BY <1>2, <2>1 DEF HandlerRows
  <2>3. r.dep = 0
    BY <1>2, <1>4 DEF Found, OneTokenEach
  <2>4. Asked(c)
    BY <1>2, <1>3, <2>2, <2>3 DEF Asked
  <2>5. Found(c)
    BY <1>2, <1>3, <2>2, <2>3 DEF Found
  <2>6. handler' = [handler EXCEPT ![k] = c]
    BY <1>1, <1>4, <2>1
  <2> QED
    BY <1>1, <2>4, <2>5, <2>6, WorldIs, MovesKeep
<1>5. CASE RowsOf(r.server, r.dep) # {}
  <2>1. i \in DOMAIN tokens /\ tokens[i].server = r.server /\ tokens[i].dep = r.dep
    <3>1. RowsOf(r.server, r.dep) \subseteq Nat
      BY <1>2, StoredIs DEF RowsOf
    <3>2. i \in RowsOf(r.server, r.dep)
      BY <1>0, <1>5, <3>1, LeastIs
    <3> QED
      BY <3>2 DEF RowsOf
  <2>2. i \in Nat /\ tokens[i].value \in Nat /\ tokens[i].expires \in Nat /\ clock \in Nat
    <3>1. tokens[i] \in TokenRows
      BY <1>2, <2>1, StoredIs
    <3> QED
      BY <1>2, <2>1, <3>1, StoredIs DEF TokenRows
  <2>3. CASE Valid(tokens[i])
    <3>1. PICK c, row : row = tokens[i] /\ c = Holding(r, i, row)
      OBVIOUS
    <3>2. /\ c \in HandlerRows /\ Asked(c) /\ c.pc \in {"record", "answer"}
          /\ c.row = i /\ c.value = row.value /\ c.expires = row.expires /\ c.expires \in Nat
          /\ c.server = r.server /\ c.dep = r.dep /\ c.mac = r.mac /\ c.source = r.source /\ c.wants = r.wants
      BY <1>1, <1>2, <2>2, <3>1, HoldingIs
    <3>3. Works(c)
      BY <2>1, <3>1, <3>2 DEF Works
    <3>4. Found(c)
      BY <1>2, <1>3, <2>1, <3>2, <3>3 DEF Found
    <3>6. handler' = [handler EXCEPT ![k] = c]
      BY <1>1, <1>5, <2>3, <3>1
    <3> QED
      BY <1>1, <3>2, <3>4, <3>6, WorldIs, MovesKeep
  <2>4. CASE ~Valid(tokens[i])
    <3>1. PICK c : c = [r EXCEPT !.pc = "rotate", !.row = i]
      OBVIOUS
    <3>2. /\ c \in HandlerRows /\ c.pc = "rotate" /\ c.server = r.server /\ c.dep = r.dep /\ c.row = i /\ c.wants = r.wants
          /\ c.mac = r.mac /\ c.source = r.source
      BY <1>2, <2>2, <3>1 DEF HandlerRows
    <3>3. clock >= tokens[i].expires
      BY <2>2, <2>4 DEF Valid
    <3>4. Asked(c)
      BY <1>2, <1>3, <3>2 DEF Asked
    <3>5. Found(c)
      BY <1>2, <1>3, <2>1, <3>2, <3>3 DEF Found
    <3>7. handler' = [handler EXCEPT ![k] = c]
      BY <1>1, <1>5, <2>4, <3>1
    <3> QED
      BY <1>1, <3>4, <3>5, <3>7, WorldIs, MovesKeep
  <2> QED
    BY <2>3, <2>4
<1> QED
  BY <1>4, <1>5

LEMMA InsertKeeps ==
  ASSUME BootInv, NEW k \in Handlers, InsertToken(k)
  PROVE  BootInv'
<1>0. PICK r, row, c, n : r = handler[k] /\ row = Fresh(r.server, r.dep) /\ n = Len(tokens') /\ c = Holding(r, n, row)
  OBVIOUS
<1>1. /\ r.pc = "new" /\ UNCHANGED <<servers, deps, marks, world>>
      /\ tokens' = Append(tokens, row) /\ issued' = issued + 1
      /\ handler' = [handler EXCEPT ![k] = c]
  BY <1>0 DEF InsertToken
<1>2. r \in HandlerRows /\ Asked(r) /\ Found(r) /\ Stored /\ OneTokenEach /\ Handling /\ Marked
  BY <1>0, BootIs
<1>3. r.server \in DOMAIN servers /\ r.server \in Nat /\ r.dep = 0
  BY <1>1, <1>2, StoredIs DEF Found, Asked
<1>4. row.value \in Nat /\ row.expires \in Nat /\ row.server = r.server /\ row.dep = 0 /\ row = Fresh(r.server, 0)
  BY <1>0, <1>2, <1>3, FreshIs
<1>5. /\ Stored' /\ OneTokenEach' /\ ServersGrown /\ DeploymentsGrown /\ TokensGrown
      /\ n \in DOMAIN tokens' /\ tokens'[n] = row
      /\ \A i \in DOMAIN tokens : tokens'[i] = tokens[i]
  <2>1. clock' = clock
    BY <1>1 DEF world
  <2> QED
    BY <1>0, <1>1, <1>2, <1>3, <1>4, <2>1, TokenAdded
<1>6. UNCHANGED <<bootEvents, accesses, handed, raced>>
  BY <1>1 DEF marks
<1>7. Grown /\ Around'
  BY <1>1, <1>5, <1>6, TablesMove
<1>8. Marked'
  <2>1. raced' \subseteq DOMAIN tokens'
    BY <1>2, <1>5, <1>6 DEF Marked, TokensGrown
  <2> QED
    BY <1>2, <1>6, <1>7, <2>1, MarksStay
<1>9. /\ c \in HandlerRows /\ Asked(c) /\ c.pc \in {"record", "answer"}
      /\ c.row = n /\ c.value = row.value /\ c.expires = row.expires /\ c.expires \in Nat
      /\ c.server = r.server /\ c.dep = r.dep /\ c.mac = r.mac /\ c.source = r.source /\ c.wants = r.wants
  <2>1. n \in Nat
    BY <1>5, StoredIs DEF Stored
  <2> QED
    BY <1>0, <1>1, <1>2, <1>4, <2>1, HoldingIs
<1>10. Found(c)'
  <2>1. Works(c)'
    BY <1>3, <1>4, <1>5, <1>9 DEF Works
  <2> QED
    BY <1>1, <1>3, <1>5, <1>9, <2>1 DEF Found
<1>12. \A j \in Handlers \ {k} : KeepsRow(handler[j])
  <2>1. ASSUME NEW j \in Handlers, handler[j].pc = "rotate" PROVE tokens'[handler[j].row].expires = tokens[handler[j].row].expires
    <3>1. Found(handler[j])
      BY <1>2 DEF Handling
    <3>2. handler[j].row \in DOMAIN tokens
      BY <2>1, <3>1 DEF Found
    <3> QED
      BY <1>5, <3>2
  <2> QED
    BY <2>1 DEF KeepsRow
<1>13. Handling'
  BY <1>1, <1>2, <1>7, <1>9, <1>10, <1>12, HandlerMoves
<1> QED
  BY <1>5, <1>7, <1>8, <1>13 DEF BootInv

LEMMA RotateKeeps ==
  ASSUME BootInv, NEW k \in Handlers, RotateToken(k)
  PROVE  BootInv'
<1>0. PICK r, row, c, n : r = handler[k] /\ row = Fresh(r.server, r.dep) /\ n = r.row /\ c = Holding(r, n, row)
  OBVIOUS
<1>1. /\ r.pc = "rotate" /\ UNCHANGED <<servers, deps, bootEvents, accesses, handed, world>>
      /\ tokens' = [tokens EXCEPT ![n] = row] /\ issued' = issued + 1
      /\ raced' = IF Rotating(n) = {k} THEN raced ELSE raced \union {n}
      /\ handler' = [handler EXCEPT ![k] = c]
  BY <1>0 DEF RotateToken
<1>2. r \in HandlerRows /\ Asked(r) /\ Found(r) /\ Stored /\ OneTokenEach /\ Handling /\ Marked
  BY <1>0, BootIs
<1>3. /\ r.server \in DOMAIN servers /\ r.server \in Nat /\ r.dep \in {0} \union DOMAIN deps /\ r.dep \in Nat
      /\ n \in DOMAIN tokens /\ tokens[n].server = r.server /\ tokens[n].dep = r.dep /\ n \in Nat
      /\ clock >= tokens[n].expires \/ n \in raced
      /\ r.dep # 0 => deps[r.dep].server = r.server
  BY <1>0, <1>1, <1>2, StoredIs, RowFields DEF Found
<1>4. /\ row \in TokenRows /\ row.value \in Nat /\ row.expires \in Nat /\ row.server = r.server /\ row.dep = r.dep
      /\ row.value \in 1 .. issued' /\ row.expires \in TokenLife .. MaxTime + TokenLife /\ issued' \in Nat /\ issued <= issued'
  BY <1>0, <1>1, <1>2, <1>3, FreshIs
<1>5. raced \subseteq raced' /\ raced' \subseteq raced \union {n}
  BY <1>1
<1>6. /\ Stored' /\ OneTokenEach' /\ ServersGrown /\ DeploymentsGrown /\ TokensGrown
  <2>1. clock' = clock
    BY <1>1 DEF world
  <2>2. clock >= tokens[n].expires \/ n \in raced'
    BY <1>3, <1>5
  <2> QED
    BY <1>1, <1>2, <1>3, <1>4, <2>1, <2>2, TokenReplaced
<1>7. /\ DOMAIN tokens' = DOMAIN tokens /\ tokens'[n] = row /\ \A i \in DOMAIN tokens : i # n => tokens'[i] = tokens[i]
  <2>1. tokens \in Seq(TokenRows)
    BY <1>2 DEF Stored
  <2> QED
    BY <1>1, <1>3, <1>4, <2>1, ReplaceRow
<1>8. Grown /\ Around'
  BY <1>1, <1>5, <1>6, TablesMove
<1>9. Marked'
  <2>1. raced' \subseteq DOMAIN tokens'
    BY <1>2, <1>3, <1>5, <1>7 DEF Marked
  <2> QED
    BY <1>1, <1>2, <1>8, <2>1, MarksStay
<1>10. /\ c \in HandlerRows /\ Asked(c) /\ c.pc \in {"record", "answer"}
       /\ c.row = n /\ c.value = row.value /\ c.expires = row.expires /\ c.expires \in Nat
       /\ c.server = r.server /\ c.dep = r.dep /\ c.mac = r.mac /\ c.source = r.source /\ c.wants = r.wants
  BY <1>0, <1>1, <1>2, <1>3, <1>4, HoldingIs
<1>11. Found(c)'
  <2>1. Works(c)'
    BY <1>3, <1>4, <1>7, <1>10 DEF Works
  <2> QED
    BY <1>1, <1>3, <1>7, <1>10, <2>1 DEF Found
<1>13. \A j \in Handlers \ {k} : KeepsRow(handler[j])
  <2>1. ASSUME NEW j \in Handlers \ {k}, handler[j].pc = "rotate"
        PROVE  handler[j].row \in raced' \/ tokens'[handler[j].row].expires = tokens[handler[j].row].expires
    <3>1. Found(handler[j])
      BY <1>2 DEF Handling
    <3>2. handler[j].row \in DOMAIN tokens
      BY <2>1, <3>1 DEF Found
    <3>3. CASE handler[j].row = n
      <4>1. j \in Rotating(n)
        BY <2>1, <3>3 DEF Rotating
      <4>2. n \in raced'
        BY <1>1, <4>1
      <4> QED
        BY <3>3, <4>2
    <3>4. CASE handler[j].row # n
      BY <1>7, <3>2, <3>4
    <3> QED
      BY <3>3, <3>4
  <2> QED
    BY <2>1 DEF KeepsRow
<1>14. Handling'
  BY <1>1, <1>2, <1>8, <1>10, <1>11, <1>13, HandlerMoves
<1> QED
  BY <1>6, <1>8, <1>9, <1>14 DEF BootInv

(* The goroutine has answered.                                              *)
LEMMA DoneKeeps ==
  ASSUME Stored, Handling, Grown, NEW k \in Handlers, handler' = [handler EXCEPT ![k] = Idle],
         \A j \in Handlers : KeepsRow(handler[j])
  PROVE  Handling'
<1>1. Asked(Idle) /\ Found(Idle)'
  <2>1. PICK c : c = Idle
    OBVIOUS
  <2>2. Asked(c) /\ Found(c) /\ KeepsRow(c)
    BY <2>1, IdleIs DEF KeepsRow, Idle
  <2>3. Found(c)'
    BY <2>2, FoundOn
  <2> QED
    BY <2>1, <2>2, <2>3 DEF Idle
<1>2. PICK c : c = Idle /\ Asked(c) /\ Found(c)'
  BY <1>1
<1> QED
  BY <1>2, HandlerMoves

LEMMA RowsKept ==
  ASSUME BootInv, NEW j \in Handlers, \A i \in DOMAIN tokens : tokens'[i].expires = tokens[i].expires
  PROVE  KeepsRow(handler[j])
<1>1. ASSUME handler[j].pc = "rotate" PROVE tokens'[handler[j].row].expires = tokens[handler[j].row].expires
  <2>1. Found(handler[j])
    BY DEF Handling, BootInv
  <2>2. handler[j].row \in DOMAIN tokens
    BY <1>1, <2>1 DEF Found
  <2> QED
    BY <2>2
<1> QED
  BY <1>1 DEF KeepsRow

Handed(r) == [value |-> r.value, server |-> r.server, dep |-> r.dep, row |-> r.row, expires |-> r.expires]

LEMMA HandIs ==
  ASSUME NEW r, Works(r), NEW t, t = Handed(r)
  PROVE  Works(t)
BY DEF Works, Handed

LEMMA RecordKeeps ==
  ASSUME BootInv, NEW k \in Handlers, RecordEvent(k)
  PROVE  BootInv'
<1>0. PICK r, e : r = handler[k] /\ e = [mac |-> r.mac, source |-> r.source, server |-> r.server, dep |-> r.dep]
  OBVIOUS
<1>1. /\ r.pc = "record" /\ UNCHANGED <<rows, accesses, raced, world>>
      /\ bootEvents' = bootEvents \union {e}
      /\ handler' = [handler EXCEPT ![k] = Idle]
      /\ IF r.wants = "script" /\ r.dep # 0 THEN Hand(r) ELSE UNCHANGED handed
  BY <1>0 DEF RecordEvent
<1>2. r \in HandlerRows /\ Asked(r) /\ Found(r) /\ Stored /\ OneTokenEach /\ Handling /\ Marked
  BY <1>0, BootIs
<1>3. clock' = clock /\ clock \in 0 .. MaxTime
  BY <1>1, AroundIs DEF world
<1>4. /\ Stored' /\ OneTokenEach' /\ ServersGrown /\ DeploymentsGrown /\ TokensGrown /\ \A x : KeepsRow(x)
  BY <1>1, <1>2, <1>3, RowsStay
<1>5. Grown /\ Around'
  BY <1>1, <1>4, TablesMove
<1>6. e \in EventRows
  <2>1. /\ r.mac \in Macs /\ r.source \in BootSources /\ r.server \in DOMAIN servers /\ r.dep \in {0} \union DOMAIN deps
    BY <1>1, <1>2 DEF Asked, Found
  <2> QED
    BY <1>0, <1>2, <2>1 DEF EventRows
<1>7. PICK events : bootEvents' = bootEvents \union events /\ events = {e}
  BY <1>1
<1>8. \A x \in events : x \in EventRows'
  <2>1. UNCHANGED <<servers, deps>>
    BY <1>1 DEF rows
  <2> QED
    BY <1>6, <1>7, <2>1 DEF EventRows
<1>9. PICK given : handed' = handed \union given /\ \A t \in given : Works(t)
  <2>1. CASE r.wants = "script" /\ r.dep # 0
    <3>1. PICK t : t = Handed(r)
      OBVIOUS
    <3>2. Works(t)
      BY <1>1, <1>2, <2>1, <3>1, HandIs DEF Found
    <3> DEFINE one == {t}
    <3>3. handed' = handed \union one /\ \A x \in one : Works(x)
      BY <1>1, <2>1, <3>1, <3>2 DEF Hand, Handed
    <3> HIDE DEF one
    <3> QED
      BY <3>3
  <2>2. CASE ~(r.wants = "script" /\ r.dep # 0)
    <3> DEFINE none == {}
    <3>1. handed' = handed \union none /\ \A x \in none : Works(x)
      BY <1>1, <2>2
    <3> HIDE DEF none
    <3> QED
      BY <3>1
  <2> QED
    BY <2>1, <2>2
<1>10. \A t \in given : Works(t)'
  BY <1>2, <1>5, <1>9, WorksOn
<1>11. PICK logged : accesses' = accesses \union logged /\ \A a \in logged : a \in AccessRows'
  <2> DEFINE none == {}
  <2>1. accesses' = accesses \union none /\ \A a \in none : a \in AccessRows'
    BY <1>1
  <2> HIDE DEF none
  <2> QED
    BY <2>1
<1>12. raced' \subseteq DOMAIN tokens'
  BY <1>1, <1>2 DEF Marked, rows
<1>13. Marked'
  BY <1>2, <1>5, <1>7, <1>8, <1>9, <1>10, <1>11, <1>12, MarksMove
<1>14. Handling'
  BY <1>1, <1>2, <1>4, <1>5, DoneKeeps
<1> QED
  BY <1>4, <1>5, <1>13, <1>14 DEF BootInv

LEMMA AnswerKeeps ==
  ASSUME BootInv, NEW k \in Handlers, Answer(k)
  PROVE  BootInv'
<1>0. PICK r, a : r = handler[k] /\ a = [server |-> r.server, dep |-> r.dep]
  OBVIOUS
<1>1. /\ r.pc = "answer" /\ UNCHANGED <<servers, deps, issued, bootEvents, raced, world>>
      /\ tokens' = IF r.row = 0 THEN tokens ELSE [tokens EXCEPT ![r.row].used = TRUE]
      /\ accesses' = accesses \union {a}
      /\ handler' = [handler EXCEPT ![k] = Idle]
      /\ IF r.wants = "userdata" THEN Hand(r) ELSE UNCHANGED handed
  BY <1>0 DEF Answer
<1>2. r \in HandlerRows /\ Asked(r) /\ Found(r) /\ Stored /\ OneTokenEach /\ Handling /\ Marked
  BY <1>0, BootIs
<1>3. clock' = clock /\ clock \in 0 .. MaxTime /\ issued \in Nat
  BY <1>1, <1>2, AroundIs DEF world, Stored
<1>4. /\ Stored' /\ OneTokenEach' /\ ServersGrown /\ DeploymentsGrown /\ TokensGrown /\ DOMAIN tokens' = DOMAIN tokens
      /\ \A i \in DOMAIN tokens : tokens'[i].expires = tokens[i].expires
  <2>1. CASE r.row = 0
    <3>1. UNCHANGED rows
      BY <1>1, <2>1 DEF rows
    <3> QED
      BY <1>2, <1>3, <3>1, RowsStay DEF rows
  <2>2. CASE r.row # 0
    <3>1. PICK i : i = r.row
      OBVIOUS
    <3>2. i \in DOMAIN tokens
      BY <1>2, <2>2, <3>1 DEF Found
    <3>3. PICK row : row = [tokens[i] EXCEPT !.used = TRUE]
      OBVIOUS
    <3>4. tokens[i] \in TokenRows /\ tokens[i].value \in 1 .. issued /\ tokens[i].expires \in TokenLife .. MaxTime + TokenLife
      BY <1>2, <3>2, StoredIs DEF Stored
    <3>5. /\ row \in TokenRows /\ row.value = tokens[i].value /\ row.server = tokens[i].server /\ row.dep = tokens[i].dep
          /\ row.expires = tokens[i].expires
      BY <3>3, <3>4 DEF TokenRows
    <3>6. tokens' = [tokens EXCEPT ![i] = row]
      BY <1>1, <2>2, <3>1, <3>3
    <3>7. issued' \in Nat /\ issued <= issued' /\ row.value \in 1 .. issued' /\ UNCHANGED <<servers, deps, clock>>
      BY <1>1, <1>3, <3>4, <3>5
    <3>8. /\ DOMAIN tokens' = DOMAIN tokens /\ tokens'[i] = row /\ \A j \in DOMAIN tokens : j # i => tokens'[j] = tokens[j]
      <4>1. tokens \in Seq(TokenRows)
        BY <1>2 DEF Stored
      <4> QED
        BY <3>2, <3>5, <3>6, <4>1, ReplaceRow
    <3>9. \A j \in DOMAIN tokens : tokens'[j].expires = tokens[j].expires
      BY <3>5, <3>8
    <3>10. Stored' /\ OneTokenEach' /\ ServersGrown /\ DeploymentsGrown /\ TokensGrown
      BY <1>2, <3>2, <3>4, <3>5, <3>6, <3>7, TokenReplaced
    <3> QED
      BY <3>8, <3>9, <3>10
  <2> QED
    BY <2>1, <2>2
<1>5. Grown /\ Around'
  BY <1>1, <1>4, TablesMove
<1>6. PICK logged : accesses' = accesses \union logged /\ \A x \in logged : x \in AccessRows'
  <2>1. r.server \in DOMAIN servers /\ r.dep \in {0} \union DOMAIN deps
    BY <1>1, <1>2 DEF Found
  <2>2. a \in AccessRows'
    BY <1>0, <1>1, <2>1 DEF AccessRows
  <2>3. accesses' = accesses \union {a} /\ \A x \in {a} : x \in AccessRows'
    BY <1>1, <2>2
  <2> QED
    BY <2>3
<1>7. PICK given : handed' = handed \union given /\ \A t \in given : Works(t)
  <2>1. CASE r.wants = "userdata"
    <3>1. PICK t : t = Handed(r)
      OBVIOUS
    <3>2. Works(t)
      BY <1>1, <1>2, <2>1, <3>1, HandIs DEF Found
    <3> DEFINE one == {t}
    <3>3. handed' = handed \union one /\ \A x \in one : Works(x)
      BY <1>1, <2>1, <3>1, <3>2 DEF Hand, Handed
    <3> HIDE DEF one
    <3> QED
      BY <3>3
  <2>2. CASE r.wants # "userdata"
    <3> DEFINE none == {}
    <3>1. handed' = handed \union none /\ \A x \in none : Works(x)
      BY <1>1, <2>2
    <3> HIDE DEF none
    <3> QED
      BY <3>1
  <2> QED
    BY <2>1, <2>2
<1>8. \A t \in given : Works(t)'
  BY <1>2, <1>5, <1>7, WorksOn
<1>9. PICK events : bootEvents' = bootEvents \union events /\ \A x \in events : x \in EventRows'
  <2> DEFINE none == {}
  <2>1. bootEvents' = bootEvents \union none /\ \A x \in none : x \in EventRows'
    BY <1>1
  <2> HIDE DEF none
  <2> QED
    BY <2>1
<1>10. raced' \subseteq DOMAIN tokens'
  BY <1>1, <1>2, <1>4 DEF Marked
<1>11. Marked'
  BY <1>2, <1>5, <1>6, <1>7, <1>8, <1>9, <1>10, MarksMove
<1>12. \A j \in Handlers : KeepsRow(handler[j])
  BY <1>4, RowsKept
<1>13. Handling'
  BY <1>1, <1>2, <1>5, <1>12, DoneKeeps
<1> QED
  BY <1>4, <1>5, <1>11, <1>13 DEF BootInv

LEMMA DiscoverKeeps ==
  ASSUME BootInv, NEW k \in Handlers, FindOrCreate(k)
  PROVE  BootInv'
<1>0. PICK r : r = handler[k]
  OBVIOUS
<1>1. /\ r.pc = "create" /\ UNCHANGED <<deps, tokens, issued, marks, world>>
      /\ IF ServersOf(r.mac) = {} THEN Goto(k, "insert") /\ UNCHANGED servers
         ELSE /\ handler' = [handler EXCEPT ![k].pc = "record", ![k].server = Least(ServersOf(r.mac))]
              /\ servers' = [servers EXCEPT ![Least(ServersOf(r.mac))].discovered = 1]
  BY <1>0 DEF FindOrCreate
<1>2. r \in HandlerRows /\ Asked(r) /\ Found(r) /\ Stored /\ OneTokenEach /\ Handling /\ Marked
      /\ handler[k] = r /\ DOMAIN handler = Handlers
  BY <1>0, BootIs DEF Handling
<1>3. r.wants \in Scripted /\ r.dep = 0
  BY <1>1, <1>2 DEF Asked
<1>4. CASE ServersOf(r.mac) = {}
  <2>1. PICK c : c = [r EXCEPT !.pc = "insert"]
    OBVIOUS
  <2>2. /\ c \in HandlerRows /\ c.pc = "insert" /\ c.server = r.server /\ c.dep = r.dep /\ c.row = r.row /\ c.wants = r.wants
        /\ c.mac = r.mac /\ c.source = r.source
    BY <1>2, <2>1 DEF HandlerRows
  <2>3. Asked(c)
    BY <1>2, <1>3, <2>2 DEF Asked
  <2>4. Found(c)
    BY <1>2, <1>3, <2>2 DEF Found
  <2>5. handler' = [handler EXCEPT ![k] = c]
    BY <1>1, <1>2, <1>4, <2>1 DEF Goto
  <2>6. UNCHANGED <<rows, marks>>
    BY <1>1, <1>4 DEF rows
  <2> QED
    BY <1>1, <2>3, <2>4, <2>5, <2>6, WorldIs, MovesKeep
<1>5. CASE ServersOf(r.mac) # {}
  <2>1. PICK s : s = Least(ServersOf(r.mac))
    OBVIOUS
  <2>2. s \in DOMAIN servers /\ s \in Nat
    <3>1. ServersOf(r.mac) \subseteq Nat /\ ServersOf(r.mac) \subseteq DOMAIN servers
      BY <1>2, StoredIs DEF ServersOf
    <3> QED
      BY <1>5, <2>1, <3>1, LeastIs
  <2>3. PICK c, row : c = [r EXCEPT !.pc = "record", !.server = s] /\ row = [servers[s] EXCEPT !.discovered = 1]
    OBVIOUS
  <2>4. /\ c \in HandlerRows /\ c.pc = "record" /\ c.server = s /\ c.dep = r.dep /\ c.row = r.row /\ c.wants = r.wants
        /\ c.mac = r.mac /\ c.source = r.source
    BY <1>2, <2>2, <2>3 DEF HandlerRows
  <2>5. row \in ServerRows /\ row.mac = servers[s].mac
    <3>1. servers[s] \in ServerRows
      BY <1>2, <2>2, StoredIs
    <3> QED
      BY <2>3, <3>1 DEF ServerRows
  <2>6. servers' = [servers EXCEPT ![s] = row] /\ handler' = [handler EXCEPT ![k] = c]
    BY <1>1, <1>2, <1>5, <2>1, <2>3
  <2>7. Stored' /\ OneTokenEach' /\ ServersGrown /\ DeploymentsGrown /\ TokensGrown
    <3>1. clock' = clock
      BY <1>1 DEF world
    <3> QED
      BY <1>1, <1>2, <2>2, <2>5, <2>6, <3>1, ServerMarked
  <2>8. UNCHANGED <<bootEvents, accesses, handed, raced>>
    BY <1>1 DEF marks
  <2>9. Grown /\ Around'
    BY <1>1, <2>7, <2>8, TablesMove
  <2>10. Marked'
    <3>1. raced' \subseteq DOMAIN tokens'
      BY <1>1, <1>2, <2>8 DEF Marked
    <3> QED
      BY <1>2, <2>8, <2>9, <3>1, MarksStay
  <2>11. Asked(c)
    BY <1>2, <1>3, <2>4 DEF Asked
  <2>12. Found(c)
    BY <1>2, <1>3, <2>2, <2>4 DEF Found
  <2>13. Found(c)'
    <3>1. KeepsRow(c)
      BY <2>4 DEF KeepsRow
    <3> QED
      BY <1>2, <2>9, <2>12, <3>1, FoundOn
  <2>15. \A j \in Handlers : KeepsRow(handler[j])
    BY <1>1, RowsKept
  <2>16. Handling'
    BY <1>2, <2>6, <2>9, <2>11, <2>13, <2>15, HandlerMoves
  <2> QED
    BY <2>7, <2>9, <2>10, <2>16 DEF BootInv
<1> QED
  BY <1>4, <1>5

LEMMA InsertServerKeeps ==
  ASSUME BootInv, NEW k \in Handlers, InsertDiscovered(k)
  PROVE  BootInv'
<1>0. PICK r : r = handler[k]
  OBVIOUS
<1>1. /\ r.pc = "insert" /\ UNCHANGED <<deps, tokens, issued, marks, world>>
      /\ IF ServersOf(r.mac) # {} THEN handler' = [handler EXCEPT ![k] = Idle] /\ UNCHANGED servers
         ELSE /\ servers' = Append(servers, [mac |-> r.mac, discovered |-> 1])
              /\ handler' = [handler EXCEPT ![k].pc = "record", ![k].server = Len(servers')]
  BY <1>0 DEF InsertDiscovered
<1>2. r \in HandlerRows /\ Asked(r) /\ Found(r) /\ Stored /\ OneTokenEach /\ Handling /\ Marked
      /\ handler[k] = r /\ DOMAIN handler = Handlers
  BY <1>0, BootIs DEF Handling
<1>3. r.wants \in Scripted /\ r.dep = 0 /\ r.mac \in Macs
  BY <1>1, <1>2 DEF Asked
<1>4. CASE ServersOf(r.mac) # {}
  <2>1. UNCHANGED <<rows, marks>> /\ handler' = [handler EXCEPT ![k] = Idle]
    BY <1>1, <1>4 DEF rows
  <2>2. PICK c : c = Idle
    OBVIOUS
  <2>3. Asked(c) /\ Found(c)
    BY <2>2, IdleIs
  <2> QED
    BY <1>1, <2>1, <2>2, <2>3, WorldIs, MovesKeep
<1>5. CASE ServersOf(r.mac) = {}
  <2>1. PICK s, row : s = Len(servers') /\ row = [mac |-> r.mac, discovered |-> 1]
    OBVIOUS
  <2>2. PICK c : c = [r EXCEPT !.pc = "record", !.server = s]
    OBVIOUS
  <2>3. row \in ServerRows /\ row.mac = r.mac
    BY <1>3, <2>1 DEF ServerRows
  <2>4. servers' = Append(servers, row) /\ handler' = [handler EXCEPT ![k] = c]
    BY <1>1, <1>2, <1>5, <2>1, <2>2
  <2>5. /\ Stored' /\ OneTokenEach' /\ ServersGrown /\ DeploymentsGrown /\ TokensGrown
        /\ s \in DOMAIN servers'
    <3>1. clock' = clock
      BY <1>1 DEF world
    <3> QED
      BY <1>1, <1>2, <1>5, <2>1, <2>3, <2>4, <3>1, ServerAdded
  <2>6. s \in Nat
    <3>1. servers \in Seq(ServerRows)
      BY <1>2 DEF Stored
    <3> QED
      BY <2>1, <2>3, <2>4, <3>1, AppendRow, RowsAre
  <2>7. /\ c \in HandlerRows /\ c.pc = "record" /\ c.server = s /\ c.dep = r.dep /\ c.row = r.row /\ c.wants = r.wants
        /\ c.mac = r.mac /\ c.source = r.source
    BY <1>2, <2>2, <2>6 DEF HandlerRows
  <2>8. UNCHANGED <<bootEvents, accesses, handed, raced>>
    BY <1>1 DEF marks
  <2>9. Grown /\ Around'
    BY <1>1, <2>5, <2>8, TablesMove
  <2>10. Marked'
    <3>1. raced' \subseteq DOMAIN tokens'
      BY <1>1, <1>2, <2>8 DEF Marked
    <3> QED
      BY <1>2, <2>8, <2>9, <3>1, MarksStay
  <2>11. Asked(c)
    BY <1>2, <1>3, <2>7 DEF Asked
  <2>12. Found(c)'
    <3>1. c.row \in {0} \union DOMAIN tokens'
      BY <1>1, <1>2, <2>7 DEF Found
    <3> QED
      BY <1>3, <2>5, <2>7, <3>1 DEF Found
  <2>15. \A j \in Handlers : KeepsRow(handler[j])
    BY <1>1, RowsKept
  <2>16. Handling'
    BY <1>2, <2>4, <2>9, <2>11, <2>12, <2>15, HandlerMoves
  <2> QED
    BY <2>5, <2>9, <2>10, <2>16 DEF BootInv
<1> QED
  BY <1>4, <1>5

(* The operators' steps write the tables; the goroutines stay where they are. *)
LEMMA OperatorKeeps ==
  ASSUME BootInv, UNCHANGED <<world, handler, bootEvents, accesses, handed>>,
         Stored', OneTokenEach', ServersGrown, DeploymentsGrown, TokensGrown, raced \subseteq raced', raced' \subseteq DOMAIN tokens',
         \A j \in Handlers : KeepsRow(handler[j])
  PROVE  BootInv'
<1>1. Stored /\ Handling /\ Marked
  BY DEF BootInv
<1>2. Grown /\ Around'
  BY TablesMove
<1>3. Marked'
  BY <1>1, <1>2, MarksStay
<1>4. Handling'
  BY <1>1, <1>2, HandlersStay
<1> QED
  BY <1>2, <1>3, <1>4 DEF BootInv

LEMMA CreateServerKeeps ==
  ASSUME BootInv, NEW m \in Macs, CreateServer(m)
  PROVE  BootInv'
<1>1. PICK row : row = [mac |-> m, discovered |-> 0]
  OBVIOUS
<1>2. row \in ServerRows /\ row.mac = m
  BY <1>1 DEF ServerRows
<1>3. /\ UNCHANGED <<deps, tokens, issued, clock, world, handler, bootEvents, accesses, handed, raced>>
      /\ servers' = Append(servers, row) /\ ServersOf(row.mac) = {}
  BY <1>1, <1>2 DEF CreateServer, world, marks
<1>4. Stored /\ OneTokenEach /\ raced \subseteq DOMAIN tokens
  BY DEF BootInv, Marked
<1>5. /\ Stored' /\ OneTokenEach' /\ ServersGrown /\ DeploymentsGrown /\ TokensGrown
  BY <1>2, <1>3, <1>4, ServerAdded
<1>6. \A j \in Handlers : KeepsRow(handler[j])
  BY <1>3, RowsKept
<1>7. raced \subseteq raced' /\ raced' \subseteq DOMAIN tokens'
  BY <1>3, <1>4
<1> QED
  BY <1>3, <1>5, <1>6, <1>7, OperatorKeeps

LEMMA CreateDeploymentKeeps ==
  ASSUME BootInv, NEW s \in DOMAIN servers, CreateDeployment(s)
  PROVE  BootInv'
<1>1. /\ UNCHANGED <<servers, clock, world, handler, bootEvents, accesses, handed, raced>>
      /\ deps' = Append(deps, [server |-> s, active |-> TRUE])
      /\ tokens' = Append(tokens, Fresh(s, Len(deps'))) /\ issued' = issued + 1
  BY DEF CreateDeployment, world, marks
<1>2. Stored /\ OneTokenEach /\ raced \subseteq DOMAIN tokens
  BY DEF BootInv, Marked
<1>3. /\ Stored' /\ OneTokenEach' /\ ServersGrown /\ DeploymentsGrown /\ TokensGrown
      /\ \A i \in DOMAIN tokens : tokens'[i] = tokens[i]
  BY <1>1, <1>2, DeploymentAdded
<1>4. \A j \in Handlers : KeepsRow(handler[j])
  BY <1>3, RowsKept
<1>5. raced \subseteq raced' /\ raced' \subseteq DOMAIN tokens'
  BY <1>1, <1>2, <1>3 DEF TokensGrown
<1> QED
  BY <1>1, <1>3, <1>4, <1>5, OperatorKeeps

LEMMA SettleKeeps ==
  ASSUME BootInv, NEW d \in DOMAIN deps, Settle(d)
  PROVE  BootInv'
<1>1. PICK row : row = [deps[d] EXCEPT !.active = FALSE]
  OBVIOUS
<1>2. Stored /\ OneTokenEach /\ raced \subseteq DOMAIN tokens
  BY DEF BootInv, Marked
<1>3. row \in DeploymentRows /\ row.server = deps[d].server
  <2>1. deps[d] \in DeploymentRows
    BY <1>2, StoredIs
  <2> QED
    BY <1>1, <2>1 DEF DeploymentRows
<1>4. /\ UNCHANGED <<servers, tokens, issued, clock, world, handler, bootEvents, accesses, handed, raced>>
      /\ deps' = [deps EXCEPT ![d] = row]
  BY <1>1 DEF Settle, world, marks
<1>5. /\ Stored' /\ OneTokenEach' /\ ServersGrown /\ DeploymentsGrown /\ TokensGrown
  BY <1>2, <1>3, <1>4, DeploymentMarked
<1>6. \A j \in Handlers : KeepsRow(handler[j])
  BY <1>4, RowsKept
<1>7. raced \subseteq raced' /\ raced' \subseteq DOMAIN tokens'
  BY <1>2, <1>4
<1> QED
  BY <1>4, <1>5, <1>6, <1>7, OperatorKeeps

LEMMA RetryKeeps ==
  ASSUME BootInv, NEW d \in DOMAIN deps, RetryDeployment(d)
  PROVE  BootInv'
<1>0. PICK dep, s, i : dep = [deps[d] EXCEPT !.active = TRUE] /\ s = deps[d].server /\ i = Least(RowsOf(s, d))
  OBVIOUS
<1>1. Stored /\ OneTokenEach /\ Handling /\ raced \subseteq DOMAIN tokens
  BY DEF BootInv, Marked
<1>2. dep \in DeploymentRows /\ dep.server = s /\ s \in Nat /\ d \in Nat
  <2>1. deps[d] \in DeploymentRows /\ d \in Nat
    BY <1>1, StoredIs
  <2> QED
    BY <1>0, <2>1 DEF DeploymentRows
<1>3. /\ UNCHANGED <<servers, clock, world, handler, bootEvents, accesses, handed>> /\ RowsOf(s, d) # {}
      /\ deps' = [deps EXCEPT ![d] = dep]
      /\ \/ UNCHANGED <<tokens, issued, raced>>
         \/ /\ ~Valid(tokens[i]) /\ tokens' = [tokens EXCEPT ![i] = Fresh(s, d)] /\ issued' = issued + 1
            /\ raced' = IF Rotating(i) = {} THEN raced ELSE raced \union {i}
  BY <1>0 DEF RetryDeployment, world
<1>4. CASE UNCHANGED <<tokens, issued, raced>>
  <2>1. Stored' /\ OneTokenEach' /\ ServersGrown /\ DeploymentsGrown /\ TokensGrown
    BY <1>0, <1>1, <1>2, <1>3, <1>4, DeploymentMarked
  <2>2. \A j \in Handlers : KeepsRow(handler[j])
    BY <1>4, RowsKept
  <2>3. raced \subseteq raced' /\ raced' \subseteq DOMAIN tokens'
    BY <1>1, <1>4
  <2> QED
    BY <1>3, <2>1, <2>2, <2>3, OperatorKeeps
<1>5. CASE /\ ~Valid(tokens[i]) /\ tokens' = [tokens EXCEPT ![i] = Fresh(s, d)] /\ issued' = issued + 1
           /\ raced' = IF Rotating(i) = {} THEN raced ELSE raced \union {i}
  <2>0. PICK row : row = Fresh(s, d)
    OBVIOUS
  <2>1. i \in DOMAIN tokens /\ tokens[i].server = s /\ tokens[i].dep = d
    <3>1. RowsOf(s, d) \subseteq Nat
      BY <1>1, StoredIs DEF RowsOf
    <3>2. i \in RowsOf(s, d)
      BY <1>0, <1>3, <3>1, LeastIs
    <3> QED
      BY <3>2 DEF RowsOf
  <2>2. /\ row \in TokenRows /\ row.server = s /\ row.dep = d /\ row.value \in 1 .. issued'
        /\ row.expires \in TokenLife .. MaxTime + TokenLife /\ issued' \in Nat /\ issued <= issued'
    BY <1>1, <1>2, <1>5, <2>0, FreshIs
  <2>3. clock >= tokens[i].expires
    <3>1. clock \in Nat /\ tokens[i].expires \in Nat
      BY <1>1, <2>1, StoredIs
    <3> QED
      BY <1>5, <3>1 DEF Valid
  <2>4. deps' \in Seq(DeploymentRows) /\ DOMAIN deps' = DOMAIN deps /\ \A e \in DOMAIN deps : deps'[e].server = deps[e].server
    <3>1. deps \in Seq(DeploymentRows)
      BY <1>1 DEF Stored
    <3> QED
      BY <1>0, <1>2, <1>3, <3>1, ReplaceRow
  <2>5. tokens' = [tokens EXCEPT ![i] = row]
    BY <1>5, <2>0
  <2>6. Stored' /\ OneTokenEach' /\ ServersGrown /\ DeploymentsGrown /\ TokensGrown
    BY <1>1, <1>3, <2>1, <2>2, <2>3, <2>4, <2>5, RowsReplaced
  <2>7. DOMAIN tokens' = DOMAIN tokens /\ \A j \in DOMAIN tokens : j # i => tokens'[j] = tokens[j]
    <3>1. tokens \in Seq(TokenRows)
      BY <1>1 DEF Stored
    <3> QED
      BY <2>1, <2>2, <2>5, <3>1, ReplaceRow
  <2>8. raced \subseteq raced' /\ raced' \subseteq DOMAIN tokens'
    BY <1>1, <1>5, <2>1, <2>7
  <2>9. ASSUME NEW j \in Handlers PROVE KeepsRow(handler[j])
    <3>1. SUFFICES ASSUME handler[j].pc = "rotate"
                   PROVE  handler[j].row \in raced' \/ tokens'[handler[j].row].expires = tokens[handler[j].row].expires
      BY DEF KeepsRow
    <3>2. Found(handler[j])
      BY <1>1 DEF Handling
    <3>3. handler[j].row \in DOMAIN tokens
      BY <3>1, <3>2 DEF Found
    <3>4. CASE handler[j].row = i
      <4>1. j \in Rotating(i)
        BY <3>1, <3>4 DEF Rotating
      <4>2. i \in raced'
        BY <1>5, <4>1
      <4> QED
        BY <3>4, <4>2
    <3>5. CASE handler[j].row # i
      BY <2>7, <3>3, <3>5
    <3> QED
      BY <3>4, <3>5
  <2> QED
    BY <1>3, <2>6, <2>8, <2>9, OperatorKeeps
<1> QED
  BY <1>3, <1>4, <1>5

LEMMA NetworkKeeps ==
  ASSUME BootInv, SetNetwork
  PROVE  BootInv'
<1>1. UNCHANGED <<rows, marks, clock, mode, hits, handler>> /\ network' \in BOOLEAN
  BY AroundIs DEF SetNetwork
<1>2. Around' /\ clock' \in 0 .. MaxTime /\ clock <= clock'
  BY <1>1, AroundIs DEF Around
<1> QED
  BY <1>1, <1>2, TurnsKeep

LEMMA TimeKeeps ==
  ASSUME BootInv, PassTime
  PROVE  BootInv'
<1>1. UNCHANGED <<rows, marks, mode, network, hits, handler>> /\ clock < MaxTime /\ clock' = clock + 1
  BY DEF PassTime
<1>2. clock' \in 0 .. MaxTime /\ clock <= clock'
  BY <1>1, AroundIs, BootBounds
<1>3. Around'
  BY <1>1, AroundIs DEF Around
<1> QED
  BY <1>1, <1>2, <1>3, TurnsKeep

LEMMA BootStutters ==
  ASSUME BootInv, UNCHANGED bootVars
  PROVE  BootInv'
<1>1. UNCHANGED <<rows, marks, handler, world>> /\ clock' = clock
  BY DEF bootVars, world
<1> QED
  BY <1>1, AroundIs, WorldIs, TurnsKeep

LEMMA BootInitially == BootInit => BootInv
<1> SUFFICES ASSUME BootInit PROVE BootInv
  OBVIOUS
<1>1. /\ clock = 0 /\ servers = <<>> /\ deps = <<>> /\ tokens = <<>> /\ issued = 0 /\ bootEvents = {} /\ accesses = {}
      /\ handed = {} /\ raced = {} /\ handler = [k \in Handlers |-> Idle]
  BY DEF BootInit
<1>2. DOMAIN servers = {} /\ DOMAIN deps = {} /\ DOMAIN tokens = {}
  BY <1>1
<1>3. Stored
  <2>1. clock \in 0 .. MaxTime /\ issued \in Nat
    BY <1>1, BootBounds
  <2>2. servers \in Seq(ServerRows) /\ deps \in Seq(DeploymentRows) /\ tokens \in Seq(TokenRows)
    BY <1>1
  <2> QED
    BY <1>2, <2>1, <2>2 DEF Stored
<1>4. OneTokenEach
  BY <1>2 DEF OneTokenEach
<1>5. Handling
  BY <1>1, IdleIs DEF Handling
<1>6. Marked
  BY <1>1 DEF Marked
<1>7. Around
  <2>1. mode \in Modes /\ network \in BOOLEAN /\ hits = 0
    BY DEF BootInit
  <2> QED
    BY <2>1, BootBounds DEF Around
<1> QED
  BY <1>3, <1>4, <1>5, <1>6, <1>7 DEF BootInv

LEMMA BootStep == BootInv /\ [BootNext]_bootVars => BootInv'
<1> SUFFICES ASSUME BootInv, [BootNext]_bootVars PROVE BootInv'
  OBVIOUS
<1>1. ASSUME NEW k \in Handlers, HandlerStep(k) PROVE BootInv'
  BY <1>1, FindKeeps, DiscoverKeeps, InsertServerKeeps, DeploymentFoundKeeps, ReadKeeps, InsertKeeps, RotateKeeps, RecordKeeps,
     AnswerKeeps DEF HandlerStep
<1>2. ASSUME NEW k \in Handlers, NEW m \in Macs, NEW class \in {"netboot", "os", "probe"}, HandleDHCPPacket(k, m, class)
      PROVE  BootInv'
  BY <1>2, DHCPKeeps
<1>3. ASSUME NEW k \in Handlers, NEW m \in Macs, RenderIPXE(k, m) \/ RecordBootEvent(k, m) PROVE BootInv'
  BY <1>3, ScriptKeeps, EventKeeps
<1>4. ASSUME NEW k \in Handlers, NEW m \in Macs, NEW wants \in {"userdata", "field"}, MetadataOfServer(k, m, wants)
      PROVE  BootInv'
  BY <1>4, MetadataKeeps
<1>5. ASSUME NEW k \in Handlers, NEW d \in DOMAIN deps, NEW wants \in {"userdata", "field"}, MetadataByDeployment(k, d, wants)
      PROVE  BootInv'
  BY <1>5, ByDeploymentKeeps
<1>6. ASSUME NEW k \in Handlers, NEW t \in handed, MetadataByToken(k, t) PROVE BootInv'
  BY <1>6, ByTokenKeeps
<1>7. ASSUME NEW m \in Macs, CreateServer(m) PROVE BootInv'
  BY <1>7, CreateServerKeeps
<1>8. ASSUME NEW s \in DOMAIN servers, CreateDeployment(s) PROVE BootInv'
  BY <1>8, CreateDeploymentKeeps
<1>9. ASSUME NEW d \in DOMAIN deps, Settle(d) \/ RetryDeployment(d) PROVE BootInv'
  BY <1>9, SettleKeeps, RetryKeeps
<1>10. CASE SetNetwork \/ PassTime
  BY <1>10, NetworkKeeps, TimeKeeps
<1>11. CASE UNCHANGED bootVars
  BY <1>11, BootStutters
<1> QED
  BY <1>1, <1>2, <1>3, <1>4, <1>5, <1>6, <1>7, <1>8, <1>9, <1>10, <1>11 DEF BootNext

LEMMA BootInvariant == BootSpec => []BootInv
BY BootInitially, BootStep, PTL DEF BootSpec

(***************************************************************************)
(* What the invariant says of the machines.                                *)
(***************************************************************************)
LEMMA BootTypesAre == BootInv => BootTypeOK
<1> SUFFICES ASSUME BootInv PROVE BootTypeOK
  OBVIOUS
<1>1. Stored /\ Handling /\ Marked /\ Around
  BY DEF BootInv
<1>2. clock \in 0 .. MaxTime /\ mode \in Modes /\ network \in BOOLEAN /\ hits \in 0 .. MaxRequests
      /\ raced \subseteq DOMAIN tokens
  BY <1>1 DEF Stored, Around, Marked
<1>3. \A s \in DOMAIN servers : servers[s] \in [mac : Macs, discovered : 0 .. 1]
  BY <1>1, StoredIs DEF ServerRows
<1>4. ASSUME NEW d \in DOMAIN deps PROVE deps[d] \in [server : DOMAIN servers, active : BOOLEAN]
  BY <1>1, StoredIs DEF DeploymentRows
<1>5. ASSUME NEW i \in DOMAIN tokens
      PROVE  tokens[i] \in [value : 1 .. issued, server : DOMAIN servers, dep : {0} \union DOMAIN deps,
                            expires : TokenLife .. MaxTime + TokenLife, used : BOOLEAN]
  <2>1. tokens[i] \in TokenRows
    BY <1>1, StoredIs
  <2>2. /\ tokens[i].server \in DOMAIN servers /\ tokens[i].dep \in {0} \union DOMAIN deps
        /\ tokens[i].value \in 1 .. issued /\ tokens[i].expires \in TokenLife .. MaxTime + TokenLife
    BY <1>1 DEF Stored
  <2> QED
    BY <2>1, <2>2 DEF TokenRows
<1>6. bootEvents \subseteq [mac : Macs, source : BootSources, server : DOMAIN servers, dep : {0} \union DOMAIN deps]
      /\ accesses \subseteq [server : DOMAIN servers, dep : {0} \union DOMAIN deps]
  BY <1>1 DEF Marked
<1>7. \A k \in Handlers : handler[k].pc \in {"idle", "find", "create", "insert", "deployment", "token", "new",
                                            "rotate", "record", "answer"}
  <2>1. \A k \in Handlers : handler[k] \in HandlerRows
    BY <1>1 DEF Handling, Asked
  <2> QED
    BY <2>1 DEF HandlerRows
<1> QED
  BY <1>2, <1>3, <1>4, <1>5, <1>6, <1>7 DEF BootTypeOK

(* The rows, traces and goroutines of the boot service have their types,    *)
(* whatever requests overlap and whatever operators do meanwhile.           *)
THEOREM BootTypesHold == BootSpec => []BootTypeOK
BY BootInvariant, BootTypesAre, PTL

(* EnsureMetadataToken and metadataFromToken: the token of a script or of   *)
(* userdata leads to what it was handed out for during its life, unless two *)
(* requests that both found it expired rotated it.                          *)
THEOREM HandedTokensWork == BootSpec => []HandedTokenWorks
<1>1. BootInv => HandedTokenWorks
  <2> SUFFICES ASSUME BootInv, NEW t \in handed, clock < t.expires, t.row \notin raced
               PROVE  \E i \in DOMAIN tokens : /\ tokens[i].value = t.value /\ tokens[i].expires = t.expires
                                               /\ tokens[i].server = t.server /\ tokens[i].dep = t.dep
    BY DEF HandedTokenWorks
  <2>1. Works(t) /\ clock \in Nat
    BY StoredIs DEF BootInv, Marked
  <2>2. ~(clock >= t.expires)
    BY <2>1 DEF Works
  <2> QED
    BY <2>1, <2>2 DEF Works
<1> QED
  BY <1>1, BootInvariant, PTL

(* createDeploymentInTx, EnsureMetadataToken and retryDeployment: however   *)
(* many of them meet, a deployment has one token row.                       *)
THEOREM OneTokenRow == BootSpec => []SingleTokenRow
<1>1. BootInv => SingleTokenRow
  BY DEF BootInv, OneTokenEach, SingleTokenRow
<1> QED
  BY <1>1, BootInvariant, PTL

(* createDiscoveredServer and CreateServer: a MAC is of one server.         *)
THEOREM MachinesFoundOnce == BootSpec => []DiscoveredOnce
<1>1. BootInv => DiscoveredOnce
  <2> SUFFICES ASSUME BootInv, NEW m \in Macs PROVE Cardinality(ServersOf(m)) <= 1
    BY DEF DiscoveredOnce
  <2>1. \A s, t \in ServersOf(m) : s = t
    BY DEF BootInv, Stored, ServersOf
  <2>2. CASE ServersOf(m) = {}
    BY <2>2, FS_EmptySet
  <2>3. CASE ServersOf(m) # {}
    <3>1. PICK s : ServersOf(m) = {s}
      BY <2>1, <2>3
    <3>2. Cardinality({s}) = 1
      BY FS_Singleton
    <3> QED
      BY <3>1, <3>2
  <2> QED
    BY <2>2, <2>3
<1> QED
  BY <1>1, BootInvariant, PTL

(* The two services side by side keep the types of both.                    *)
THEOREM NetworkBootTypesHold ==
  ASSUME Blocks < 65535
  PROVE  MCSpec => []NetworkBootTypeOK
<1> DEFINE Both == TftpInv /\ BootInv
<1>1. MCInit => Both
  BY TftpInitially, BootInitially DEF MCInit
<1>2. Both /\ [MCNext]_mcVars => Both'
  <2> SUFFICES ASSUME TftpInv, BootInv, [MCNext]_mcVars PROVE TftpInv' /\ BootInv'
    OBVIOUS
  <2>1. [TftpNext]_tftpVars /\ [BootNext]_bootVars
    BY DEF MCNext, mcVars
  <2> QED
    BY <2>1, TftpStep, BootStep
<1>3. Both => NetworkBootTypeOK
  BY TftpTypes, BootTypesAre DEF NetworkBootTypeOK
<1> HIDE DEF Both
<1> QED
  BY <1>1, <1>2, <1>3, PTL DEF MCSpec
================================================================================
