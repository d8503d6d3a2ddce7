--------------------------- MODULE TerminalSessions ---------------------------
(***************************************************************************)
(* Terminal sessions: a command is run on the server between the read of   *)
(* the session's row and the write of its transcript, and a session is     *)
(* closed by an operator or, past its TTL, by whoever lists the sessions.  *)
(* A transcript is the set of the entries appended to it, told apart by    *)
(* the handler call that wrote them.                                       *)
(***************************************************************************)
EXTENDS Integers, FiniteSets

CONSTANTS
  Sessions,     \* bound on sessions
  Callers,      \* goroutines of the HTTP server
  MaxCalls      \* bound on calls after the opening ones

ASSUME TerminalAssumption == Sessions \subseteq Nat /\ MaxCalls \in Nat

VARIABLES
  sessions,     \* terminal_sessions rows, by id
  expired,      \* sessions older than the TTL
  caller,       \* the call each goroutine is in
  calls,        \* calls so far
  entries,      \* entries a finished call appended, by session
  contended     \* entries written while another call held a copy of the row

termVars == <<sessions, expired, caller, calls, entries, contended>>

Waiting == [pc |-> "idle", call |-> 0, session |-> 0, copy |-> {}, due |-> [s \in {} |-> {}]]

(* Copies of a row in the hands of other callers. *)
Holders(h, s) ==
  {g \in Callers \ {h} : caller[g].pc # "idle" /\ (caller[g].session = s \/ s \in DOMAIN caller[g].due)}

TermInit ==
  /\ sessions = [s \in {} |-> Waiting] /\ expired = {}
  /\ caller = [h \in Callers |-> Waiting]
  /\ calls = 0 /\ entries = [s \in Sessions |-> {}] /\ contended = [s \in Sessions |-> {}]

Rest(h) == caller' = [caller EXCEPT ![h] = Waiting]

(* Open: an operable server, whose SSH connection was tried first. *)
OpenSession(s) ==
  /\ s \notin DOMAIN sessions
  /\ sessions' = [t \in DOMAIN sessions \union {s} |->
                    IF t = s THEN [status |-> "active", transcript |-> {0}] ELSE sessions[t]]
  /\ UNCHANGED <<expired, caller, calls, entries, contended>>

(* Each call begins by reading the row. *)
Call(h, pc, s) ==
  /\ caller[h].pc = "idle" /\ calls < MaxCalls
  /\ calls' = calls + 1
  /\ caller' = [caller EXCEPT ![h] = [pc |-> pc, call |-> calls + 1, session |-> s,
                                     copy |-> sessions[s].transcript, due |-> Waiting.due]]
  /\ UNCHANGED <<sessions, expired, entries, contended>>

StartCommand(h, s) == sessions[s].status = "active" /\ Call(h, "command", s)

StartClose(h, s) == sessions[s].status # "closed" /\ Call(h, "close", s)

(* The sessions CloseExpired will close, as they are now. *)
StartExpiry(h) ==
  LET due == {s \in expired : sessions[s].status = "active"} IN
  /\ caller[h].pc = "idle" /\ calls < MaxCalls /\ due # {}
  /\ calls' = calls + 1
  /\ caller' = [caller EXCEPT ![h] = [pc |-> "expiry", call |-> calls + 1, session |-> 0, copy |-> {},
                                     due |-> [s \in due |-> sessions[s].transcript]]]
  /\ UNCHANGED <<sessions, expired, entries, contended>>

X_Appended(copy, call) == {call}

(* The entry of a call, appended to the transcript it read. *)
Appended(copy, call) == copy \union {call}

Store(h, s, row) ==
  /\ sessions' = [sessions EXCEPT ![s] = row]
  /\ entries' = [entries EXCEPT ![s] = @ \union {caller[h].call}]
  /\ contended' = [contended EXCEPT ![s] = IF Holders(h, s) = {} THEN @ ELSE @ \union {caller[h].call}]

X_EndCommand(h) ==
  LET s == caller[h].session IN
  /\ caller[h].pc = "command"
  /\ Store(h, s, [status |-> "active", transcript |-> Appended(caller[h].copy, caller[h].call)])
  /\ Rest(h) /\ UNCHANGED <<expired, calls>>

(* The command has run on the server: only the transcript is written. *)
EndCommand(h) ==
  LET s == caller[h].session IN
  /\ caller[h].pc = "command"
  /\ Store(h, s, [sessions[s] EXCEPT !.transcript = Appended(caller[h].copy, caller[h].call)])
  /\ Rest(h) /\ UNCHANGED <<expired, calls>>

(* Close writes without looking at the row again. *)
EndClose(h) ==
  LET s == caller[h].session IN
  /\ caller[h].pc = "close"
  /\ Store(h, s, [status |-> "closed", transcript |-> Appended(caller[h].copy, caller[h].call)])
  /\ Rest(h) /\ UNCHANGED <<expired, calls>>

(* CloseExpired takes its sessions in order and skips one closed by then. *)
ExpireNext(h) ==
  LET due == caller[h].due
      s == CHOOSE i \in DOMAIN due : \A j \in DOMAIN due : i <= j IN
  /\ caller[h].pc = "expiry" /\ DOMAIN due # {}
  /\ IF sessions[s].status = "active"
     THEN Store(h, s, [status |-> "closed", transcript |-> Appended(due[s], caller[h].call)])
     ELSE UNCHANGED <<sessions, entries, contended>>
  /\ caller' = [caller EXCEPT ![h].due = [t \in DOMAIN due \ {s} |-> due[t]]]
  /\ UNCHANGED <<expired, calls>>

EndExpiry(h) ==
  /\ caller[h].pc = "expiry" /\ DOMAIN caller[h].due = {}
  /\ Rest(h) /\ UNCHANGED <<sessions, expired, calls, entries, contended>>

(* The TTL of a session passes. *)
PassTTL(s) ==
  /\ s \notin expired
  /\ expired' = expired \union {s}
  /\ UNCHANGED <<sessions, caller, calls, entries, contended>>

TermNext ==
  \/ \E s \in Sessions : OpenSession(s)
  \/ \E s \in DOMAIN sessions : PassTTL(s)
  \/ \E h \in Callers : \/ \E s \in DOMAIN sessions : StartCommand(h, s) \/ StartClose(h, s)
                        \/ StartExpiry(h) \/ EndCommand(h) \/ EndClose(h) \/ ExpireNext(h) \/ EndExpiry(h)

TermSpec == TermInit /\ [][TermNext]_termVars

TermTypeOK ==
  /\ DOMAIN sessions \subseteq Sessions /\ expired \subseteq DOMAIN sessions /\ calls \in 0..MaxCalls
  /\ \A s \in DOMAIN sessions :
       sessions[s].status \in {"active", "closed"} /\ sessions[s].transcript \subseteq 0..MaxCalls
  /\ \A h \in Callers : caller[h].pc \in {"idle", "command", "close", "expiry"} /\ caller[h].call \in 0..MaxCalls
  /\ \A s \in Sessions : contended[s] \subseteq entries[s] /\ entries[s] \subseteq 0..MaxCalls

(* The transcript is the audit of a session: the output of a command or   *)
(* the notice of a close stays in it for good, unless it was written      *)
(* while another call still held the older transcript (RunCommand, Close  *)
(* and CloseExpired all write a whole transcript from an earlier read).   *)
EntriesKept ==
  \A s \in DOMAIN sessions : entries[s] \ contended[s] \subseteq sessions[s].transcript

(* A session never leaves "closed", however late a command that was       *)
(* running when it closed writes its transcript.                          *)
ClosedStaysClosed ==
  [][\A s \in DOMAIN sessions : sessions[s].status = "closed" => sessions'[s].status = "closed"]_termVars
===============================================================================
