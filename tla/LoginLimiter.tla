----------------------------- MODULE LoginLimiter -----------------------------
(***************************************************************************)
(* Logins of one email and client address: the limiter lets a request      *)
(* through, the password is compared (slowly, by bcrypt), and the outcome  *)
(* is recorded, each in a step of its own.                                 *)
(***************************************************************************)
EXTENDS Integers, Sequences, FiniteSets

CONSTANTS
  Logins,        \* goroutines of the HTTP server
  Limit,         \* LOGIN_RATE_LIMIT_ATTEMPTS
  Window,        \* LOGIN_RATE_LIMIT_WINDOW
  MaxNow,        \* bound on the clock
  MaxFailures    \* bound on failed logins

ASSUME LimiterAssumption ==
  /\ IsFiniteSet(Logins) /\ Logins # {}
  /\ {Limit, Window} \subseteq Nat \ {0} /\ {MaxNow, MaxFailures} \subseteq Nat

VARIABLES
  now,
  attempt,       \* loginAttempt of the key; count 0 is none
  checking,      \* logins past allow whose password is being compared
  failures       \* times of the failures since the last success

limiterVars == <<now, attempt, checking, failures>>

Never == -1
NoAttempt == [count |-> 0, firstSeen |-> Never, blockedTil |-> Never]

LimiterInit == now = 0 /\ attempt = NoAttempt /\ checking = {} /\ failures = <<>>

(* cleanup: a block that is over, or a first failure a window ago. *)
Cleaned ==
  IF \/ attempt.blockedTil # Never /\ now >= attempt.blockedTil
     \/ attempt.blockedTil = Never /\ now - attempt.firstSeen >= Window
  THEN NoAttempt ELSE attempt

(* allow forgets what is over; a blocked request ends here. *)
Allow(h) ==
  /\ h \notin checking /\ Len(failures) < MaxFailures
  /\ attempt' = Cleaned
  /\ checking' = IF Cleaned.blockedTil = Never \/ now >= Cleaned.blockedTil THEN checking \union {h} ELSE checking
  /\ UNCHANGED <<now, failures>>

X_Counted ==
  LET base == IF attempt.firstSeen = Never \/ now - attempt.firstSeen > Window
              THEN [NoAttempt EXCEPT !.firstSeen = now] ELSE attempt
      til == base.firstSeen + Window
  IN [base EXCEPT !.count = @ + 1,
                  !.blockedTil = IF base.count + 1 > Limit THEN (IF til > now THEN til ELSE now + Window) ELSE @]

(* The attempt after one more failure. *)
Counted ==
  LET base == IF attempt.firstSeen = Never \/ now - attempt.firstSeen > Window
              THEN [NoAttempt EXCEPT !.firstSeen = now] ELSE attempt
      til == base.firstSeen + Window
  IN [base EXCEPT !.count = @ + 1,
                  !.blockedTil = IF base.count + 1 >= Limit THEN (IF til > now THEN til ELSE now + Window) ELSE @]

RecordFailure(h) ==
  /\ h \in checking
  /\ attempt' = Counted
  /\ failures' = Append(failures, now)
  /\ checking' = checking \ {h}
  /\ UNCHANGED now

Reset(h) ==
  /\ h \in checking
  /\ attempt' = NoAttempt /\ failures' = <<>>
  /\ checking' = checking \ {h}
  /\ UNCHANGED now

Tick == now < MaxNow /\ now' = now + 1 /\ UNCHANGED <<attempt, checking, failures>>

LimiterNext == (\E h \in Logins : Allow(h) \/ RecordFailure(h) \/ Reset(h)) \/ Tick

LimiterSpec == LimiterInit /\ [][LimiterNext]_limiterVars

LimiterTypeOK ==
  /\ now \in 0..MaxNow /\ checking \subseteq Logins /\ Len(failures) <= MaxFailures + Cardinality(Logins)
  /\ attempt.count \in 0..(MaxFailures + Cardinality(Logins)) /\ attempt.firstSeen \in Never..MaxNow
  /\ attempt.blockedTil \in Never..(MaxNow + Window)

(* Within any window there are at most two limits of failures, less one   *)
(* each, and the logins whose passwords were being compared when the key  *)
(* was blocked: a block runs from the first failure, so the failures of   *)
(* two counts may meet in one window (loginRateLimiter).                  *)
FailuresBounded ==
  \A t \in 0..now :
    Cardinality({i \in DOMAIN failures : t - Window < failures[i] /\ failures[i] <= t})
      <= 2 * (Limit - 1 + Cardinality(Logins)) - 1
===============================================================================
