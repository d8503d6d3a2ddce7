--------------------------- MODULE AdministrationProofs ------------------------
(*****************************************************************************)
(* Proofs about the users, the login limiter, the inventory and its backup,  *)
(* for any number of users, logins, requests, rows and bounds.               *)
(*****************************************************************************)
EXTENDS UserRoles, LoginLimiter, BackupRestore, FiniteSetTheorems, WellFoundedInduction, TLAPS

LEMMA IntervalIs ==
  ASSUME NEW a \in Nat, NEW b \in Nat
  PROVE  /\ IsFiniteSet(a .. b) /\ Cardinality(a .. b) \in Nat
         /\ Cardinality(a .. b) = (IF a > b THEN 0 ELSE b - a + 1)
<1>1. a \in Int /\ b \in Int
  OBVIOUS
<1>2. IsFiniteSet(a .. b) /\ Cardinality(a .. b) = (IF a > b THEN 0 ELSE b - a + 1)
  BY <1>1, FS_Interval
<1> QED
  BY <1>2, FS_CardinalityType

(*****************************************************************************)
(* User roles.                                                               *)
(*****************************************************************************)
(* The rows are numbered from one, and a request under way names a row. *)
UserShape ==
  /\ crossed \in BOOLEAN
  /\ \E n \in Nat : users \in [1..n -> Roles]
  /\ editor \in [Editors -> [pc : {"idle", "read", "write"}, user : Nat, was : Roles \union {"none"},
                             role : Roles \union {"none"}]]
  /\ \A h \in Editors : editor[h].pc # "idle" => editor[h].user \in DOMAIN users /\ editor[h].role \in Roles

(* Whoever is about to demote an administrator has another one to count on. *)
DemotionBacked ==
  \A h \in Editors : editor[h].pc = "write" /\ Demotes(editor[h]) =>
    crossed \/ \E v \in DOMAIN users : users[v] = "admin" /\ v # editor[h].user

UserInv == UserShape /\ AdminRemains /\ DemotionBacked

LEMMA UserInvInit == UserInit => UserInv
<1> SUFFICES ASSUME UserInit PROVE UserInv
  OBVIOUS
<1>1. UserShape
  <2>1. users \in [1..1 -> Roles]
    BY DEF UserInit, Roles
  <2> QED
    BY <2>1 DEF UserInit, UserShape, NoEdit, Roles
<1>2. AdminRemains /\ DemotionBacked
  BY DEF UserInit, AdminRemains, DemotionBacked, NoEdit
<1> QED
  BY <1>1, <1>2 DEF UserInv

(* A new row leaves the others as they are. *)
LEMMA CreateUserKeeps ==
  ASSUME UserInv, NEW role \in Roles, CreateUser(role) PROVE UserInv'
<1> USE DEF UserInv
<1>1. PICK n \in Nat : users \in [1..n -> Roles]
  BY DEF UserShape
<1>2. Cardinality(DOMAIN users) = n
  BY <1>1, FS_Interval
<1>3. users' = [u \in 1..(n + 1) |-> IF u \in 1..n THEN users[u] ELSE role]
  BY <1>1, <1>2 DEF CreateUser
<1>4. users' \in [1..(n + 1) -> Roles] /\ \A u \in DOMAIN users : u \in DOMAIN users' /\ users'[u] = users[u]
  BY <1>1, <1>3
<1>5. UserShape'
  <2>1. n + 1 \in Nat /\ \E m \in Nat : users' \in [1..m -> Roles]
    BY <1>4
  <2> QED
    BY <1>4, <2>1 DEF UserShape, CreateUser
<1>6. AdminRemains' /\ DemotionBacked'
  BY <1>4 DEF AdminRemains, DemotionBacked, CreateUser
<1> QED
  BY <1>5, <1>6

LEMMA ReadUserKeeps ==
  ASSUME UserInv, NEW h \in Editors, NEW u \in DOMAIN users, NEW role \in Roles, ReadUser(h, u, role) PROVE UserInv'
<1> USE DEF UserInv
<1>1. PICK n \in Nat : users \in [1..n -> Roles]
  BY DEF UserShape
<1>2. u \in Nat /\ users[u] \in Roles
  BY <1>1
<1>3. UserShape'
  BY <1>2 DEF UserShape, ReadUser
<1>4. AdminRemains' /\ DemotionBacked'
  BY DEF AdminRemains, DemotionBacked, ReadUser, UserShape
<1> QED
  BY <1>3, <1>4

LEMMA CheckAdminsKeeps ==
  ASSUME UserInv, NEW h \in Editors, CheckAdmins(h) PROVE UserInv'
<1> USE DEF UserInv
<1>1. UserShape'
  BY DEF UserShape, CheckAdmins, NoEdit
<1>2. AdminRemains'
  BY DEF AdminRemains, CheckAdmins
<1>3. DemotionBacked'
  BY DEF DemotionBacked, CheckAdmins, NoEdit, UserShape, RemainingAdmins, Demotes
<1> QED
  BY <1>1, <1>2, <1>3

(* The write: either it takes no administrator away, or the one it counted *)
(* on is there still, and nobody else is about to demote.                   *)
LEMMA WriteRoleKeeps ==
  ASSUME UserInv, NEW h \in Editors, WriteRole(h) PROVE UserInv'
<1> USE DEF UserInv
<1> DEFINE u == editor[h].user
<1>1. PICK n \in Nat : users \in [1..n -> Roles]
  BY DEF UserShape
<1>2. u \in 1..n /\ editor[h].role \in Roles
  BY <1>1 DEF UserShape, WriteRole
<1>3. users' \in [1..n -> Roles] /\ users'[u] = editor[h].role /\ \A v \in 1..n : v # u => users'[v] = users[v]
  BY <1>1, <1>2 DEF WriteRole
<1>4. UserShape'
  BY <1>1, <1>2, <1>3 DEF UserShape, WriteRole, NoEdit
<1>5. \A g \in Editors : editor'[g] = IF g = h THEN NoEdit ELSE editor[g]
  BY DEF UserShape, WriteRole
<1>6. CASE crossed'
  BY <1>4, <1>6 DEF AdminRemains, DemotionBacked
<1>7. CASE ~crossed' /\ users[u] = "admin" /\ editor[h].role # "admin"
  <2>1. editor[h].was = "admin" /\ ~crossed /\ \A g \in Editors \ {h} : ~(editor[g].pc = "write" /\ Demotes(editor[g]))
    BY <1>7 DEF WriteRole
  <2>2. PICK v \in 1..n : users[v] = "admin" /\ v # u
    BY <1>1, <1>7, <2>1 DEF DemotionBacked, Demotes, WriteRole
  <2>3. AdminRemains'
    BY <1>3, <2>2 DEF AdminRemains
  <2>4. DemotionBacked'
    BY <1>5, <2>1 DEF DemotionBacked, NoEdit, Demotes
  <2> QED
    BY <1>4, <2>3, <2>4
<1>8. CASE ~crossed' /\ (users[u] # "admin" \/ editor[h].role = "admin")
  <2>1. \A v \in 1..n : users[v] = "admin" => users'[v] = "admin"
    BY <1>3, <1>8
  <2>2. ~crossed
    BY <1>8 DEF WriteRole
  <2>3. AdminRemains'
    BY <1>1, <1>3, <2>1, <2>2 DEF AdminRemains
  <2>4. DemotionBacked'
    BY <1>1, <1>3, <1>5, <2>1, <2>2 DEF DemotionBacked, NoEdit, Demotes
  <2> QED
    BY <1>4, <2>3, <2>4
<1> QED
  BY <1>4, <1>6, <1>7, <1>8

LEMMA UserInvStep == UserInv /\ [UserNext]_userVars => UserInv'
<1> SUFFICES ASSUME UserInv, [UserNext]_userVars PROVE UserInv'
  OBVIOUS
<1>1. CASE UserNext
  BY <1>1, CreateUserKeeps, ReadUserKeeps, CheckAdminsKeeps, WriteRoleKeeps DEF UserNext
<1>2. CASE UNCHANGED userVars
  BY <1>2 DEF userVars, UserInv, UserShape, AdminRemains, DemotionBacked, Demotes
<1> QED
  BY <1>1, <1>2

(* For any numbers of users, goroutines and updates, the platform keeps an *)
(* administrator unless two requests crossed (updateUser).                 *)
THEOREM AdminStays == UserSpec => []AdminRemains
<1>1. UserInv => AdminRemains
  BY DEF UserInv
<1> QED
  BY <1>1, UserInvInit, UserInvStep, PTL DEF UserSpec

(***************************************************************************)
(* The login limiter.                                                      *)
(***************************************************************************)
(* Failures of one count: those that reach the limit, and the logins under  *)
(* way by then.                                                             *)
Era == Limit - 1 + Cardinality(Logins)

AttemptType ==
  /\ now \in Nat /\ checking \subseteq Logins /\ failures \in Seq(Nat)
  /\ attempt \in [count : Nat, firstSeen : Nat \union {Never}, blockedTil : Nat \union {Never}]

Ordered ==
  /\ \A i \in DOMAIN failures : failures[i] <= now
  /\ \A i, j \in DOMAIN failures : i <= j => failures[i] <= failures[j]

(* Once blocked, a key gains no more than the logins being compared.        *)
Counting ==
  /\ attempt.count = 0 <=> attempt = NoAttempt
  /\ attempt.count # 0 => attempt.firstSeen \in 0 .. now
  /\ \/ attempt.count < Limit /\ attempt.blockedTil = Never
     \/ /\ attempt.count >= Limit /\ attempt.blockedTil >= attempt.firstSeen + Window
        /\ attempt.blockedTil # Never /\ attempt.count + Cardinality(checking) <= Era

(* The failures after the q-th are counted now, those from the p-th to the  *)
(* q-th were the count before, which began a window earlier.                *)
Split(p, q) ==
  /\ p <= q /\ q + attempt.count = Len(failures) /\ q - p <= Era
  /\ attempt.count # 0 => failures[q + 1] = attempt.firstSeen
  /\ p = q => p = 0
  /\ p # q => failures[p + 1] + Window <= (IF attempt.count = 0 THEN now ELSE attempt.firstSeen)

LimiterInv ==
  /\ AttemptType /\ Ordered /\ Counting /\ FailuresBounded
  /\ \E p, q \in 0 .. Len(failures) : Split(p, q)

LEMMA LimiterBounds ==
  /\ Limit \in Nat /\ Limit # 0 /\ Window \in Nat /\ Window # 0
  /\ Cardinality(Logins) \in Nat /\ Cardinality(Logins) # 0 /\ Era \in Nat /\ Limit <= Era
<1>1. Limit \in Nat /\ Limit # 0 /\ Window \in Nat /\ Window # 0 /\ IsFiniteSet(Logins) /\ Logins # {}
  BY LimiterAssumption
<1>2. Cardinality(Logins) \in Nat /\ Cardinality(Logins) # 0
  BY <1>1, FS_CardinalityType, FS_EmptySet
<1> QED
  BY <1>1, <1>2 DEF Era

LEMMA CheckingIs ==
  ASSUME NEW C, C \subseteq Logins, NEW h \in Logins
  PROVE  /\ Cardinality(C) \in Nat /\ Cardinality(C) <= Cardinality(Logins)
         /\ h \in C => Cardinality(C \ {h}) = Cardinality(C) - 1
<1>1. IsFiniteSet(Logins)
  BY LimiterAssumption
<1>2. IsFiniteSet(C) /\ Cardinality(C) <= Cardinality(Logins)
  BY <1>1, FS_Subset
<1>3. Cardinality(C) \in Nat
  BY <1>2, FS_CardinalityType
<1>4. h \in C => Cardinality(C \ {h}) = Cardinality(C) - 1
  BY <1>2, FS_RemoveElement
<1> QED
  BY <1>2, <1>3, <1>4

(* The failures of the window that ends now are of two counts at most, and  *)
(* the first failure of the earlier one is too old.                         *)
LEMMA BoundNow ==
  ASSUME NEW fs \in Seq(Nat), NEW n \in Nat, \A i, j \in DOMAIN fs : i <= j => fs[i] <= fs[j],
         NEW p \in 0 .. Len(fs), NEW q \in 0 .. Len(fs), p <= q, q - p <= Era, Len(fs) - q <= Era,
         p = q => p = 0, p # q => fs[p + 1] + Window <= n
  PROVE  Cardinality({i \in DOMAIN fs : n - Window < fs[i] /\ fs[i] <= n}) <= 2 * Era - 1
<1> DEFINE late == {i \in DOMAIN fs : n - Window < fs[i] /\ fs[i] <= n}
<1>0. /\ Era \in Nat /\ Era # 0 /\ Window \in Nat /\ Len(fs) \in Nat /\ p \in Nat /\ q \in Nat /\ DOMAIN fs = 1 .. Len(fs)
      /\ \A i \in DOMAIN fs : fs[i] \in Nat
  BY LimiterBounds
<1>1. CASE p = q
  <2>1. late \subseteq 1 .. Len(fs)
    BY <1>0
  <2>2. IsFiniteSet(1 .. Len(fs)) /\ Cardinality(1 .. Len(fs)) = Len(fs)
    <3>1. 1 \in Nat /\ Len(fs) \in Nat
      BY <1>0
    <3>2. IsFiniteSet(1 .. Len(fs)) /\ Cardinality(1 .. Len(fs)) = (IF 1 > Len(fs) THEN 0 ELSE Len(fs) - 1 + 1)
      BY <3>1, IntervalIs
    <3> QED
      BY <3>1, <3>2
  <2>3. Cardinality(late) <= Len(fs) /\ Cardinality(late) \in Nat
    BY <2>1, <2>2, FS_Subset, FS_CardinalityType
  <2> HIDE DEF late
  <2>4. Len(fs) <= Era
    BY <1>0, <1>1
  <2>5. Cardinality(late) <= 2 * Era - 1
    BY <1>0, <2>3, <2>4
  <2> QED
    BY <2>5 DEF late
<1>2. CASE p # q
  <2>1. ASSUME NEW i \in late PROVE i \in p + 2 .. Len(fs)
    <3>1. i \in DOMAIN fs /\ fs[i] > n - Window /\ p + 1 \in DOMAIN fs /\ fs[p + 1] + Window <= n
      BY <1>0, <1>2
    <3>2. i <= p + 1 => fs[i] <= fs[p + 1]
      BY <3>1
    <3>3. ~(i <= p + 1)
      BY <1>0, <3>1, <3>2
    <3> QED
      BY <1>0, <3>1, <3>3
  <2>2. IsFiniteSet(p + 2 .. Len(fs)) /\ Cardinality(p + 2 .. Len(fs)) = (IF p + 2 > Len(fs) THEN 0 ELSE Len(fs) - (p + 2) + 1)
    <3>1. p + 2 \in Nat /\ Len(fs) \in Nat
      BY <1>0
    <3> QED
      BY <3>1, IntervalIs
  <2>3. Cardinality(late) <= Cardinality(p + 2 .. Len(fs)) /\ Cardinality(late) \in Nat
    BY <2>1, <2>2, FS_Subset, FS_CardinalityType
  <2> HIDE DEF late
  <2>4. Len(fs) - p <= 2 * Era /\ Len(fs) >= p + 1
    BY <1>0, <1>2
  <2>5. Cardinality(late) <= Len(fs) - (p + 2) + 1
    BY <1>0, <2>2, <2>3, <2>4
  <2>6. Cardinality(late) <= 2 * Era - 1
    BY <1>0, <2>3, <2>4, <2>5
  <2> QED
    BY <2>6 DEF late
<1> QED
  BY <1>1, <1>2

(* A window that ended earlier holds what it held; the one that ends now is *)
(* of the last two counts.                                                  *)
LEMMA WindowsBounded ==
  ASSUME LimiterInv, AttemptType', Ordered', NEW p \in 0 .. Len(failures'), NEW q \in 0 .. Len(failures'), Split(p, q)',
         attempt'.count <= Era,
         \A t \in 0 .. now' : t # now' =>
           {i \in DOMAIN failures' : t - Window < failures'[i] /\ failures'[i] <= t}
             \subseteq {i \in DOMAIN failures : t - Window < failures[i] /\ failures[i] <= t}
             /\ t \in 0 .. now
  PROVE  FailuresBounded'
<1>1. failures' \in Seq(Nat) /\ now' \in Nat /\ Len(failures') \in Nat /\ attempt'.count \in Nat /\ Len(failures) \in Nat
      /\ failures \in Seq(Nat)
  BY DEF AttemptType, LimiterInv
<1>2. Cardinality({i \in DOMAIN failures' : now' - Window < failures'[i] /\ failures'[i] <= now'}) <= 2 * Era - 1
  <2>1. /\ p <= q /\ q + attempt'.count = Len(failures') /\ q - p <= Era /\ (p = q => p = 0)
        /\ p # q => failures'[p + 1] + Window <= (IF attempt'.count = 0 THEN now' ELSE attempt'.firstSeen)
    BY DEF Split
  <2>2. p # q => failures'[p + 1] + Window <= now'
    <3>1. attempt'.count # 0 => failures'[q + 1] = attempt'.firstSeen
      BY DEF Split
    <3>2. attempt'.count # 0 => q + 1 \in DOMAIN failures'
      BY <1>1, <2>1
    <3>3. attempt'.count # 0 => attempt'.firstSeen <= now' /\ attempt'.firstSeen \in Nat
      BY <1>1, <3>1, <3>2 DEF Ordered
    <3>4. p # q => p + 1 \in DOMAIN failures'
      BY <1>1, <2>1
    <3>5. p # q => failures'[p + 1] \in Nat
      BY <1>1, <3>4
    <3>6. CASE attempt'.count = 0
      BY <2>1, <3>6
    <3>7. CASE attempt'.count # 0
      <4>1. Window \in Nat
        BY LimiterBounds
      <4>2. p # q => failures'[p + 1] + Window <= attempt'.firstSeen
        BY <2>1, <3>7
      <4> QED
        BY <1>1, <3>3, <3>5, <3>7, <4>1, <4>2
    <3> QED
      BY <3>6, <3>7
  <2>3. Len(failures') - q <= Era
    BY <1>1, <2>1, LimiterBounds
  <2>4. \A i, j \in DOMAIN failures' : i <= j => failures'[i] <= failures'[j]
    BY DEF Ordered
  <2> QED
    BY <1>1, <2>1, <2>2, <2>3, <2>4, BoundNow
<1>3. ASSUME NEW t \in 0 .. now', t # now'
      PROVE  Cardinality({i \in DOMAIN failures' : t - Window < failures'[i] /\ failures'[i] <= t}) <= 2 * Era - 1
  <2>1. PICK S, T : S = {i \in DOMAIN failures : t - Window < failures[i] /\ failures[i] <= t}
                    /\ T = {i \in DOMAIN failures' : t - Window < failures'[i] /\ failures'[i] <= t}
    OBVIOUS
  <2>2. T \subseteq S /\ t \in 0 .. now
    BY <1>3, <2>1
  <2>3. Cardinality(S) <= 2 * Era - 1
    BY <2>1, <2>2 DEF LimiterInv, FailuresBounded, Era
  <2>4. S \subseteq 1 .. Len(failures)
    BY <1>1, <2>1
  <2>5. IsFiniteSet(1 .. Len(failures))
    <3>1. 1 \in Nat
      OBVIOUS
    <3> QED
      BY <1>1, <3>1, IntervalIs
  <2>6. IsFiniteSet(S) /\ IsFiniteSet(T) /\ Cardinality(T) <= Cardinality(S)
    BY <2>2, <2>4, <2>5, FS_Subset
  <2>7. Cardinality(S) \in Nat /\ Cardinality(T) \in Nat
    BY <2>6, FS_CardinalityType
  <2>8. Cardinality(T) <= 2 * Era - 1
    BY <2>3, <2>6, <2>7, LimiterBounds
  <2> QED
    BY <2>1, <2>8
<1>4. \A t \in 0 .. now' : Cardinality({i \in DOMAIN failures' : t - Window < failures'[i] /\ failures'[i] <= t}) <= 2 * Era - 1
  BY <1>2, <1>3
<1> QED
  BY <1>4 DEF FailuresBounded, Era

LEMMA LimiterIs ==
  ASSUME LimiterInv
  PROVE  /\ AttemptType /\ Ordered /\ Counting /\ FailuresBounded
         /\ now \in Nat /\ checking \subseteq Logins /\ failures \in Seq(Nat) /\ Len(failures) \in Nat
         /\ attempt.count \in Nat /\ attempt.firstSeen \in Nat \union {Never} /\ attempt.blockedTil \in Nat \union {Never}
         /\ attempt.count <= Era
<1>1. AttemptType /\ Ordered /\ Counting /\ FailuresBounded
  BY DEF LimiterInv
<1>2. /\ now \in Nat /\ checking \subseteq Logins /\ failures \in Seq(Nat) /\ Len(failures) \in Nat
      /\ attempt.count \in Nat /\ attempt.firstSeen \in Nat \union {Never} /\ attempt.blockedTil \in Nat \union {Never}
  BY <1>1 DEF AttemptType
<1>3. Cardinality(checking) \in Nat
  BY <1>2, LimiterBounds, LimiterAssumption, FS_Subset, FS_CardinalityType
<1>4. attempt.count <= Era
  BY <1>1, <1>2, <1>3, LimiterBounds DEF Counting
<1> QED
  BY <1>1, <1>2, <1>4

LEMMA NoAttemptIs ==
  /\ NoAttempt \in [count : Nat, firstSeen : Nat \union {Never}, blockedTil : Nat \union {Never}]
  /\ NoAttempt.count = 0 /\ NoAttempt.firstSeen = Never /\ NoAttempt.blockedTil = Never
BY DEF NoAttempt

LEMMA AllowKeeps ==
  ASSUME LimiterInv, NEW h \in Logins, Allow(h)
  PROVE  LimiterInv'
<1>1. /\ attempt' = Cleaned /\ UNCHANGED <<now, failures>>
      /\ checking' = IF Cleaned.blockedTil = Never \/ now >= Cleaned.blockedTil THEN checking \union {h} ELSE checking
  BY DEF Allow
<1>2. PICK p, q \in 0 .. Len(failures) : Split(p, q)
  BY DEF LimiterInv
<1>3. Ordered' /\ FailuresBounded'
  BY <1>1, LimiterIs DEF Ordered, FailuresBounded
<1>4. CASE Cleaned = attempt /\ ~(attempt.blockedTil # Never /\ now >= attempt.blockedTil)
  <2>1. attempt' = attempt /\ (attempt.blockedTil # Never => checking' = checking) /\ checking' \subseteq Logins
    BY <1>1, <1>4, LimiterIs
  <2>2. AttemptType'
    BY <1>1, <2>1, LimiterIs DEF AttemptType
  <2>3. Counting'
    BY <1>1, <2>1, LimiterIs DEF Counting
  <2>4. Split(p, q)'
    BY <1>1, <1>2, <2>1 DEF Split
  <2> QED
    BY <1>1, <1>2, <1>3, <2>2, <2>3, <2>4 DEF LimiterInv
<1>5. CASE Cleaned = NoAttempt
  <2>1. attempt' = NoAttempt /\ checking' \subseteq Logins
    BY <1>1, <1>5, LimiterIs
  <2>2. AttemptType'
    BY <1>1, <2>1, LimiterIs, NoAttemptIs DEF AttemptType
  <2>3. Counting'
    BY <2>1, NoAttemptIs, LimiterBounds DEF Counting
  <2>4. CASE attempt.count = 0
    <3>1. attempt = NoAttempt
      BY <2>4, LimiterIs DEF Counting
    <3>2. Split(p, q)'
      BY <1>1, <1>2, <2>1, <3>1 DEF Split
    <3> QED
      BY <1>1, <1>2, <1>3, <2>2, <2>3, <3>2 DEF LimiterInv
  <2>5. CASE attempt.count # 0
    <3>1. attempt.firstSeen \in Nat /\ attempt.firstSeen + Window <= now
      <4>1. attempt.firstSeen \in 0 .. now
        BY <2>5, LimiterIs DEF Counting
      <4>2. attempt.blockedTil # Never => attempt.blockedTil >= attempt.firstSeen + Window /\ attempt.blockedTil \in Nat
        BY LimiterIs DEF Counting
      <4>3. \/ attempt.blockedTil # Never /\ now >= attempt.blockedTil
            \/ attempt.blockedTil = Never /\ now - attempt.firstSeen >= Window
        BY <1>5, <2>5, NoAttemptIs DEF Cleaned
      <4> QED
        BY <4>1, <4>2, <4>3, LimiterIs, LimiterBounds
    <3>2. q + attempt.count = Len(failures) /\ failures[q + 1] = attempt.firstSeen /\ q \in Nat
      BY <1>2, <2>5 DEF Split
    <3>3. PICK n : n = Len(failures)
      OBVIOUS
    <3>4. n \in 0 .. Len(failures) /\ q <= n /\ n + 0 = n /\ n - q <= Era /\ q # n
      BY <2>5, <3>2, <3>3, LimiterIs, LimiterBounds
    <3>5. Split(q, n)'
      BY <1>1, <2>1, <3>1, <3>2, <3>3, <3>4, NoAttemptIs DEF Split
    <3> QED
      BY <1>1, <1>2, <1>3, <2>2, <2>3, <3>4, <3>5 DEF LimiterInv
  <2> QED
    BY <2>4, <2>5
<1> QED
  BY <1>4, <1>5 DEF Cleaned

LEMMA ResetKeeps ==
  ASSUME LimiterInv, NEW h \in Logins, Reset(h)
  PROVE  LimiterInv'
<1>1. attempt' = NoAttempt /\ failures' = <<>> /\ checking' = checking \ {h} /\ now' = now
  BY DEF Reset
<1>2. AttemptType' /\ Ordered' /\ Counting'
  BY <1>1, LimiterIs, NoAttemptIs, LimiterBounds DEF AttemptType, Ordered, Counting
<1>3. Split(0, 0)'
  BY <1>1, NoAttemptIs, LimiterBounds DEF Split
<1>4. DOMAIN failures' = {} /\ Len(failures') = 0 /\ 0 \in 0 .. Len(failures') /\ NoAttempt.count <= Era
  BY <1>1, NoAttemptIs, LimiterBounds
<1>5. FailuresBounded'
  BY <1>1, <1>2, <1>3, <1>4, LimiterIs, WindowsBounded
<1> QED
  BY <1>2, <1>3, <1>4, <1>5 DEF LimiterInv

LEMMA TickKeeps ==
  ASSUME LimiterInv, Tick
  PROVE  LimiterInv'
<1>1. now' = now + 1 /\ UNCHANGED <<attempt, checking, failures>>
  BY DEF Tick
<1>2. PICK p, q \in 0 .. Len(failures) : Split(p, q)
  BY DEF LimiterInv
<1>3. AttemptType' /\ Counting'
  BY <1>1, LimiterIs DEF AttemptType, Counting
<1>4. Ordered'
  <2>1. ASSUME NEW i \in DOMAIN failures PROVE failures[i] <= now + 1
    <3>1. failures[i] \in Nat /\ failures[i] <= now
      BY LimiterIs DEF Ordered
    <3> QED
      BY <3>1, LimiterIs
  <2> QED
    BY <1>1, <2>1, LimiterIs DEF Ordered
<1>5. Split(p, q)'
  <2>1. p # q => failures[p + 1] + Window <= (IF attempt.count = 0 THEN now + 1 ELSE attempt.firstSeen)
    <3>1. p # q => p + 1 \in DOMAIN failures
      BY <1>2, LimiterIs DEF Split
    <3>2. p # q => failures[p + 1] \in Nat
      BY <3>1, LimiterIs
    <3>3. p # q => failures[p + 1] + Window <= (IF attempt.count = 0 THEN now ELSE attempt.firstSeen)
      BY <1>2 DEF Split
    <3>4. now \in Nat /\ Window \in Nat
      BY LimiterIs, LimiterBounds
    <3> QED
      BY <3>2, <3>3, <3>4
  <2> QED
    BY <1>1, <1>2, <2>1 DEF Split
<1>6. p \in 0 .. Len(failures') /\ q \in 0 .. Len(failures') /\ attempt'.count <= Era
  BY <1>1, <1>2, LimiterIs
<1>7. \A t \in 0 .. now' : t # now' => t \in 0 .. now
  BY <1>1, LimiterIs
<1>8. FailuresBounded'
  BY <1>1, <1>3, <1>4, <1>5, <1>6, <1>7, WindowsBounded
<1> QED
  BY <1>3, <1>4, <1>5, <1>6, <1>8 DEF LimiterInv

(* A failure is counted: by the count of its window, or as the first of a   *)
(* new one.                                                                 *)
LEMMA CountedIs ==
  ASSUME LimiterInv, NEW new, new = Counted
  PROVE  /\ new \in [count : Nat, firstSeen : Nat \union {Never}, blockedTil : Nat \union {Never}]
         /\ new.count # 0 /\ new.firstSeen \in 0 .. now /\ new.firstSeen \in Nat
         /\ \/ new.count < Limit /\ new.blockedTil = Never
            \/ new.count >= Limit /\ new.blockedTil >= new.firstSeen + Window /\ new.blockedTil # Never
         /\ \/ /\ new.count = 1 /\ new.firstSeen = now
               /\ attempt.count # 0 => attempt.firstSeen + Window <= now
            \/ attempt.count # 0 /\ new.count = attempt.count + 1 /\ new.firstSeen = attempt.firstSeen
         /\ new.blockedTil <= now + Window
<1> DEFINE fresh == attempt.firstSeen = Never \/ now - attempt.firstSeen > Window
           start == [NoAttempt EXCEPT !.firstSeen = now]
<1>1. PICK base : base = IF fresh THEN start ELSE attempt
  OBVIOUS
<1>2. PICK c, til : c = base.count + 1 /\ til = (IF base.count + 1 >= Limit
                     THEN (IF base.firstSeen + Window > now THEN base.firstSeen + Window ELSE now + Window) ELSE base.blockedTil)
  OBVIOUS
<1>3. new = [base EXCEPT !.count = c, !.blockedTil = til]
  BY <1>1, <1>2 DEF Counted
<1>4. /\ base \in [count : Nat, firstSeen : Nat \union {Never}, blockedTil : Nat \union {Never}]
      /\ base.firstSeen \in 0 .. now
      /\ \/ fresh /\ base.count = 0 /\ base.firstSeen = now /\ base.blockedTil = Never
         \/ ~fresh /\ base = attempt /\ attempt.count # 0
  <2>1. CASE fresh
    <3>1. base = start
      BY <1>1, <2>1
    <3>2. /\ start \in [count : Nat, firstSeen : Nat \union {Never}, blockedTil : Nat \union {Never}]
          /\ start.count = 0 /\ start.firstSeen = now /\ start.blockedTil = Never
      BY NoAttemptIs, LimiterIs
    <3> QED
      BY <2>1, <3>1, <3>2, LimiterIs
  <2>2. CASE ~fresh
    <3>1. base = attempt /\ attempt \in [count : Nat, firstSeen : Nat \union {Never}, blockedTil : Nat \union {Never}]
      BY <1>1, <2>2, LimiterIs DEF AttemptType
    <3>2. attempt.count # 0
      BY <2>2, NoAttemptIs, LimiterIs DEF Counting
    <3>3. attempt.firstSeen \in 0 .. now
      BY <3>2, LimiterIs DEF Counting
    <3> QED
      BY <2>2, <3>1, <3>2, <3>3
  <2> QED
    BY <2>1, <2>2
<1>5. base.count \in Nat /\ base.firstSeen \in Nat /\ c \in Nat /\ c # 0 /\ til \in Nat \union {Never}
  <2>1. base.count \in Nat /\ base.firstSeen \in Nat /\ base.blockedTil \in Nat \union {Never}
    BY <1>4, LimiterIs
  <2>2. base.firstSeen + Window \in Nat /\ now + Window \in Nat
    BY <2>1, LimiterIs, LimiterBounds
  <2> QED
    BY <1>2, <2>1, <2>2
<1>6. /\ new \in [count : Nat, firstSeen : Nat \union {Never}, blockedTil : Nat \union {Never}]
      /\ new.count = c /\ new.firstSeen = base.firstSeen /\ new.blockedTil = til
  BY <1>3, <1>4, <1>5
<1>7. \/ c < Limit /\ til = Never
      \/ c >= Limit /\ til >= base.firstSeen + Window /\ til # Never
  <2>1. CASE c >= Limit
    <3>1. til = base.firstSeen + Window \/ (til = now + Window /\ base.firstSeen <= now)
      BY <1>2, <1>4, <2>1
    <3>2. til >= base.firstSeen + Window /\ til \in Nat
      BY <1>5, <3>1, LimiterIs, LimiterBounds
    <3> QED
      BY <2>1, <3>2 DEF Never
  <2>2. CASE c < Limit
    <3>1. til = base.blockedTil
      BY <1>2, <1>5, <2>2, LimiterBounds
    <3>2. base.count < Limit
      BY <1>2, <1>5, <2>2, LimiterBounds
    <3>3. base.blockedTil = Never
      BY <1>4, <3>2, LimiterIs, LimiterBounds DEF Counting
    <3> QED
      BY <2>2, <3>1, <3>3
  <2> QED
    BY <1>5, <2>1, <2>2, LimiterBounds
<1>8. \/ c = 1 /\ base.firstSeen = now /\ (attempt.count # 0 => attempt.firstSeen + Window <= now)
      \/ attempt.count # 0 /\ c = attempt.count + 1 /\ base.firstSeen = attempt.firstSeen
  <2>1. CASE fresh
    <3>1. base.count = 0 /\ base.firstSeen = now
      BY <1>4, <2>1
    <3>2. attempt.count # 0 => attempt.firstSeen \in 0 .. now
      BY LimiterIs DEF Counting
    <3>3. attempt.count # 0 => attempt.firstSeen + Window <= now
      BY <2>1, <3>2, LimiterIs, LimiterBounds DEF Never
    <3> QED
      BY <1>2, <3>1, <3>3
  <2>2. CASE ~fresh
    BY <1>2, <1>4, <2>2
  <2> QED
    BY <2>1, <2>2
<1>9. til <= now + Window
  <2>1. CASE c >= Limit
    <3>1. til = base.firstSeen + Window \/ til = now + Window
      BY <1>2, <2>1
    <3> QED
      BY <1>4, <3>1, LimiterIs, LimiterBounds
  <2>2. CASE c < Limit
    BY <1>5, <1>7, <2>2, LimiterIs, LimiterBounds DEF Never
  <2> QED
    BY <1>5, <2>1, <2>2, LimiterBounds
<1> QED
  BY <1>4, <1>5, <1>6, <1>7, <1>8, <1>9

LEMMA RecordFailureKeeps ==
  ASSUME LimiterInv, NEW h \in Logins, RecordFailure(h)
  PROVE  LimiterInv'
<1>1. PICK new : new = Counted
  OBVIOUS
<1>2. /\ h \in checking /\ attempt' = new /\ failures' = Append(failures, now) /\ checking' = checking \ {h} /\ now' = now
  BY <1>1 DEF RecordFailure
<1>3. /\ new \in [count : Nat, firstSeen : Nat \union {Never}, blockedTil : Nat \union {Never}]
      /\ new.count # 0 /\ new.count \in Nat /\ new.firstSeen \in 0 .. now /\ new.firstSeen \in Nat
      /\ \/ new.count < Limit /\ new.blockedTil = Never
         \/ new.count >= Limit /\ new.blockedTil >= new.firstSeen + Window /\ new.blockedTil # Never
      /\ \/ /\ new.count = 1 /\ new.firstSeen = now
            /\ attempt.count # 0 => attempt.firstSeen + Window <= now
         \/ attempt.count # 0 /\ new.count = attempt.count + 1 /\ new.firstSeen = attempt.firstSeen
  BY <1>1, CountedIs
<1>4. PICK n : n = Len(failures) /\ n \in Nat
  BY LimiterIs
<1>5. /\ failures' \in Seq(Nat) /\ Len(failures') = n + 1 /\ failures'[n + 1] = now /\ DOMAIN failures = 1 .. n
      /\ DOMAIN failures' = 1 .. n + 1 /\ \A i \in 1 .. n : failures'[i] = failures[i] /\ failures[i] \in Nat /\ failures[i] <= now
  BY <1>2, <1>4, LimiterIs DEF Ordered
<1>6. PICK p, q \in 0 .. n : Split(p, q)
  BY <1>4 DEF LimiterInv
<1>7. /\ p <= q /\ q + attempt.count = n /\ q - p <= Era
      /\ attempt.count # 0 => failures[q + 1] = attempt.firstSeen
      /\ p = q => p = 0
      /\ p # q => failures[p + 1] + Window <= (IF attempt.count = 0 THEN now ELSE attempt.firstSeen)
      /\ p \in Nat /\ q \in Nat
  BY <1>4, <1>6 DEF Split
<1>8. AttemptType'
  BY <1>2, <1>3, <1>5, LimiterIs DEF AttemptType
<1>9. Ordered'
  <2>1. ASSUME NEW i \in 1 .. n + 1 PROVE failures'[i] <= now /\ failures'[i] \in Nat
    <3>1. i = n + 1 \/ i \in 1 .. n
      BY <1>4
    <3> QED
      BY <1>5, <3>1, LimiterIs
  <2>2. ASSUME NEW i \in 1 .. n + 1, NEW j \in 1 .. n + 1, i <= j PROVE failures'[i] <= failures'[j]
    <3>1. CASE j = n + 1
      BY <1>5, <2>1, <3>1
    <3>2. CASE j # n + 1
      <4>1. i \in 1 .. n /\ j \in 1 .. n
        BY <1>4, <2>2, <3>2
      <4> QED
        BY <1>5, <2>2, <4>1, LimiterIs DEF Ordered
    <3> QED
      BY <3>1, <3>2
  <2> QED
    BY <1>2, <1>5, <2>1, <2>2 DEF Ordered
<1>10. /\ new.count <= Era
       /\ new.count >= Limit => new.count + Cardinality(checking \ {h}) <= Era
  <2>1. PICK busy, all, left : busy = Cardinality(checking) /\ all = Cardinality(Logins) /\ left = Cardinality(checking \ {h})
    OBVIOUS
  <2>2. busy \in Nat /\ all \in Nat /\ left = busy - 1 /\ busy <= all /\ left \in Nat /\ Era = Limit - 1 + all
    <3>1. Cardinality(checking) \in Nat /\ Cardinality(checking) <= Cardinality(Logins)
          /\ Cardinality(checking \ {h}) = Cardinality(checking) - 1
      BY <1>2, LimiterIs, CheckingIs
    <3>2. checking \ {h} \subseteq Logins
      BY LimiterIs
    <3>3. Cardinality(checking \ {h}) \in Nat
      BY <3>2, CheckingIs
    <3> QED
      BY <2>1, <3>1, <3>3, LimiterBounds DEF Era
  <2>3. attempt.count >= Limit => attempt.count + busy <= Era
    BY <2>1, LimiterIs, LimiterBounds DEF Counting
  <2>4. new.count >= Limit => new.count + left <= Era
    <3>1. CASE new.count = 1
      BY <2>2, <3>1, LimiterBounds
    <3>2. CASE new.count = attempt.count + 1
      BY <2>2, <2>3, <3>2, LimiterIs, LimiterBounds
    <3> QED
      BY <1>3, <3>1, <3>2
  <2>5. new.count <= Era
    BY <1>3, <2>2, <2>4, LimiterBounds
  <2> QED
    BY <2>1, <2>4, <2>5
<1>11. Counting'
  <2>1. new # NoAttempt
    BY <1>3, NoAttemptIs
  <2> QED
    BY <1>2, <1>3, <1>10, <2>1 DEF Counting
<1>12. \E a, b \in 0 .. n + 1 : Split(a, b)'
  <2>1. CASE attempt.count # 0 /\ new.count = attempt.count + 1 /\ new.firstSeen = attempt.firstSeen
    <3>0. /\ n \in Nat /\ p \in Nat /\ q \in Nat /\ p <= q /\ q + attempt.count = n
          /\ attempt.count \in Nat /\ attempt.count # 0 /\ new.count = attempt.count + 1
      BY <1>4, <1>7, <2>1, LimiterIs
    <3>1. q + 1 \in 1 .. n /\ (p # q => p + 1 \in 1 .. n)
      BY <3>0
    <3>2. q + new.count = n + 1
      BY <3>0
    <3>3. Split(p, q)'
      BY <1>2, <1>3, <1>5, <1>7, <2>1, <3>1, <3>2 DEF Split
    <3>4. p \in 0 .. n + 1 /\ q \in 0 .. n + 1
      BY <1>4, <1>6
    <3> QED
      BY <3>3, <3>4
  <2>2. CASE attempt.count = 0 /\ new.count = 1 /\ new.firstSeen = now
    <3>1. q = n /\ (p # q => p + 1 \in 1 .. n)
      BY <1>4, <1>7, <2>2
    <3>2. Split(p, q)'
      BY <1>2, <1>3, <1>5, <1>7, <2>2, <3>1 DEF Split
    <3>3. p \in 0 .. n + 1 /\ q \in 0 .. n + 1
      BY <1>4, <1>6
    <3> QED
      BY <3>2, <3>3
  <2>3. CASE attempt.count # 0 /\ new.count = 1 /\ new.firstSeen = now /\ attempt.firstSeen + Window <= now
    <3>0. n \in Nat /\ q \in Nat /\ q + attempt.count = n
      BY <1>4, <1>7
    <3>4. attempt.count \in Nat /\ attempt.count # 0 /\ attempt.count <= Era /\ Era \in Nat
      BY <2>3, LimiterIs, LimiterBounds
    <3>1. q + 1 \in 1 .. n /\ q # n /\ q <= n /\ n - q <= Era
      BY <3>0, <3>4
    <3>2. Split(q, n)'
      BY <1>2, <1>3, <1>4, <1>5, <1>7, <2>3, <3>1 DEF Split
    <3>3. n \in 0 .. n + 1 /\ q \in 0 .. n + 1
      BY <1>4, <1>6
    <3> QED
      BY <3>2, <3>3
  <2> QED
    BY <1>3, <2>1, <2>2, <2>3
<1>13. FailuresBounded'
  <2>1. PICK a, b \in 0 .. n + 1 : Split(a, b)'
    BY <1>12
  <2>2. ASSUME NEW t \in 0 .. now', t # now'
        PROVE  /\ {i \in DOMAIN failures' : t - Window < failures'[i] /\ failures'[i] <= t}
                    \subseteq {i \in DOMAIN failures : t - Window < failures[i] /\ failures[i] <= t}
               /\ t \in 0 .. now
    <3>1. t \in 0 .. now /\ t < now
      BY <1>2, <2>2, LimiterIs
    <3>2. ASSUME NEW i \in 1 .. n + 1, failures'[i] <= t PROVE i \in 1 .. n
      <4>1. i # n + 1
        BY <1>5, <3>1, <3>2, LimiterIs
      <4> QED
        BY <1>4, <4>1
    <3> QED
      BY <1>5, <3>1, <3>2
  <2>3. a \in 0 .. Len(failures') /\ b \in 0 .. Len(failures') /\ attempt'.count <= Era
    BY <1>2, <1>5, <1>10
  <2> QED
    BY <1>8, <1>9, <2>1, <2>2, <2>3, WindowsBounded
<1> QED
  BY <1>5, <1>8, <1>9, <1>11, <1>12, <1>13 DEF LimiterInv

LEMMA LimiterInitially == LimiterInit => LimiterInv
<1> SUFFICES ASSUME LimiterInit PROVE LimiterInv
  OBVIOUS
<1>1. now = 0 /\ attempt = NoAttempt /\ checking = {} /\ failures = <<>> /\ DOMAIN failures = {} /\ Len(failures) = 0
  BY DEF LimiterInit
<1>2. AttemptType /\ Ordered /\ Counting
  BY <1>1, NoAttemptIs, LimiterBounds DEF AttemptType, Ordered, Counting
<1>3. Split(0, 0)
  BY <1>1, NoAttemptIs, LimiterBounds DEF Split
<1>4. FailuresBounded
  <2>1. \A t \in 0 .. now : {i \in DOMAIN failures : t - Window < failures[i] /\ failures[i] <= t} = {}
    BY <1>1
  <2>2. Cardinality({}) = 0
    BY FS_EmptySet
  <2>3. 0 <= 2 * (Limit - 1 + Cardinality(Logins)) - 1
    BY LimiterBounds DEF Era
  <2> QED
    BY <2>1, <2>2, <2>3 DEF FailuresBounded
<1> QED
  BY <1>1, <1>2, <1>3, <1>4 DEF LimiterInv

LEMMA LimiterStep == LimiterInv /\ [LimiterNext]_limiterVars => LimiterInv'
<1> SUFFICES ASSUME LimiterInv, [LimiterNext]_limiterVars PROVE LimiterInv'
  OBVIOUS
<1>1. CASE LimiterNext
  BY <1>1, AllowKeeps, RecordFailureKeeps, ResetKeeps, TickKeeps DEF LimiterNext
<1>2. CASE UNCHANGED limiterVars
  BY <1>2 DEF limiterVars, LimiterInv, AttemptType, Ordered, Counting, FailuresBounded, Split
<1> QED
  BY <1>1, <1>2

(* For any limit, window and number of goroutines, the failures in a window *)
(* are bounded: a block outlasts the window of its count, and the logins    *)
(* whose passwords are being compared when it begins are all it lets pass   *)
(* (loginRateLimiter.allow, recordFailure).                                 *)
THEOREM FailuresStayBounded == LimiterSpec => []FailuresBounded
<1>1. LimiterInv => FailuresBounded
  BY DEF LimiterInv
<1> QED
  BY <1>1, LimiterInitially, LimiterStep, PTL DEF LimiterSpec

(*****************************************************************************)
(* References of the inventory.                                              *)
(*****************************************************************************)
Whole == DOMAIN deployments \ severed

Deletes(h, s, i) ==
  \/ worker[h].pc = "delete" /\ worker[h].server = s
  \/ worker[h].pc = "unimage" /\ worker[h].image = i

(* Whoever is about to delete a row still finds no deployment that refers *)
(* to it, but the ones made since he looked.                              *)
DeletionsClear ==
  \A h \in Workers, d \in Whole :
    /\ worker[h].pc = "delete" => deployments[d].server # worker[h].server
    /\ worker[h].pc = "unimage" => deployments[d].image # worker[h].image

AssetInv == DOMAIN worker = Workers /\ ReferencesResolve /\ DeletionsClear

LEMMA AssetInvInit == InventoryInit => AssetInv
  BY DEF InventoryInit, AssetInv, ReferencesResolve, DeletionsClear, Whole

(* A request that passed its checks: only a deletion has something to hold. *)
LEMMA BeginKeeps ==
  ASSUME AssetInv, NEW h \in Workers, NEW request, Begin(h, request),
         request.pc = "delete" => Blockers(request.server) = {},
         request.pc = "unimage" => \A d \in DOMAIN deployments : deployments[d].image # request.image
  PROVE AssetInv'
<1>1. /\ DOMAIN worker' = Workers /\ UNCHANGED <<servers, images, deployments, severed>>
      /\ \A g \in Workers : worker'[g] = IF g = h THEN request ELSE worker[g]
  BY DEF Begin, tables, AssetInv
<1>2. ReferencesResolve'
  BY <1>1 DEF AssetInv, ReferencesResolve, LiveServers, LiveImages
<1>3. DeletionsClear'
  BY <1>1 DEF AssetInv, DeletionsClear, Whole, Blockers
<1> QED
  BY <1>1, <1>2, <1>3 DEF AssetInv

(* A request that is done, and took no row away that was there before but *)
(* the one it had cleared.                                                *)
LEMMA WriteKeeps ==
  ASSUME AssetInv, NEW h \in Workers, Done(h), UNCHANGED <<deployments, severed>>,
         \A s \in LiveServers : s \notin LiveServers' => worker[h].pc = "delete" /\ s = worker[h].server,
         \A i \in LiveImages : i \notin LiveImages' => worker[h].pc = "unimage" /\ i = worker[h].image
  PROVE AssetInv'
<1>1. DOMAIN worker' = Workers /\ \A g \in Workers : worker'[g] = IF g = h THEN Idle ELSE worker[g]
  BY DEF Done, AssetInv
<1>2. Idle.pc = "idle"
  BY DEF Idle
<1>3. DeletionsClear'
  BY <1>1, <1>2 DEF AssetInv, DeletionsClear, Whole
<1>4. ReferencesResolve'
  BY DEF AssetInv, ReferencesResolve, DeletionsClear, Whole
<1> QED
  BY <1>1, <1>3, <1>4 DEF AssetInv

LEMMA ChecksKeep ==
  ASSUME AssetInv, NEW h \in Workers, Checks(h) PROVE AssetInv'
<1>1. ASSUME NEW t, NEW status, NEW limit, CheckTenant(h, t, status, limit) PROVE AssetInv'
  BY <1>1, BeginKeeps DEF CheckTenant, Idle
<1>2. ASSUME NEW t, NEW n, CheckCreate(h, t, n) PROVE AssetInv'
  BY <1>2, BeginKeeps DEF CheckCreate, Idle
<1>3. ASSUME NEW s, NEW t, CheckUpdate(h, s, t) PROVE AssetInv'
  BY <1>3, BeginKeeps DEF CheckUpdate, Idle
<1>4. ASSUME NEW s, CheckDelete(h, s) PROVE AssetInv'
  BY <1>4, BeginKeeps DEF CheckDelete, Idle
<1>5. ASSUME NEW s, NEW i, Preflight(h, s, i) PROVE AssetInv'
  BY <1>5, BeginKeeps DEF Preflight, Idle
<1>6. ASSUME NEW i, ReadImage(h, i) PROVE AssetInv'
  BY <1>6, BeginKeeps DEF ReadImage, Idle
<1>7. ASSUME NEW i, CheckDeleteImage(h, i) PROVE AssetInv'
  BY <1>7, BeginKeeps DEF CheckDeleteImage, Idle
<1> QED
  BY <1>1, <1>2, <1>3, <1>4, <1>5, <1>6, <1>7 DEF Checks

(* The deployment made here is whole only where nobody is deleting. *)
LEMMA InsertDeploymentKeeps ==
  ASSUME AssetInv, NEW h \in Workers, InsertDeployment(h) PROVE AssetInv'
<1> DEFINE s == worker[h].server
           i == worker[h].image
           d == next.deployments
<1> HIDE DEF s, i, d
<1>1. /\ DOMAIN worker' = Workers /\ \A g \in Workers : worker'[g] = IF g = h THEN Idle ELSE worker[g]
      /\ Idle.pc = "idle" /\ UNCHANGED <<servers, images>>
  BY DEF InsertDeployment, Done, AssetInv, Idle
<1>2. LiveServers' = LiveServers /\ LiveImages' = LiveImages
  BY <1>1 DEF LiveServers, LiveImages
<1>3. CASE s \in LiveServers /\ d \in (1..MaxDeployments) \ DOMAIN deployments
  <2>1. /\ DOMAIN deployments' = DOMAIN deployments \union {d} /\ d \notin DOMAIN deployments
        /\ deployments'[d].server = s /\ deployments'[d].image = i
        /\ \A e \in DOMAIN deployments : deployments'[e] = deployments[e]
        /\ severed \subseteq severed'
    BY <1>3 DEF InsertDeployment, s, i, d
  <2>2. d \notin severed' => i \in LiveImages /\ \A g \in Workers \ {h} : ~Deletes(g, s, i)
    BY <1>3 DEF InsertDeployment, Busy, Deletes, s, i, d
  <2>3. ReferencesResolve'
    BY <1>2, <1>3, <2>1, <2>2 DEF AssetInv, ReferencesResolve
  <2>4. ASSUME NEW g \in Workers, NEW e \in DOMAIN deployments' \ severed'
        PROVE /\ worker'[g].pc = "delete" => deployments'[e].server # worker'[g].server
              /\ worker'[g].pc = "unimage" => deployments'[e].image # worker'[g].image
    <3>1. CASE g = h
      BY <1>1, <3>1
    <3>2. CASE g # h /\ e = d
      <4>1. e \notin severed'
        BY <2>4
      <4>2. worker'[g] = worker[g] /\ g \in Workers \ {h}
        BY <1>1, <3>2
      <4>3. deployments'[e].server = s /\ deployments'[e].image = i
        BY <2>1, <3>2
      <4>4. ~Deletes(g, s, i)
        BY <2>2, <3>2, <4>1, <4>2
      <4> QED
        BY <4>2, <4>3, <4>4 DEF Deletes
    <3>3. CASE g # h /\ e # d
      BY <1>1, <2>1, <2>4, <3>3 DEF AssetInv, DeletionsClear, Whole
    <3> QED
      BY <3>1, <3>2, <3>3
  <2>5. DeletionsClear'
    BY <2>4 DEF DeletionsClear, Whole
  <2> QED
    BY <1>1, <2>3, <2>5 DEF AssetInv
<1>4. CASE ~(s \in LiveServers /\ d \in (1..MaxDeployments) \ DOMAIN deployments)
  <2>1. Done(h) /\ UNCHANGED <<deployments, severed>>
    BY <1>4 DEF InsertDeployment, s, i, d
  <2> QED
    BY <1>2, <2>1, WriteKeeps
<1> QED
  BY <1>3, <1>4

LEMMA WritesKeep ==
  ASSUME AssetInv, NEW h \in Workers, Writes(h) PROVE AssetInv'
<1>1. CASE SaveTenant(h)
  BY <1>1, WriteKeeps DEF SaveTenant, LiveServers, LiveImages
<1>2. CASE InsertServers(h)
  <2>1. \A s \in LiveServers : s \in LiveServers'
    BY <1>2 DEF InsertServers, LiveServers
  <2> QED
    BY <1>2, <2>1, WriteKeeps DEF InsertServers, LiveImages
<1>3. CASE SaveServer(h)
  <2>1. \A s \in LiveServers : s \in LiveServers'
    BY <1>3 DEF SaveServer, LiveServers
  <2> QED
    BY <1>3, <2>1, WriteKeeps DEF SaveServer, LiveImages
<1>4. CASE DeleteServer(h)
  <2>1. \A s \in LiveServers : s \in LiveServers' \/ s = worker[h].server
    BY <1>4 DEF DeleteServer, LiveServers
  <2> QED
    BY <1>4, <2>1, WriteKeeps DEF DeleteServer, LiveImages
<1>5. CASE SaveImage(h)
  <2>1. \A i \in LiveImages : i \in LiveImages'
    BY <1>5 DEF SaveImage, LiveImages
  <2> QED
    BY <1>5, <2>1, WriteKeeps DEF SaveImage, LiveServers
<1>6. CASE DeleteImage(h)
  <2>1. \A i \in LiveImages : i \in LiveImages' \/ i = worker[h].image
    BY <1>6 DEF DeleteImage, LiveImages
  <2> QED
    BY <1>6, <2>1, WriteKeeps DEF DeleteImage, LiveServers
<1> QED
  BY <1>1, <1>2, <1>3, <1>4, <1>5, <1>6, InsertDeploymentKeeps DEF Writes

(* Rows are added, none of those that were there changes. *)
LEMMA AddingKeeps ==
  ASSUME AssetInv, \/ \E t \in Tenants, limit \in Limits : CreateTenant(t, limit)
                   \/ CreateImage
                   \/ \E s \in DOMAIN servers : StoreLabResult(s)
  PROVE AssetInv'
<1>1. UNCHANGED <<servers, deployments, worker, severed>> /\ \A i \in LiveImages : i \in LiveImages'
  BY DEF CreateTenant, CreateImage, StoreLabResult, LiveImages
<1> QED
  BY <1>1 DEF AssetInv, ReferencesResolve, DeletionsClear, Whole, LiveServers

LEMMA AssetInvStep == AssetInv /\ [InventoryNext]_inventoryVars => AssetInv'
<1> SUFFICES ASSUME AssetInv, [InventoryNext]_inventoryVars PROVE AssetInv'
  OBVIOUS
<1>1. CASE InventoryNext
  BY <1>1, ChecksKeep, WritesKeep, AddingKeeps DEF InventoryNext
<1>2. CASE UNCHANGED inventoryVars
  BY <1>2 DEF inventoryVars, tables, AssetInv, ReferencesResolve, DeletionsClear, Whole, LiveServers, LiveImages
<1> QED
  BY <1>1, <1>2

(* For any numbers of servers, images, tenants and requests at once, the    *)
(* server and the image of a deployment are there, unless it was made while *)
(* one of them was being deleted (deleteServer, deleteImage).               *)
THEOREM ReferencesStay == InventorySpec => []ReferencesResolve
<1>1. AssetInv => ReferencesResolve
  BY DEF AssetInv
<1> QED
  BY <1>1, AssetInvInit, AssetInvStep, PTL DEF InventorySpec
(***************************************************************************)
(* The tables and the requests.                                            *)
(***************************************************************************)
TenantRows == [status : {"active", "disabled"}, limit : Limits]
ServerRows == [tenant : Tenants \union {"none"}, live : BOOLEAN]
IdSequences == [servers : Nat \ {0}, images : Nat \ {0}, deployments : Nat \ {0}]

TablesTyped ==
  /\ DOMAIN tenants \subseteq Tenants /\ \A t \in DOMAIN tenants : tenants[t] \in TenantRows
  /\ DOMAIN servers \subseteq 1..MaxServers /\ \A s \in DOMAIN servers : servers[s] \in ServerRows
  /\ DOMAIN images \subseteq 1..MaxImages /\ DOMAIN deployments \subseteq 1..MaxDeployments
  /\ probed \subseteq DOMAIN servers /\ severed \subseteq 1..MaxDeployments /\ overrun \subseteq Tenants
  /\ next \in IdSequences

(* What a request names.                                                    *)
Proper(w) ==
  /\ w.server \in 0..MaxServers /\ w.image \in 0..MaxImages /\ w.tenant \in Tenants \union {"none"} /\ w.number \in Nat
  /\ w.pc = "tenant" => w.tenant # "none" /\ w.row \in TenantRows
  /\ w.pc = "update" => w.server # 0
  /\ w.pc = "image" => w.image # 0
  /\ w.pc = "idle" => w.server = 0 /\ w.image = 0

WorkersTyped ==
  /\ DOMAIN worker = Workers /\ ops \in 0..MaxOps
  /\ \A h \in Workers : Proper(worker[h])

Rows == TablesTyped /\ WorkersTyped

LEMMA InventoryBounds ==
  /\ Limits \subseteq Nat \union {NoLimit} /\ "none" \notin Tenants /\ MaxServers \in Nat /\ MaxImages \in Nat
  /\ MaxDeployments \in Nat /\ MaxOps \in Nat
BY InventoryAssumption

LEMMA IdleProper == Proper(Idle) /\ Idle.pc = "idle" /\ Idle.server = 0 /\ Idle.image = 0
<1>1. Idle.pc = "idle" /\ Idle.server = 0 /\ Idle.image = 0 /\ Idle.tenant = "none" /\ Idle.number = 0
  BY DEF Idle
<1> QED
  BY <1>1, InventoryBounds DEF Proper

LEMMA RowsAre ==
  ASSUME Rows
  PROVE  /\ \A t \in DOMAIN tenants : t \in Tenants /\ t # "none" /\ tenants[t].limit \in Limits
                                      /\ tenants[t].status \in {"active", "disabled"}
         /\ \A s \in DOMAIN servers : s \in 1..MaxServers /\ servers[s].tenant \in Tenants \union {"none"}
                                      /\ servers[s].live \in BOOLEAN
         /\ \A i \in DOMAIN images : i \in 1..MaxImages
         /\ \A h \in Workers : Proper(worker[h])
         /\ \A l \in Limits : l = NoLimit \/ l \in Nat
BY InventoryBounds DEF Rows, TablesTyped, WorkersTyped, TenantRows, ServerRows

LEMMA BeginTyped ==
  ASSUME Rows, NEW h \in Workers, NEW request, Begin(h, request), Proper(request)
  PROVE  Rows'
<1>1. /\ UNCHANGED <<tenants, servers, images, deployments, probed, next, severed, overrun>> /\ ops' = ops + 1 /\ ops < MaxOps
      /\ worker' = [worker EXCEPT ![h] = request]
  BY DEF Begin, tables
<1>2. TablesTyped'
  BY <1>1 DEF Rows, TablesTyped
<1>3. \A g \in Workers : worker'[g] = IF g = h THEN request ELSE worker[g]
  BY <1>1 DEF Rows, WorkersTyped
<1>4. \A g \in Workers : Proper(worker'[g])
  BY <1>3 DEF Rows, WorkersTyped
<1>5. ops' \in 0..MaxOps
  BY <1>1, InventoryBounds DEF Rows, WorkersTyped
<1>6. WorkersTyped'
  BY <1>1, <1>4, <1>5 DEF Rows, WorkersTyped, Proper
<1> QED
  BY <1>2, <1>6 DEF Rows

LEMMA DoneTyped ==
  ASSUME Rows, NEW h \in Workers, Done(h), ops' = ops
  PROVE  /\ WorkersTyped' /\ worker'[h] = Idle
         /\ \A g \in Workers \ {h} : worker'[g] = worker[g]
<1>1. worker' = [worker EXCEPT ![h] = Idle]
  BY DEF Done
<1>2. \A g \in Workers : worker'[g] = IF g = h THEN Idle ELSE worker[g]
  BY <1>1 DEF Rows, WorkersTyped
<1>3. \A g \in Workers : Proper(worker'[g])
  BY <1>2, IdleProper DEF Rows, WorkersTyped
<1> QED
  BY <1>1, <1>2, <1>3 DEF Rows, WorkersTyped, Proper

(***************************************************************************)
(* Quotas.                                                                 *)
(***************************************************************************)
Holds(t) == {s \in LiveServers : servers[s].tenant = t}
Fits(t, n) == t \in DOMAIN tenants /\ (tenants[t].limit = NoLimit \/ n <= tenants[t].limit)

(* A request about to write for a tenant no other request has changed since *)
(* it looked still has room.                                                *)
Books(w) == w.pc \in {"create", "update", "tenant"} /\ w.tenant # "none" /\ w.tenant \notin overrun
Backed(w) ==
  Books(w) =>
    /\ w.tenant \in DOMAIN tenants
    /\ w.pc = "create" => Fits(w.tenant, Cardinality(Holds(w.tenant)) + w.number)
    /\ w.pc = "update" => Fits(w.tenant, Cardinality(Holds(w.tenant) \ {w.server}) + 1)
    /\ w.pc = "tenant" => w.row.limit = NoLimit \/ Cardinality(Holds(w.tenant)) <= w.row.limit

Filled == \A t \in DOMAIN tenants \ overrun : Fits(t, Cardinality(Holds(t)))
Owned == \A s \in LiveServers : servers[s].tenant \in DOMAIN tenants \union {"none"} \union overrun

QuotaInv == Filled /\ Owned /\ \A h \in Workers : Backed(worker[h])

LEMMA HoldsIs ==
  ASSUME Rows, NEW t
  PROVE  /\ IsFiniteSet(Holds(t)) /\ Cardinality(Holds(t)) \in Nat
         /\ \A except : Used(t, except) = Cardinality(Holds(t) \ except)
<1>1. Holds(t) \subseteq 1..MaxServers
  BY RowsAre DEF Holds, LiveServers
<1>2. IsFiniteSet(1..MaxServers)
  BY InventoryBounds, IntervalIs
<1>3. IsFiniteSet(Holds(t)) /\ Cardinality(Holds(t)) \in Nat
  BY <1>1, <1>2, FS_Subset, FS_CardinalityType
<1>4. ASSUME NEW except PROVE Used(t, except) = Cardinality(Holds(t) \ except)
  <2>1. {s \in LiveServers \ except : servers[s].tenant = t} = Holds(t) \ except
    BY DEF Holds
  <2> QED
    BY <2>1 DEF Used
<1> QED
  BY <1>3, <1>4

LEMMA QuotaIs ==
  ASSUME Rows, QuotaInv
  PROVE  QuotaBounded
<1>1. ASSUME NEW t \in DOMAIN tenants, t \notin overrun
      PROVE  tenants[t].limit = NoLimit \/ Used(t, {}) <= tenants[t].limit
  <2>1. Fits(t, Cardinality(Holds(t)))
    BY <1>1 DEF QuotaInv, Filled
  <2>2. Used(t, {}) = Cardinality(Holds(t) \ {}) /\ Holds(t) \ {} = Holds(t)
    BY HoldsIs
  <2>3. Used(t, {}) = Cardinality(Holds(t))
    BY <2>2
  <2> QED
    BY <2>1, <2>3 DEF Fits
<1> QED
  BY <1>1 DEF QuotaBounded

LEMMA BeginQuota ==
  ASSUME Rows, QuotaInv, NEW h \in Workers, NEW request, Begin(h, request), Backed(request)
  PROVE  QuotaInv'
<1>1. /\ UNCHANGED <<tenants, servers, overrun>>
      /\ worker' = [worker EXCEPT ![h] = request]
  BY DEF Begin, tables
<1>2. \A t : Holds(t)' = Holds(t)
  BY <1>1 DEF Holds, LiveServers
<1>3. Filled' /\ Owned'
  BY <1>1, <1>2 DEF QuotaInv, Filled, Owned, Fits, LiveServers
<1>4. \A g \in Workers : worker'[g] = IF g = h THEN request ELSE worker[g]
  BY <1>1 DEF Rows, WorkersTyped
<1>5. ASSUME NEW g \in Workers PROVE Backed(worker[g])'
  <2>1. PICK w : w = worker'[g]
    OBVIOUS
  <2>2. Backed(w)
    BY <1>4, <2>1 DEF QuotaInv
  <2>3. Backed(w)'
    BY <1>1, <1>2, <2>2 DEF Backed, Books, Fits
  <2> QED
    BY <2>1, <2>3 DEF Backed, Books
<1> QED
  BY <1>3, <1>5 DEF QuotaInv

(* A write for the tenants ts: whoever else counted on one of them is       *)
(* remembered, and the rest is as it was.                                   *)
LEMMA WriteQuota ==
  ASSUME Rows, QuotaInv, NEW h \in Workers, Done(h), ops' = ops, NEW ts, Overrun(h, ts),
         \A t \in Tenants \ ts : /\ Holds(t)' = Holds(t)
                                 /\ t \in DOMAIN tenants' <=> t \in DOMAIN tenants
                                 /\ t \in DOMAIN tenants => tenants'[t] = tenants[t],
         DOMAIN tenants \subseteq DOMAIN tenants', DOMAIN tenants' \subseteq Tenants,
         \A t \in ts : t \in DOMAIN tenants' /\ t \notin overrun => Fits(t, Cardinality(Holds(t)))',
         Owned'
  PROVE  QuotaInv'
<1>1. /\ worker'[h] = Idle /\ \A g \in Workers \ {h} : worker'[g] = worker[g]
  BY DoneTyped
<1>2. /\ overrun \subseteq overrun'
      /\ \A g \in Workers \ {h} : worker[g].pc \in {"create", "update", "tenant"} /\ worker[g].tenant \in ts
                                  /\ worker[g].tenant # "none" => worker[g].tenant \in overrun'
  BY DEF Overrun, Busy
<1>3. Filled'
  <2>1. ASSUME NEW t \in DOMAIN tenants', t \notin overrun' PROVE Fits(t, Cardinality(Holds(t)))'
    <3>1. CASE t \in ts
      BY <1>2, <2>1, <3>1
    <3>2. CASE t \notin ts
      <4>1. Holds(t)' = Holds(t) /\ t \in DOMAIN tenants /\ tenants'[t] = tenants[t] /\ t \notin overrun
        BY <1>2, <2>1, <3>2
      <4>2. Fits(t, Cardinality(Holds(t)))
        BY <4>1 DEF QuotaInv, Filled
      <4> QED
        BY <2>1, <4>1, <4>2 DEF Fits
    <3> QED
      BY <3>1, <3>2
  <2> QED
    BY <2>1 DEF Filled
<1>4. ASSUME NEW g \in Workers PROVE Backed(worker[g])'
  <2>1. CASE g = h
    BY <1>1, <2>1, IdleProper DEF Backed, Books
  <2>2. CASE g # h
    <3>1. PICK w : w = worker[g] /\ w = worker'[g]
      BY <1>1, <2>2
    <3>2. Backed(w) /\ w.tenant \in Tenants \union {"none"}
      BY <3>1, RowsAre DEF QuotaInv, Proper
    <3>3. ASSUME Books(w)'
          PROVE  /\ Books(w) /\ Holds(w.tenant)' = Holds(w.tenant)
                 /\ w.tenant \in DOMAIN tenants => w.tenant \in DOMAIN tenants' /\ tenants'[w.tenant] = tenants[w.tenant]
      <4>1. /\ w.pc \in {"create", "update", "tenant"} /\ w.tenant # "none" /\ w.tenant \notin overrun' /\ w.tenant \notin overrun
        BY <1>2, <3>3 DEF Books
      <4>2. w.tenant \in Tenants \ ts
        BY <1>2, <2>2, <3>1, <3>2, <4>1
      <4> QED
        BY <4>1, <4>2 DEF Books
    <3>4. Backed(w)'
      <4> SUFFICES ASSUME Books(w)'
                   PROVE  /\ w.tenant \in DOMAIN tenants'
                          /\ w.pc = "create" => Fits(w.tenant, Cardinality(Holds(w.tenant)) + w.number)'
                          /\ w.pc = "update" => Fits(w.tenant, Cardinality(Holds(w.tenant) \ {w.server}) + 1)'
                          /\ w.pc = "tenant" => w.row.limit = NoLimit \/ Cardinality(Holds(w.tenant)') <= w.row.limit
        BY DEF Backed
      <4> QED
        BY <3>2, <3>3 DEF Backed, Fits
    <3> QED
      BY <3>1, <3>4 DEF Backed, Books
  <2> QED
    BY <2>1, <2>2
<1> QED
  BY <1>3, <1>4 DEF QuotaInv

LEMMA CheckTenantKeeps ==
  ASSUME Rows, QuotaInv, NEW h \in Workers, NEW t \in DOMAIN tenants, NEW status \in {"active", "disabled"}, NEW limit \in Limits,
         CheckTenant(h, t, status, limit)
  PROVE  Rows' /\ QuotaInv'
<1>0. PICK row : row = [status |-> status, limit |-> limit]
  OBVIOUS
<1>1. PICK w : w = [Idle EXCEPT !.pc = "tenant", !.tenant = t, !.row = row]
  OBVIOUS
<1>2. Begin(h, w) /\ (limit = NoLimit \/ Used(t, {}) <= limit)
  BY <1>0, <1>1 DEF CheckTenant
<1>3. row \in TenantRows /\ row.limit = limit
  BY <1>0 DEF TenantRows
<1>4. w.pc = "tenant" /\ w.tenant = t /\ w.row = row /\ w.server = 0 /\ w.image = 0 /\ w.number = 0
  BY <1>1 DEF Idle
<1>5. t \in Tenants /\ t # "none"
  BY RowsAre
<1>6. Proper(w)
  BY <1>3, <1>4, <1>5, InventoryBounds DEF Proper
<1>7. Holds(t) \ {} = Holds(t) /\ Used(t, {}) = Cardinality(Holds(t) \ {})
  BY HoldsIs
<1>8. Used(t, {}) = Cardinality(Holds(t))
  BY <1>7
<1>9. Backed(w)
  BY <1>2, <1>3, <1>4, <1>8 DEF Backed
<1> QED
  BY <1>2, <1>6, <1>9, BeginTyped, BeginQuota

LEMMA CheckCreateKeeps ==
  ASSUME Rows, QuotaInv, NEW h \in Workers, NEW t \in DOMAIN tenants \union {"none"}, NEW n \in 1..2, CheckCreate(h, t, n)
  PROVE  Rows' /\ QuotaInv'
<1>1. PICK w : w = [Idle EXCEPT !.pc = "create", !.tenant = t, !.number = n]
  OBVIOUS
<1>2. Begin(h, w) /\ Admits(t, n, {})
  BY <1>1 DEF CheckCreate
<1>3. w.pc = "create" /\ w.tenant = t /\ w.server = 0 /\ w.image = 0 /\ w.number = n
  BY <1>1 DEF Idle
<1>4. t \in Tenants \union {"none"}
  BY RowsAre
<1>5. Proper(w)
  BY <1>3, <1>4, InventoryBounds DEF Proper
<1>6. Holds(t) \ {} = Holds(t) /\ Used(t, {}) = Cardinality(Holds(t) \ {})
  BY HoldsIs
<1>7. Used(t, {}) = Cardinality(Holds(t))
  BY <1>6
<1>8. t # "none" => Fits(t, Cardinality(Holds(t)) + n)
  BY <1>2, <1>7 DEF Admits, ActiveTenant, Fits
<1>9. Backed(w)
  BY <1>3, <1>8 DEF Backed, Books, Fits
<1> QED
  BY <1>2, <1>5, <1>9, BeginTyped, BeginQuota

(* A server that stays with its tenant is one of those counted already.     *)
LEMMA CheckUpdateKeeps ==
  ASSUME Rows, QuotaInv, NEW h \in Workers, NEW t \in DOMAIN tenants \union {"none"}, NEW s \in DOMAIN servers, CheckUpdate(h, s, t)
  PROVE  Rows' /\ QuotaInv'
<1>1. PICK w : w = [Idle EXCEPT !.pc = "update", !.server = s, !.tenant = t]
  OBVIOUS
<1>2. Begin(h, w) /\ s \in LiveServers /\ ActiveTenant(t) /\ (t = servers[s].tenant \/ Admits(t, 1, {s}))
  BY <1>1 DEF CheckUpdate
<1>3. w.pc = "update" /\ w.tenant = t /\ w.server = s /\ w.image = 0 /\ w.number = 0
  BY <1>1 DEF Idle
<1>4. t \in Tenants \union {"none"} /\ s \in 1..MaxServers
  BY RowsAre
<1>5. Proper(w)
  BY <1>3, <1>4, InventoryBounds DEF Proper
<1>6. ASSUME t # "none", t \notin overrun PROVE Fits(t, Cardinality(Holds(t) \ {s}) + 1)
  <2>1. t \in DOMAIN tenants
    BY <1>2, <1>6 DEF ActiveTenant
  <2>2. CASE t = servers[s].tenant
    <3>1. s \in Holds(t)
      BY <1>2, <2>2 DEF Holds
    <3>2. Cardinality(Holds(t) \ {s}) = Cardinality(Holds(t)) - 1 /\ Cardinality(Holds(t)) \in Nat
      BY <3>1, HoldsIs, FS_RemoveElement
    <3>3. Fits(t, Cardinality(Holds(t)))
      BY <1>6, <2>1 DEF QuotaInv, Filled
    <3>4. Cardinality(Holds(t) \ {s}) + 1 = Cardinality(Holds(t))
      BY <3>2
    <3> QED
      BY <3>3, <3>4
  <2>3. CASE Admits(t, 1, {s})
    <3>1. Used(t, {s}) = Cardinality(Holds(t) \ {s})
      BY HoldsIs
    <3> QED
      BY <1>6, <2>1, <2>3, <3>1 DEF Admits, Fits
  <2> QED
    BY <1>2, <2>2, <2>3
<1>7. Backed(w)
  BY <1>3, <1>6 DEF Backed, Books, Fits
<1> QED
  BY <1>2, <1>5, <1>7, BeginTyped, BeginQuota

(* A request that books nothing.                                            *)
LEMMA OtherChecksKeep ==
  ASSUME Rows, QuotaInv, NEW h \in Workers, NEW w, Begin(h, w), w.pc \in {"delete", "deploy", "image", "unimage"},
         w.tenant = "none", w.number = 0, w.server \in 0..MaxServers, w.image \in 0..MaxImages, w.pc = "image" => w.image # 0
  PROVE  Rows' /\ QuotaInv'
<1>1. Proper(w)
  BY InventoryBounds DEF Proper
<1>2. Backed(w)
  BY DEF Backed, Books
<1> QED
  BY <1>1, <1>2, BeginTyped, BeginQuota

(* A write that concerns no tenant.                                         *)
LEMMA NoTenantWritten ==
  ASSUME Rows, QuotaInv, NEW h \in Workers, Done(h), ops' = ops, UNCHANGED <<tenants, servers, overrun>>
  PROVE  QuotaInv'
<1>1. Overrun(h, {})
  BY DEF Overrun
<1>2. \A t : Holds(t)' = Holds(t)
  BY DEF Holds, LiveServers
<1>3. Owned'
  BY DEF QuotaInv, Owned, LiveServers
<1>4. DOMAIN tenants \subseteq Tenants
  BY DEF Rows, TablesTyped
<1> QED
  BY <1>1, <1>2, <1>3, <1>4, WriteQuota

LEMMA SaveTenantKeeps ==
  ASSUME Rows, QuotaInv, NEW h \in Workers, SaveTenant(h)
  PROVE  Rows' /\ QuotaInv'
<1>1. PICK w : w = worker[h]
  OBVIOUS
<1>2. /\ w.pc = "tenant" /\ Overrun(h, {w.tenant}) /\ Done(h)
      /\ UNCHANGED <<servers, images, deployments, probed, next, ops, severed>>
      /\ tenants' = [t \in DOMAIN tenants \union {w.tenant} |-> IF t = w.tenant THEN w.row ELSE tenants[t]]
  BY <1>1 DEF SaveTenant
<1>3. w.tenant \in Tenants /\ w.tenant # "none" /\ w.row \in TenantRows /\ Backed(w)
  BY <1>1, <1>2, RowsAre DEF QuotaInv, Proper
<1>4. /\ DOMAIN tenants' = DOMAIN tenants \union {w.tenant} /\ tenants'[w.tenant] = w.row
      /\ \A t \in DOMAIN tenants : t # w.tenant => tenants'[t] = tenants[t]
  BY <1>2
<1>5. \A t : Holds(t)' = Holds(t)
  BY <1>2 DEF Holds, LiveServers
<1>6. Rows'
  <2>1. overrun' \subseteq Tenants
    BY <1>2, <1>3 DEF Overrun, Rows, TablesTyped
  <2>2. TablesTyped'
    BY <1>2, <1>3, <1>4, <2>1 DEF Rows, TablesTyped
  <2> QED
    BY <1>2, <2>2, DoneTyped DEF Rows
<1>7. overrun \subseteq overrun'
  BY <1>2 DEF Overrun
<1>8. Owned'
  BY <1>2, <1>4, <1>7 DEF QuotaInv, Owned, LiveServers
<1>9. w.tenant \notin overrun => Fits(w.tenant, Cardinality(Holds(w.tenant)))'
  BY <1>2, <1>3, <1>4, <1>5 DEF Backed, Books, Fits
<1>10. DOMAIN tenants \subseteq Tenants
  BY DEF Rows, TablesTyped
<1>11. QuotaInv'
  BY <1>2, <1>3, <1>4, <1>5, <1>8, <1>9, <1>10, WriteQuota
<1> QED
  BY <1>6, <1>11

LEMMA InsertServersKeeps ==
  ASSUME Rows, QuotaInv, NEW h \in Workers, InsertServers(h)
  PROVE  Rows' /\ QuotaInv'
<1>1. PICK w, new : w = worker[h] /\ new = next.servers..(next.servers + w.number - 1)
  OBVIOUS
<1>2. w.pc = "create" /\ Done(h) /\ UNCHANGED <<tenants, images, deployments, probed, ops, severed>>
  BY <1>1 DEF InsertServers
<1>3. w.tenant \in Tenants \union {"none"} /\ w.number \in Nat /\ Backed(w)
  BY <1>1, <1>2, RowsAre DEF QuotaInv, Proper
<1>4. CASE UNCHANGED <<servers, next, overrun>>
  <2>1. TablesTyped'
    BY <1>2, <1>4 DEF Rows, TablesTyped
  <2> QED
    BY <1>2, <1>4, <2>1, NoTenantWritten, DoneTyped DEF Rows
<1>5. CASE /\ new \subseteq (1..MaxServers) \ DOMAIN servers
           /\ servers' = [s \in DOMAIN servers \union new |->
                            IF s \in new THEN [tenant |-> w.tenant, live |-> TRUE] ELSE servers[s]]
           /\ next' = [next EXCEPT !.servers = @ + w.number]
           /\ Overrun(h, {w.tenant})
  <2>1. PICK row : row = [tenant |-> w.tenant, live |-> TRUE]
    OBVIOUS
  <2>2. row \in ServerRows /\ row.tenant = w.tenant /\ row.live = TRUE
    BY <1>3, <2>1 DEF ServerRows
  <2>3. /\ DOMAIN servers' = DOMAIN servers \union new /\ new \intersect DOMAIN servers = {}
        /\ \A s \in new : servers'[s] = row
        /\ \A s \in DOMAIN servers : servers'[s] = servers[s]
    BY <1>5, <2>1
  <2>4. next' \in IdSequences
    <3>1. next \in IdSequences /\ next.servers \in Nat \ {0}
      BY DEF Rows, TablesTyped, IdSequences
    <3> QED
      BY <1>3, <1>5, <3>1 DEF IdSequences
  <2>5. overrun' \subseteq Tenants /\ overrun \subseteq overrun'
    BY <1>3, <1>5 DEF Overrun, Rows, TablesTyped
  <2>6. TablesTyped'
    BY <1>2, <1>5, <2>2, <2>3, <2>4, <2>5 DEF Rows, TablesTyped
  <2>7. LiveServers' = LiveServers \union new
    BY <2>2, <2>3 DEF LiveServers
  <2>8. \A t : t # w.tenant => Holds(t)' = Holds(t)
    BY <2>2, <2>3, <2>7 DEF Holds, LiveServers
  <2>9. Holds(w.tenant)' = Holds(w.tenant) \union new /\ Holds(w.tenant) \intersect new = {}
    BY <2>2, <2>3, <2>7 DEF Holds, LiveServers
  <2>10. IsFiniteSet(new) /\ Cardinality(new) = w.number
    <3>1. PICK first, last : first = next.servers /\ last = next.servers + w.number - 1
      OBVIOUS
    <3>2. first \in Nat /\ last \in Nat /\ last = first + w.number - 1
      BY <1>3, <3>1 DEF Rows, TablesTyped, IdSequences
    <3>3. IsFiniteSet(first .. last) /\ Cardinality(first .. last) = (IF first > last THEN 0 ELSE last - first + 1)
      BY <3>2, IntervalIs
    <3>4. (IF first > last THEN 0 ELSE last - first + 1) = w.number
      BY <1>3, <3>2
    <3> QED
      BY <1>1, <3>1, <3>3, <3>4
  <2>11. Cardinality(Holds(w.tenant)') = Cardinality(Holds(w.tenant)) + w.number
    <3>1. PICK held : held = Holds(w.tenant) /\ IsFiniteSet(held) /\ Cardinality(held) \in Nat
      BY HoldsIs
    <3>2. held \intersect new = {} /\ Cardinality({}) = 0
      BY <2>9, <3>1, FS_EmptySet
    <3>3. Cardinality(held \union new) = Cardinality(held) + Cardinality(new) - Cardinality(held \intersect new)
      BY <2>10, <3>1, FS_Union
    <3>4. Cardinality(held \intersect new) = 0
      BY <3>2
    <3>5. Cardinality(held \union new) = Cardinality(held) + w.number
      BY <1>3, <2>10, <3>1, <3>3, <3>4
    <3> QED
      BY <2>9, <3>1, <3>5
  <2>12. w.tenant # "none" /\ w.tenant \notin overrun => Fits(w.tenant, Cardinality(Holds(w.tenant)))'
    BY <1>2, <1>3, <2>11 DEF Backed, Books, Fits
  <2>13. Owned'
    <3>1. w.tenant \in DOMAIN tenants \union {"none"} \union overrun
      BY <1>2, <1>3 DEF Backed, Books
    <3> QED
      BY <1>2, <2>2, <2>3, <2>5, <2>7, <3>1 DEF QuotaInv, Owned, LiveServers
  <2>14. QuotaInv'
    <3>1. DOMAIN tenants \subseteq Tenants /\ "none" \notin Tenants
      BY InventoryBounds DEF Rows, TablesTyped
    <3> QED
      BY <1>2, <1>5, <2>8, <2>12, <2>13, <3>1, WriteQuota
  <2> QED
    BY <1>2, <2>6, <2>14, DoneTyped DEF Rows
<1> QED
  BY <1>1, <1>4, <1>5 DEF InsertServers

LEMMA SaveServerKeeps ==
  ASSUME Rows, QuotaInv, NEW h \in Workers, SaveServer(h)
  PROVE  Rows' /\ QuotaInv'
<1>1. PICK w, s, t : w = worker[h] /\ s = w.server /\ t = w.tenant
  OBVIOUS
<1>2. PICK row, ts : row = [tenant |-> t, live |-> TRUE] /\ ts = {t} \union {servers[r].tenant : r \in {s} \intersect DOMAIN servers}
  OBVIOUS
<1>3. /\ w.pc = "update" /\ Done(h) /\ Overrun(h, ts) /\ UNCHANGED <<tenants, images, deployments, probed, next, ops, severed>>
      /\ servers' = [r \in DOMAIN servers \union {s} |-> IF r = s THEN row ELSE servers[r]]
  BY <1>1, <1>2 DEF SaveServer
<1>4. t \in Tenants \union {"none"} /\ s \in 1..MaxServers /\ Backed(w)
  BY <1>1, <1>3, RowsAre, InventoryBounds DEF QuotaInv, Proper
<1>5. row \in ServerRows /\ row.tenant = t /\ row.live = TRUE
  BY <1>2, <1>4 DEF ServerRows
<1>6. DOMAIN servers' = DOMAIN servers \union {s} /\ servers'[s] = row /\ \A r \in DOMAIN servers : r # s => servers'[r] = servers[r]
  BY <1>3
<1>7. overrun' \subseteq Tenants /\ overrun \subseteq overrun' /\ t \in ts
      /\ (s \in DOMAIN servers => servers[s].tenant \in ts) /\ ts \subseteq Tenants \union {"none"}
  <2>1. t \in ts /\ (s \in DOMAIN servers => servers[s].tenant \in ts) /\ ts \subseteq Tenants \union {"none"}
    BY <1>2, <1>4, RowsAre
  <2> QED
    BY <1>3, <2>1 DEF Overrun, Rows, TablesTyped
<1>8. TablesTyped'
  BY <1>3, <1>4, <1>5, <1>6, <1>7 DEF Rows, TablesTyped
<1>9. LiveServers' = LiveServers \union {s}
  BY <1>5, <1>6 DEF LiveServers
<1>10. \A u : u # t => Holds(u)' = Holds(u) \ {s}
  BY <1>5, <1>6, <1>9 DEF Holds, LiveServers
<1>11. Holds(t)' = (Holds(t) \ {s}) \union {s}
  BY <1>5, <1>6, <1>9 DEF Holds, LiveServers
<1>12. \A u : u \notin ts => Holds(u)' = Holds(u)
  <2>1. ASSUME NEW u, u \notin ts PROVE s \notin Holds(u) /\ u # t
    BY <1>7, <2>1 DEF Holds, LiveServers
  <2> QED
    BY <1>10, <2>1
<1>13. Cardinality(Holds(t)') = Cardinality(Holds(t) \ {s}) + 1
  <2>1. PICK rest : rest = Holds(t) \ {s}
    OBVIOUS
  <2>2. IsFiniteSet(rest) /\ s \notin rest /\ Holds(t)' = rest \union {s}
    BY <1>11, <2>1, HoldsIs, FS_RemoveElement
  <2> QED
    BY <2>1, <2>2, FS_AddElement
<1>14. ASSUME NEW u \in ts, u \in DOMAIN tenants', u \notin overrun PROVE Fits(u, Cardinality(Holds(u)))'
  <2>1. u \in DOMAIN tenants /\ u # "none" /\ (tenants[u].limit = NoLimit \/ tenants[u].limit \in Nat)
    BY <1>3, <1>14, RowsAre
  <2>2. CASE u = t
    BY <1>1, <1>3, <1>4, <1>13, <1>14, <2>1, <2>2 DEF Backed, Books, Fits
  <2>3. CASE u # t
    <3>1. Fits(u, Cardinality(Holds(u)))
      BY <1>14, <2>1 DEF QuotaInv, Filled
    <3>2. Cardinality(Holds(u) \ {s}) <= Cardinality(Holds(u)) /\ Cardinality(Holds(u)) \in Nat
          /\ Cardinality(Holds(u) \ {s}) \in Nat
      BY HoldsIs, FS_Subset, FS_CardinalityType
    <3> QED
      BY <1>3, <1>10, <2>1, <2>3, <3>1, <3>2 DEF Fits
  <2> QED
    BY <2>2, <2>3
<1>15. Owned'
  <2>1. t \in DOMAIN tenants \union {"none"} \union overrun
    BY <1>1, <1>3, <1>4 DEF Backed, Books
  <2> QED
    BY <1>3, <1>5, <1>6, <1>7, <1>9, <2>1 DEF QuotaInv, Owned, LiveServers
<1>16. QuotaInv'
  <2>1. DOMAIN tenants \subseteq Tenants
    BY DEF Rows, TablesTyped
  <2> QED
    BY <1>3, <1>12, <1>14, <1>15, <2>1, WriteQuota
<1> QED
  BY <1>3, <1>8, <1>16, DoneTyped DEF Rows

LEMMA DeleteServerKeeps ==
  ASSUME Rows, QuotaInv, NEW h \in Workers, DeleteServer(h)
  PROVE  Rows' /\ QuotaInv'
<1>1. PICK s, ts : s = worker[h].server /\ ts = {servers[r].tenant : r \in {s} \intersect DOMAIN servers}
  OBVIOUS
<1>2. /\ Done(h) /\ Overrun(h, ts) /\ UNCHANGED <<tenants, images, deployments, probed, next, ops, severed>>
      /\ servers' = [r \in DOMAIN servers |-> IF r = s THEN [servers[r] EXCEPT !.live = FALSE] ELSE servers[r]]
  BY <1>1 DEF DeleteServer
<1>3. /\ DOMAIN servers' = DOMAIN servers
      /\ \A r \in DOMAIN servers : servers'[r] \in ServerRows /\ servers'[r].tenant = servers[r].tenant
      /\ \A r \in DOMAIN servers : r # s => servers'[r].live = servers[r].live
      /\ s \in DOMAIN servers => servers'[s].live = FALSE
  <2>1. ASSUME NEW r \in DOMAIN servers
        PROVE  /\ servers'[r] \in ServerRows /\ servers'[r].tenant = servers[r].tenant
               /\ r # s => servers'[r].live = servers[r].live
               /\ r = s => servers'[r].live = FALSE
    <3>1. PICK row : row = [servers[r] EXCEPT !.live = FALSE]
      OBVIOUS
    <3>2. servers[r] \in ServerRows
      BY DEF Rows, TablesTyped
    <3>3. row \in ServerRows /\ row.tenant = servers[r].tenant /\ row.live = FALSE
      BY <3>1, <3>2 DEF ServerRows
    <3> QED
      BY <1>2, <3>1, <3>2, <3>3
  <2> QED
    BY <1>2, <2>1
<1>4. LiveServers' = LiveServers \ {s}
  BY <1>3 DEF LiveServers
<1>5. \A u : Holds(u)' = Holds(u) \ {s}
  BY <1>3, <1>4 DEF Holds, LiveServers
<1>6. \A u : u \notin ts => Holds(u)' = Holds(u)
  <2>1. ASSUME NEW u, u \notin ts PROVE s \notin Holds(u)
    BY <1>1, <2>1 DEF Holds, LiveServers
  <2> QED
    BY <1>5, <2>1
<1>7. overrun' \subseteq Tenants /\ overrun \subseteq overrun' /\ ts \subseteq Tenants \union {"none"}
  <2>1. ts \subseteq Tenants \union {"none"}
    BY <1>1, RowsAre
  <2> QED
    BY <1>2, <2>1 DEF Overrun, Rows, TablesTyped
<1>8. TablesTyped'
  BY <1>2, <1>3, <1>7 DEF Rows, TablesTyped
<1>9. ASSUME NEW u \in DOMAIN tenants', u \notin overrun PROVE Fits(u, Cardinality(Holds(u)))'
  <2>1. Fits(u, Cardinality(Holds(u))) /\ (tenants[u].limit = NoLimit \/ tenants[u].limit \in Nat)
    BY <1>2, <1>9, RowsAre DEF QuotaInv, Filled
  <2>2. Cardinality(Holds(u) \ {s}) <= Cardinality(Holds(u)) /\ Cardinality(Holds(u)) \in Nat
        /\ Cardinality(Holds(u) \ {s}) \in Nat
    BY HoldsIs, FS_Subset, FS_CardinalityType
  <2> QED
    BY <1>2, <1>5, <2>1, <2>2 DEF Fits
<1>10. Owned'
  BY <1>2, <1>3, <1>4, <1>7 DEF QuotaInv, Owned, LiveServers
<1>11. QuotaInv'
  <2>1. DOMAIN tenants \subseteq Tenants
    BY DEF Rows, TablesTyped
  <2> QED
    BY <1>2, <1>6, <1>9, <1>10, <2>1, WriteQuota
<1> QED
  BY <1>2, <1>8, <1>11, DoneTyped DEF Rows

LEMMA ImageWritesKeep ==
  ASSUME Rows, QuotaInv, NEW h \in Workers, SaveImage(h) \/ DeleteImage(h)
  PROVE  Rows' /\ QuotaInv'
<1>1. Done(h) /\ UNCHANGED <<tenants, servers, deployments, probed, next, ops, severed, overrun>>
  BY DEF SaveImage, DeleteImage
<1>2. worker[h].pc = "image" => worker[h].image \in 1..MaxImages
  BY RowsAre, InventoryBounds DEF Proper
<1>3. DOMAIN images' \subseteq 1..MaxImages
  <2>1. DOMAIN images \subseteq 1..MaxImages
    BY DEF Rows, TablesTyped
  <2>2. SaveImage(h) => worker[h].pc = "image" /\ DOMAIN images' = DOMAIN images \union {worker[h].image}
    BY DEF SaveImage
  <2>3. DeleteImage(h) => DOMAIN images' = DOMAIN images
    BY DEF DeleteImage
  <2> QED
    BY <1>2, <2>1, <2>2, <2>3
<1>4. TablesTyped'
  BY <1>1, <1>3 DEF Rows, TablesTyped
<1> QED
  BY <1>1, <1>4, NoTenantWritten, DoneTyped DEF Rows

LEMMA DeploymentInserted ==
  ASSUME Rows, QuotaInv, NEW h \in Workers, InsertDeployment(h)
  PROVE  Rows' /\ QuotaInv'
<1>1. Done(h) /\ UNCHANGED <<tenants, servers, images, probed, ops, overrun>>
  BY DEF InsertDeployment
<1>2. /\ DOMAIN deployments' \subseteq 1..MaxDeployments /\ severed' \subseteq 1..MaxDeployments
      /\ next' \in IdSequences
  <2>1. /\ DOMAIN deployments \subseteq 1..MaxDeployments /\ severed \subseteq 1..MaxDeployments
        /\ next \in IdSequences /\ next.deployments \in Nat
    BY DEF Rows, TablesTyped, IdSequences
  <2>2. CASE UNCHANGED <<deployments, next, severed>>
    BY <2>1, <2>2
  <2>3. CASE ~UNCHANGED <<deployments, next, severed>>
    <3>1. PICK d : /\ d = next.deployments /\ d \in 1..MaxDeployments
                   /\ DOMAIN deployments' = DOMAIN deployments \union {d} /\ severed' \subseteq severed \union {d}
                   /\ next' = [next EXCEPT !.deployments = @ + 1]
      BY <2>3 DEF InsertDeployment
    <3>2. next' \in IdSequences
      BY <2>1, <3>1 DEF IdSequences
    <3> QED
      BY <2>1, <3>1, <3>2
  <2> QED
    BY <2>2, <2>3
<1>3. TablesTyped'
  BY <1>1, <1>2 DEF Rows, TablesTyped
<1> QED
  BY <1>1, <1>3, NoTenantWritten, DoneTyped DEF Rows

(* A tenant is new: no server is of it, and no request knows it.            *)
LEMMA CreateTenantKeeps ==
  ASSUME Rows, QuotaInv, NEW t \in Tenants, NEW limit \in Limits, CreateTenant(t, limit)
  PROVE  Rows' /\ QuotaInv'
<1>1. PICK row : row = [status |-> "active", limit |-> limit]
  OBVIOUS
<1>2. /\ t \notin DOMAIN tenants
      /\ UNCHANGED <<servers, images, deployments, probed, next, worker, ops, severed, overrun>>
      /\ tenants' = [u \in DOMAIN tenants \union {t} |-> IF u = t THEN row ELSE tenants[u]]
  BY <1>1 DEF CreateTenant
<1>3. row \in TenantRows /\ row.limit = limit
  BY <1>1 DEF TenantRows
<1>4. /\ DOMAIN tenants' = DOMAIN tenants \union {t} /\ tenants'[t] = row
      /\ \A u \in DOMAIN tenants : tenants'[u] = tenants[u]
  BY <1>2
<1>5. TablesTyped' /\ WorkersTyped'
  BY <1>2, <1>3, <1>4 DEF Rows, TablesTyped, WorkersTyped, Proper
<1>6. \A u : Holds(u)' = Holds(u)
  BY <1>2 DEF Holds, LiveServers
<1>7. Owned'
  BY <1>2, <1>4 DEF QuotaInv, Owned, LiveServers
<1>8. Filled'
  <2>1. ASSUME NEW u \in DOMAIN tenants', u \notin overrun' PROVE Fits(u, Cardinality(Holds(u)))'
    <3>1. CASE u = t
      <4>1. t # "none" /\ (limit = NoLimit \/ limit \in Nat)
        BY InventoryBounds
      <4>2. Holds(t) = {}
        BY <1>2, <2>1, <3>1, <4>1 DEF QuotaInv, Owned, Holds
      <4>3. Cardinality(Holds(t)') = 0
        BY <1>6, <4>2, FS_EmptySet
      <4> QED
        BY <1>3, <1>4, <3>1, <4>1, <4>3 DEF Fits
    <3>2. CASE u # t
      <4>1. u \in DOMAIN tenants /\ u \notin overrun
        BY <1>2, <1>4, <2>1, <3>2
      <4>2. Fits(u, Cardinality(Holds(u)))
        BY <4>1 DEF QuotaInv, Filled
      <4> QED
        BY <1>4, <1>6, <4>1, <4>2 DEF Fits
    <3> QED
      BY <3>1, <3>2
  <2> QED
    BY <2>1 DEF Filled
<1>9. ASSUME NEW g \in Workers PROVE Backed(worker[g])'
  <2>1. PICK w : w = worker[g]
    OBVIOUS
  <2>2. Backed(w)
    BY <2>1 DEF QuotaInv
  <2>3. Backed(w)'
    BY <1>2, <1>4, <1>6, <2>2 DEF Backed, Books, Fits
  <2> QED
    BY <1>2, <2>1, <2>3 DEF Backed, Books
<1> QED
  BY <1>5, <1>7, <1>8, <1>9 DEF Rows, QuotaInv

(* Images and results of lab validation concern no tenant.                  *)
LEMMA RowsAddedKeep ==
  ASSUME Rows, QuotaInv, CreateImage \/ \E s \in DOMAIN servers : StoreLabResult(s)
  PROVE  Rows' /\ QuotaInv'
<1>1. UNCHANGED <<tenants, servers, deployments, worker, ops, severed, overrun>>
  BY DEF CreateImage, StoreLabResult
<1>2. QuotaInv'
  BY <1>1 DEF QuotaInv, Filled, Owned, Fits, Holds, LiveServers, Backed, Books
<1>3. WorkersTyped'
  BY <1>1 DEF Rows, WorkersTyped, Proper
<1>4. CASE CreateImage
  <2>1. /\ next.images \in 1..MaxImages /\ DOMAIN images' = DOMAIN images \union {next.images}
        /\ next' = [next EXCEPT !.images = @ + 1] /\ probed' = probed
        /\ next \in IdSequences /\ next.images \in Nat
    BY <1>4, InventoryBounds DEF CreateImage, Rows, TablesTyped, IdSequences
  <2>2. next' \in IdSequences
    BY <2>1 DEF IdSequences
  <2>3. TablesTyped'
    BY <1>1, <2>1, <2>2 DEF Rows, TablesTyped
  <2> QED
    BY <1>2, <1>3, <2>3 DEF Rows
<1>5. ASSUME NEW s \in DOMAIN servers, StoreLabResult(s) PROVE Rows' /\ QuotaInv'
  <2>1. UNCHANGED <<images, next>> /\ probed' \subseteq DOMAIN servers
    BY <1>5 DEF StoreLabResult, Rows, TablesTyped
  <2>2. TablesTyped'
    BY <1>1, <2>1 DEF Rows, TablesTyped
  <2> QED
    BY <1>2, <1>3, <2>2 DEF Rows
<1> QED
  BY <1>4, <1>5

LEMMA AccountsKeep ==
  ASSUME Rows, QuotaInv, InventoryNext
  PROVE  Rows' /\ QuotaInv'
<1>1. ASSUME NEW h \in Workers, Checks(h) PROVE Rows' /\ QuotaInv'
  <2>1. ASSUME NEW t \in DOMAIN tenants, NEW status \in {"active", "disabled"}, NEW limit \in Limits,
               CheckTenant(h, t, status, limit)
        PROVE  Rows' /\ QuotaInv'
    BY <2>1, CheckTenantKeeps
  <2>2. ASSUME NEW t \in DOMAIN tenants \union {"none"}, NEW n \in 1..2, CheckCreate(h, t, n) PROVE Rows' /\ QuotaInv'
    BY <2>2, CheckCreateKeeps
  <2>3. ASSUME NEW t \in DOMAIN tenants \union {"none"}, NEW s \in DOMAIN servers, CheckUpdate(h, s, t) PROVE Rows' /\ QuotaInv'
    BY <2>3, CheckUpdateKeeps
  <2>4. ASSUME NEW s \in DOMAIN servers, CheckDelete(h, s) PROVE Rows' /\ QuotaInv'
    <3>1. PICK w : w = [Idle EXCEPT !.pc = "delete", !.server = s]
      OBVIOUS
    <3>2. w.pc = "delete" /\ w.server = s /\ w.image = 0 /\ w.tenant = "none" /\ w.number = 0
      BY <3>1 DEF Idle
    <3>3. Begin(h, w) /\ s \in 0..MaxServers /\ 0 \in 0..MaxImages
      BY <2>4, <3>1, RowsAre, InventoryBounds DEF CheckDelete
    <3> QED
      BY <3>2, <3>3, OtherChecksKeep
  <2>5. ASSUME NEW i \in DOMAIN images, ReadImage(h, i) \/ CheckDeleteImage(h, i) PROVE Rows' /\ QuotaInv'
    <3>1. PICK w \in {[Idle EXCEPT !.pc = "image", !.image = i], [Idle EXCEPT !.pc = "unimage", !.image = i]} : Begin(h, w)
      BY <2>5 DEF ReadImage, CheckDeleteImage
    <3>2. w.pc \in {"image", "unimage"} /\ w.server = 0 /\ w.image = i /\ w.tenant = "none" /\ w.number = 0
      BY <3>1 DEF Idle
    <3>3. i \in 0..MaxImages /\ i # 0 /\ 0 \in 0..MaxServers
      BY RowsAre, InventoryBounds
    <3> QED
      BY <3>1, <3>2, <3>3, OtherChecksKeep
  <2>6. ASSUME NEW s \in DOMAIN servers, NEW i \in DOMAIN images, Preflight(h, s, i) PROVE Rows' /\ QuotaInv'
    <3>1. PICK w : w = [Idle EXCEPT !.pc = "deploy", !.server = s, !.image = i]
      OBVIOUS
    <3>2. w.pc = "deploy" /\ w.server = s /\ w.image = i /\ w.tenant = "none" /\ w.number = 0
      BY <3>1 DEF Idle
    <3>3. Begin(h, w) /\ s \in 0..MaxServers /\ i \in 0..MaxImages
      BY <2>6, <3>1, RowsAre, InventoryBounds DEF Preflight
    <3> QED
      BY <3>2, <3>3, OtherChecksKeep
  <2> QED
    BY <1>1, <2>1, <2>2, <2>3, <2>4, <2>5, <2>6 DEF Checks
<1>2. ASSUME NEW h \in Workers, Writes(h) PROVE Rows' /\ QuotaInv'
  BY <1>2, SaveTenantKeeps, InsertServersKeeps, SaveServerKeeps, DeleteServerKeeps, ImageWritesKeep, DeploymentInserted DEF Writes
<1>3. ASSUME NEW t \in Tenants, NEW limit \in Limits, CreateTenant(t, limit) PROVE Rows' /\ QuotaInv'
  BY <1>3, CreateTenantKeeps
<1>4. CASE CreateImage \/ \E s \in DOMAIN servers : StoreLabResult(s)
  BY <1>4, RowsAddedKeep
<1> QED
  BY <1>1, <1>2, <1>3, <1>4 DEF InventoryNext

LEMMA InventoryInitially == InventoryInit => Rows /\ QuotaInv
<1> SUFFICES ASSUME InventoryInit PROVE Rows /\ QuotaInv
  OBVIOUS
<1>1. /\ DOMAIN tenants = {} /\ DOMAIN servers = {} /\ DOMAIN images = {} /\ DOMAIN deployments = {} /\ probed = {}
      /\ next.servers = 1 /\ next.images = 1 /\ next.deployments = 1
      /\ worker = [h \in Workers |-> Idle] /\ ops = 0 /\ severed = {} /\ overrun = {}
  BY DEF InventoryInit
<1>2. TablesTyped
  <2>1. next \in IdSequences
    BY DEF InventoryInit, IdSequences
  <2> QED
    BY <1>1, <2>1 DEF TablesTyped
<1>3. WorkersTyped
  BY <1>1, IdleProper, InventoryBounds DEF WorkersTyped
<1>4. QuotaInv
  BY <1>1, IdleProper DEF QuotaInv, Filled, Owned, LiveServers, Backed, Books
<1> QED
  BY <1>2, <1>3, <1>4 DEF Rows

LEMMA AccountsStay ==
  ASSUME Rows, QuotaInv, UNCHANGED inventoryVars
  PROVE  Rows' /\ QuotaInv'
<1>1. UNCHANGED <<tenants, servers, images, deployments, probed, next, worker, ops, severed, overrun>>
  BY DEF inventoryVars, tables
<1>2. Rows'
  BY <1>1 DEF Rows, TablesTyped, WorkersTyped, Proper
<1>3. QuotaInv'
  BY <1>1 DEF QuotaInv, Filled, Owned, Fits, Holds, LiveServers, Backed, Books
<1> QED
  BY <1>2, <1>3

(* For any tenants, quotas and requests at once, no tenant holds more       *)
(* servers than its quota, unless two requests about it overlapped          *)
(* (enforceTenantServerQuota, validateTenantQuotaAllowsCurrentUsage).       *)
THEOREM QuotasHold == InventorySpec => []QuotaBounded
<1>1. (Rows /\ QuotaInv) /\ [InventoryNext]_inventoryVars => (Rows /\ QuotaInv)'
  BY AccountsKeep, AccountsStay
<1>2. Rows /\ QuotaInv => QuotaBounded
  BY QuotaIs
<1> QED
  BY <1>1, <1>2, InventoryInitially, PTL DEF InventorySpec

(***************************************************************************)
(* Ids.                                                                    *)
(***************************************************************************)
Known(w) == w.server < next.servers /\ w.image < next.images
Below ==
  /\ \A s \in DOMAIN servers : s < next.servers
  /\ \A i \in DOMAIN images : i < next.images
  /\ \A d \in DOMAIN deployments : d < next.deployments
  /\ \A h \in Workers : Known(worker[h])

LEMMA IdsAre ==
  ASSUME Rows
  PROVE  /\ DOMAIN servers \subseteq Nat /\ DOMAIN images \subseteq Nat /\ DOMAIN deployments \subseteq Nat
         /\ next.servers \in Nat /\ next.images \in Nat /\ next.deployments \in Nat
         /\ 0 < next.servers /\ 0 < next.images /\ 0 < next.deployments
         /\ \A h \in Workers : worker[h].server \in Nat /\ worker[h].image \in Nat /\ worker[h].number \in Nat
<1>1. \A h \in Workers : worker[h].server \in Nat /\ worker[h].image \in Nat /\ worker[h].number \in Nat
  BY RowsAre, InventoryBounds DEF Proper
<1>2. /\ next.servers \in Nat \ {0} /\ next.images \in Nat \ {0} /\ next.deployments \in Nat \ {0}
      /\ DOMAIN servers \subseteq 1..MaxServers /\ DOMAIN images \subseteq 1..MaxImages
      /\ DOMAIN deployments \subseteq 1..MaxDeployments
  BY DEF Rows, TablesTyped, IdSequences
<1> QED
  BY <1>1, <1>2, InventoryBounds

LEMMA BeginBelow ==
  ASSUME Rows, Below, NEW h \in Workers, NEW w, Begin(h, w), w.server \in {0} \union DOMAIN servers, w.image \in {0} \union DOMAIN images
  PROVE  Below'
<1>1. UNCHANGED <<servers, images, deployments, next>> /\ worker' = [worker EXCEPT ![h] = w]
  BY DEF Begin, tables
<1>2. Known(w)
  BY IdsAre DEF Below, Known
<1>3. \A g \in Workers : worker'[g] = IF g = h THEN w ELSE worker[g]
  BY <1>1 DEF Rows, WorkersTyped
<1> QED
  BY <1>1, <1>2, <1>3 DEF Below, Known

LEMMA DoneBelow ==
  ASSUME Rows, Below, NEW h \in Workers, Done(h), ops' = ops, next'.servers \in Nat, next'.images \in Nat,
         next.servers <= next'.servers, next.images <= next'.images
  PROVE  \A g \in Workers : Known(worker[g])'
<1>1. ASSUME NEW g \in Workers PROVE worker'[g].server < next'.servers /\ worker'[g].image < next'.images
  <2>1. CASE g = h
    BY <2>1, IdsAre, DoneTyped, IdleProper
  <2>2. CASE g # h
    <3>1. worker'[g] = worker[g] /\ Known(worker[g]) /\ worker[g].server \in Nat /\ worker[g].image \in Nat
      BY <2>2, IdsAre, DoneTyped DEF Below
    <3> QED
      BY <3>1, IdsAre DEF Known
  <2> QED
    BY <2>1, <2>2
<1> QED
  BY <1>1 DEF Known

LEMMA InsertServersBelow ==
  ASSUME Rows, Below, NEW h \in Workers, InsertServers(h)
  PROVE  Below'
<1>1. PICK w, new, n : w = worker[h] /\ n = w.number /\ new = next.servers..(next.servers + n - 1)
  OBVIOUS
<1>2. Done(h) /\ UNCHANGED <<images, deployments, ops>> /\ n \in Nat
  BY <1>1, IdsAre DEF InsertServers
<1>3. /\ next'.servers \in Nat /\ next'.images = next.images /\ next'.deployments = next.deployments
      /\ next.servers <= next'.servers
      /\ \A s \in DOMAIN servers' : s \in DOMAIN servers \/ (s \in Nat /\ s < next'.servers)
  <2>1. CASE UNCHANGED <<servers, next>>
    BY <2>1, IdsAre
  <2>2. CASE /\ servers' = [s \in DOMAIN servers \union new |->
                              IF s \in new THEN [tenant |-> w.tenant, live |-> TRUE] ELSE servers[s]]
             /\ next' = [next EXCEPT !.servers = @ + n]
    <3>1. PICK first : first = next.servers /\ first \in Nat
      BY IdsAre
    <3>2. next'.servers = first + n /\ next'.images = next.images /\ next'.deployments = next.deployments
      <4>1. next' = [next EXCEPT !.servers = first + n]
        BY <2>2, <3>1
      <4> QED
        BY <4>1 DEF Rows, TablesTyped, IdSequences
    <3>3. DOMAIN servers' = DOMAIN servers \union new /\ new = first..(first + n - 1)
      BY <1>1, <2>2, <3>1
    <3>4. \A s \in new : s \in Nat /\ s < first + n
      BY <1>2, <3>1, <3>3
    <3>5. first + n \in Nat /\ first <= first + n
      BY <1>2, <3>1
    <3> QED
      BY <3>1, <3>2, <3>3, <3>4, <3>5
  <2> QED
    BY <1>1, <2>1, <2>2 DEF InsertServers
<1>4. \A s \in DOMAIN servers' : s < next'.servers
  BY <1>3, IdsAre DEF Below
<1>5. \A g \in Workers : Known(worker[g])'
  BY <1>2, <1>3, IdsAre, DoneBelow
<1> QED
  BY <1>2, <1>3, <1>4, <1>5 DEF Below

LEMMA DeploymentBelow ==
  ASSUME Rows, Below, NEW h \in Workers, InsertDeployment(h)
  PROVE  Below'
<1>1. Done(h) /\ UNCHANGED <<servers, images, ops>>
  BY DEF InsertDeployment
<1>2. next'.servers = next.servers /\ next'.images = next.images /\ \A d \in DOMAIN deployments' : d < next'.deployments
  <2>1. CASE UNCHANGED <<deployments, next>>
    BY <2>1 DEF Below
  <2>2. CASE ~UNCHANGED <<deployments, next>>
    <3>1. PICK d : d = next.deployments /\ d \in Nat
      BY IdsAre
    <3>2. DOMAIN deployments' = DOMAIN deployments \union {d} /\ next' = [next EXCEPT !.deployments = d + 1]
      BY <2>2, <3>1 DEF InsertDeployment
    <3>3. next'.deployments = d + 1 /\ next'.servers = next.servers /\ next'.images = next.images
      BY <3>2 DEF Rows, TablesTyped, IdSequences
    <3>4. \A e \in DOMAIN deployments : e < d /\ e \in Nat
      BY <3>1, IdsAre DEF Below
    <3> QED
      BY <3>1, <3>2, <3>3, <3>4
  <2> QED
    BY <2>1, <2>2
<1>3. \A g \in Workers : Known(worker[g])'
  BY <1>1, <1>2, IdsAre, DoneBelow
<1> QED
  BY <1>1, <1>2, <1>3 DEF Below

(* Every other write is of a row that has an id.                            *)
LEMMA WritesBelow ==
  ASSUME Rows, Below, NEW h \in Workers, Writes(h)
  PROVE  Below'
<1>1. CASE InsertServers(h) \/ InsertDeployment(h)
  BY <1>1, InsertServersBelow, DeploymentBelow
<1>2. CASE SaveTenant(h) \/ SaveServer(h) \/ DeleteServer(h) \/ SaveImage(h) \/ DeleteImage(h)
  <2>1. Done(h) /\ ops' = ops /\ next' = next /\ deployments' = deployments
    BY <1>2 DEF SaveTenant, SaveServer, DeleteServer, SaveImage, DeleteImage
  <2>2. /\ DOMAIN servers' \subseteq DOMAIN servers \union {worker[h].server}
        /\ DOMAIN images' \subseteq DOMAIN images \union {worker[h].image}
    BY <1>2 DEF SaveTenant, SaveServer, DeleteServer, SaveImage, DeleteImage
  <2>3. \A g \in Workers : Known(worker[g])'
    BY <2>1, IdsAre, DoneBelow
  <2> QED
    BY <2>1, <2>2, <2>3 DEF Below, Known
<1> QED
  BY <1>1, <1>2 DEF Writes

LEMMA ChecksBelow ==
  ASSUME Rows, Below, NEW h \in Workers, Checks(h)
  PROVE  Below'
<1>1. ASSUME NEW w, Begin(h, w), w.server \in {0} \union DOMAIN servers, w.image \in {0} \union DOMAIN images PROVE Below'
  BY <1>1, BeginBelow
<1>2. ASSUME NEW t, NEW status, NEW limit, CheckTenant(h, t, status, limit) PROVE Below'
  BY <1>1, <1>2 DEF CheckTenant, Idle
<1>3. ASSUME NEW t, NEW n, CheckCreate(h, t, n) PROVE Below'
  BY <1>1, <1>3 DEF CheckCreate, Idle
<1>4. ASSUME NEW t, NEW s \in DOMAIN servers, CheckUpdate(h, s, t) PROVE Below'
  BY <1>1, <1>4 DEF CheckUpdate, Idle
<1>5. ASSUME NEW s \in DOMAIN servers, CheckDelete(h, s) PROVE Below'
  BY <1>1, <1>5 DEF CheckDelete, Idle
<1>6. ASSUME NEW s \in DOMAIN servers, NEW i \in DOMAIN images, Preflight(h, s, i) PROVE Below'
  BY <1>1, <1>6 DEF Preflight, Idle
<1>7. ASSUME NEW i \in DOMAIN images, ReadImage(h, i) PROVE Below'
  BY <1>1, <1>7 DEF ReadImage, Idle
<1>8. ASSUME NEW i \in DOMAIN images, CheckDeleteImage(h, i) PROVE Below'
  BY <1>1, <1>8 DEF CheckDeleteImage, Idle
<1> QED
  BY <1>2, <1>3, <1>4, <1>5, <1>6, <1>7, <1>8 DEF Checks

LEMMA BelowKeeps ==
  ASSUME Rows, Below, InventoryNext
  PROVE  Below'
<1>1. CASE CreateImage
  <2>1. PICK n : n = next.images /\ n \in Nat
    BY IdsAre
  <2>2. UNCHANGED <<servers, deployments, worker>> /\ DOMAIN images' = DOMAIN images \union {n} /\ next' = [next EXCEPT !.images = n + 1]
    BY <1>1, <2>1 DEF CreateImage
  <2>3. next'.images = n + 1 /\ next'.servers = next.servers /\ next'.deployments = next.deployments
    BY <2>2 DEF Rows, TablesTyped, IdSequences
  <2>4. \A i \in DOMAIN images : i < n + 1
    BY <2>1, IdsAre DEF Below
  <2>5. \A h \in Workers : worker[h].image < n + 1 /\ worker[h].server < next.servers
    BY <2>1, IdsAre DEF Below, Known
  <2>6. n < n + 1
    BY <2>1
  <2> QED
    BY <2>2, <2>3, <2>4, <2>5, <2>6 DEF Below, Known
<1>2. ASSUME NEW t \in Tenants, NEW limit \in Limits, CreateTenant(t, limit) PROVE Below'
  BY <1>2 DEF CreateTenant, Below, Known
<1>3. ASSUME NEW s \in DOMAIN servers, StoreLabResult(s) PROVE Below'
  BY <1>3 DEF StoreLabResult, Below, Known
<1> QED
  BY <1>1, <1>2, <1>3, ChecksBelow, WritesBelow DEF InventoryNext

(***************************************************************************)
(* The backup and the restore.                                             *)
(***************************************************************************)
(* The tables of a payload, and where export and restore are.               *)
TenantsTyped(p) == DOMAIN p.tenants \subseteq Tenants /\ \A t \in DOMAIN p.tenants : p.tenants[t] \in TenantRows
ServersTyped(p) == DOMAIN p.servers \subseteq 1..MaxServers /\ \A s \in DOMAIN p.servers : p.servers[s] \in Tenants \union {"none"}
PayloadTyped(p) ==
  /\ DOMAIN p = {"tenants", "servers", "images", "deployments", "probed"}
  /\ TenantsTyped(p) /\ ServersTyped(p)
  /\ p.images \subseteq 1..MaxImages /\ DOMAIN p.deployments \subseteq 1..MaxDeployments /\ p.probed \subseteq 1..MaxServers

Exports == [pc : {"idle", "reading", "done", "moved"}, table : 1..5, torn : BOOLEAN, sound : BOOLEAN]
Restores == [pc : {"idle", "checked", "done"}, late : BOOLEAN]

BackupTyped == PayloadTyped(payload) /\ export \in Exports /\ restore \in Restores

Quiet == export.sound = TRUE /\ export.torn = FALSE
Same(p, q, table) == p[table] = q[table]

(* An export nothing tore reads tables that were valid when it began, and   *)
(* are the same still.                                                      *)
ExportInv ==
  /\ export.pc = "reading" /\ Quiet =>
        Valid(Live) /\ \A j \in 1 .. 5 : j < export.table => Same(payload, Live, Order[j])
  /\ export.pc = "done" /\ Quiet => Valid(payload)
RestoreInv ==
  /\ export.pc # "moved" => restore.pc = "idle"
  /\ restore.pc = "checked" => Valid(payload)
  /\ restore.late = FALSE => Below

BackupInv == Rows /\ QuotaInv /\ AssetInv /\ BackupTyped /\ ExportInv /\ RestoreInv

LEMMA LiveIs ==
  /\ DOMAIN Live = {"tenants", "servers", "images", "deployments", "probed"}
  /\ Live.tenants = tenants /\ Live.images = LiveImages /\ Live.deployments = deployments /\ Live.probed = probed
  /\ DOMAIN Live.servers = LiveServers /\ \A s \in LiveServers : Live.servers[s] = servers[s].tenant
BY DEF Live

LEMMA LiveStays ==
  ASSUME tables' = tables
  PROVE  Live' = Live
BY DEF tables, Live, LiveServers, LiveImages

LEMMA LiveTyped ==
  ASSUME Rows
  PROVE  PayloadTyped(Live)
<1>1. LiveServers \subseteq DOMAIN servers /\ LiveImages \subseteq DOMAIN images
  BY DEF LiveServers, LiveImages
<1>2. \A s \in LiveServers : servers[s].tenant \in Tenants \union {"none"}
  BY <1>1, RowsAre
<1>3. TenantsTyped(Live)
  BY LiveIs DEF TenantsTyped, Rows, TablesTyped
<1>4. ServersTyped(Live)
  BY <1>1, <1>2, LiveIs DEF ServersTyped, Rows, TablesTyped
<1>5. LiveImages \subseteq 1..MaxImages /\ DOMAIN deployments \subseteq 1..MaxDeployments /\ probed \subseteq 1..MaxServers
  BY <1>1 DEF Rows, TablesTyped
<1> QED
  BY <1>3, <1>4, <1>5, LiveIs DEF PayloadTyped

(* Rows no two requests raced for are valid.                                *)
LEMMA LiveValid ==
  ASSUME Rows, QuotaInv, AssetInv, severed = {}, overrun = {}, probed \subseteq LiveServers
  PROVE  Valid(Live)
<1>1. PICK p : p = Live
  OBVIOUS
<1>2. /\ p.tenants = tenants /\ p.images = LiveImages /\ p.deployments = deployments /\ p.probed = probed
      /\ DOMAIN p.servers = LiveServers /\ \A s \in LiveServers : p.servers[s] = servers[s].tenant
  BY <1>1, LiveIs
<1>3. ReferencesOK(p)
  BY <1>2 DEF ReferencesOK, QuotaInv, Owned, AssetInv, ReferencesResolve
<1>4. QuotasOK(p)
  <2>1. ASSUME NEW t \in DOMAIN p.tenants, p.tenants[t].limit # NoLimit
        PROVE  Cardinality({s \in DOMAIN p.servers : p.servers[s] = t}) <= p.tenants[t].limit
    <3>1. Fits(t, Cardinality(Holds(t)))
      BY <1>2, <2>1 DEF QuotaInv, Filled
    <3>2. {s \in DOMAIN p.servers : p.servers[s] = t} = Holds(t)
      BY <1>2 DEF Holds
    <3> QED
      BY <1>2, <2>1, <3>1, <3>2 DEF Fits
  <2> QED
    BY <2>1 DEF QuotasOK
<1> QED
  BY <1>1, <1>3, <1>4 DEF Valid

LEMMA BackupIs ==
  ASSUME BackupInv
  PROVE  /\ Rows /\ QuotaInv /\ AssetInv /\ BackupTyped /\ ExportInv /\ RestoreInv
         /\ export \in Exports /\ restore \in Restores /\ PayloadTyped(payload)
         /\ export.pc \in {"idle", "reading", "done", "moved"} /\ export.table \in 1..5
         /\ restore.pc \in {"idle", "checked", "done"} /\ restore.late \in BOOLEAN
BY DEF BackupInv, BackupTyped, Exports, Restores

LEMMA BackupInitially == BackupInit => BackupInv
<1> SUFFICES ASSUME BackupInit PROVE BackupInv
  OBVIOUS
<1>1. /\ InventoryInit /\ payload = Nothing
      /\ export = [pc |-> "idle", table |-> 1, torn |-> FALSE, sound |-> TRUE] /\ restore = [pc |-> "idle", late |-> FALSE]
  BY DEF BackupInit
<1>2. Rows /\ QuotaInv /\ AssetInv
  BY <1>1, InventoryInitially, AssetInvInit
<1>3. PayloadTyped(Nothing)
  BY DEF PayloadTyped, TenantsTyped, ServersTyped, Nothing
<1>4. BackupTyped
  BY <1>1, <1>3 DEF BackupTyped, Exports, Restores
<1>5. ExportInv
  BY <1>1 DEF ExportInv
<1>6. Below
  BY <1>1, IdleProper DEF InventoryInit, Below, Known
<1>7. RestoreInv
  BY <1>1, <1>6 DEF RestoreInv
<1> QED
  BY <1>2, <1>4, <1>5, <1>7 DEF BackupInv

(* The inventory stands still while export and restore look at it.          *)
LEMMA InventoryStands ==
  ASSUME BackupInv, UNCHANGED inventoryVars
  PROVE  /\ Rows' /\ QuotaInv' /\ AssetInv' /\ (Below => Below') /\ Live' = Live
<1>1. UNCHANGED <<tenants, servers, images, deployments, probed, next, worker, ops, severed, overrun>>
  BY DEF inventoryVars, tables
<1>2. Live' = Live
  BY <1>1, LiveStays DEF tables
<1>3. Below => Below'
  BY <1>1 DEF Below, Known
<1>4. AssetInv'
  BY BackupIs, AssetInvStep
<1> QED
  BY <1>2, <1>3, <1>4, BackupIs, AccountsStay

LEMMA WorkKeeps ==
  ASSUME BackupInv, Work
  PROVE  BackupInv'
<1>1. PICK torn : torn = (export.torn \/ (export.pc = "reading" /\ tables' # tables))
  OBVIOUS
<1>2. InventoryNext /\ UNCHANGED <<payload, restore>> /\ export' = [export EXCEPT !.torn = torn]
  BY <1>1 DEF Work
<1>3. Rows' /\ QuotaInv' /\ AssetInv'
  BY <1>2, BackupIs, AccountsKeep, AssetInvStep
<1>4. /\ export' \in Exports /\ export'.pc = export.pc /\ export'.table = export.table /\ export'.sound = export.sound
      /\ export'.torn = torn
  BY <1>1, <1>2, BackupIs DEF Exports
<1>5. torn = FALSE => export.torn = FALSE /\ (export.pc = "reading" => tables' = tables)
  BY <1>1, BackupIs DEF Exports
<1>6. BackupTyped'
  BY <1>2, <1>4, BackupIs DEF BackupTyped
<1>7. Quiet' => Quiet /\ (export.pc = "reading" => Live' = Live)
  BY <1>4, <1>5, LiveStays DEF Quiet
<1>8. ExportInv'
  <2>1. ASSUME export'.pc = "reading", Quiet' PROVE Valid(Live)' /\ \A j \in 1 .. 5 : j < export'.table => Same(payload', Live', Order[j])
    <3>1. export.pc = "reading" /\ Quiet /\ Live' = Live
      BY <1>4, <1>7, <2>1
    <3>2. Valid(Live) /\ \A j \in 1 .. 5 : j < export.table => Same(payload, Live, Order[j])
      BY <3>1, BackupIs DEF ExportInv
    <3>3. PICK p : p = Live /\ p = Live'
      BY <3>1
    <3>4. Valid(p)
      BY <3>2, <3>3
    <3>5. Valid(Live)'
      BY <3>3, <3>4 DEF Valid, ReferencesOK, QuotasOK
    <3> QED
      BY <1>2, <1>4, <3>1, <3>2, <3>5
  <2>2. ASSUME export'.pc = "done", Quiet' PROVE Valid(payload)'
    <3>1. Valid(payload)
      BY <1>4, <1>7, <2>2, BackupIs DEF ExportInv
    <3>2. PICK p : p = payload /\ p = payload'
      BY <1>2
    <3> QED
      BY <3>1, <3>2 DEF Valid, ReferencesOK, QuotasOK
  <2> QED
    BY <2>1, <2>2 DEF ExportInv, Same
<1>9. RestoreInv'
  <2>1. restore.late = FALSE => Below'
    BY <1>2, BackupIs, BelowKeeps DEF RestoreInv
  <2>2. restore.pc = "checked" => Valid(payload)
    BY BackupIs DEF RestoreInv
  <2>3. PICK p : p = payload /\ p = payload'
    BY <1>2
  <2>4. Valid(p) => Valid(payload)'
    BY <2>3 DEF Valid, ReferencesOK, QuotasOK
  <2>5. export.pc # "moved" => restore.pc = "idle"
    BY BackupIs DEF RestoreInv
  <2> QED
    BY <1>2, <1>4, <2>1, <2>2, <2>3, <2>4, <2>5 DEF RestoreInv
<1> QED
  BY <1>3, <1>6, <1>8, <1>9 DEF BackupInv

(* The tables in the order of the export.                                   *)
Tables == {"tenants", "servers", "images", "deployments", "probed"}

LEMMA OrderIs ==
  /\ Len(Order) = 5 /\ \A j \in 1 .. 5 : Order[j] \in Tables
  /\ \A j, k \in 1 .. 5 : j # k => Order[j] # Order[k]
  /\ Order[1] = "tenants" /\ Order[2] = "servers" /\ Order[3] = "images" /\ Order[4] = "deployments" /\ Order[5] = "probed"
BY DEF Order, Tables

LEMMA TableRead ==
  ASSUME NEW p, NEW q, PayloadTyped(p), PayloadTyped(q), NEW table \in Tables
  PROVE  /\ PayloadTyped([p EXCEPT ![table] = q[table]]) /\ Same([p EXCEPT ![table] = q[table]], q, table)
         /\ \A other \in Tables \ {table} : Same([p EXCEPT ![table] = q[table]], p, other)
<1>1. PICK r : r = [p EXCEPT ![table] = q[table]]
  OBVIOUS
<1>2. DOMAIN r = Tables /\ r[table] = q[table] /\ \A other \in Tables \ {table} : r[other] = p[other]
  BY <1>1 DEF PayloadTyped, Tables
<1>3. /\ r["tenants"] \in {p["tenants"], q["tenants"]} /\ r["servers"] \in {p["servers"], q["servers"]}
      /\ r["images"] \in {p["images"], q["images"]} /\ r["deployments"] \in {p["deployments"], q["deployments"]}
      /\ r["probed"] \in {p["probed"], q["probed"]}
  BY <1>2 DEF Tables
<1>4. TenantsTyped(r)
  BY <1>3 DEF PayloadTyped, TenantsTyped
<1>5. ServersTyped(r)
  BY <1>3 DEF PayloadTyped, ServersTyped
<1>6. r.images \subseteq 1..MaxImages /\ DOMAIN r.deployments \subseteq 1..MaxDeployments /\ r.probed \subseteq 1..MaxServers
  BY <1>3 DEF PayloadTyped
<1>7. PayloadTyped(r)
  BY <1>2, <1>4, <1>5, <1>6 DEF PayloadTyped, Tables
<1> QED
  BY <1>1, <1>2, <1>7 DEF Same

LEMMA SameValid ==
  ASSUME NEW p, NEW q, Valid(q), \A j \in 1 .. 5 : Same(p, q, Order[j])
  PROVE  Valid(p)
<1>1. p.tenants = q.tenants /\ p.servers = q.servers /\ p.images = q.images /\ p.deployments = q.deployments /\ p.probed = q.probed
  BY OrderIs DEF Same
<1>2. ReferencesOK(p)
  BY <1>1 DEF Valid, ReferencesOK
<1>3. QuotasOK(p)
  BY <1>1 DEF Valid, QuotasOK
<1> QED
  BY <1>2, <1>3 DEF Valid

LEMMA PayloadStays ==
  ASSUME payload' = payload
  PROVE  Valid(payload) => Valid(payload)'
<1>1. PICK p : p = payload /\ p = payload'
  OBVIOUS
<1> QED
  BY <1>1 DEF Valid, ReferencesOK, QuotasOK

LEMMA StartExportKeeps ==
  ASSUME BackupInv, StartExport
  PROVE  BackupInv'
<1>1. PICK sound : sound = (severed = {} /\ overrun = {} /\ probed \subseteq LiveServers)
  OBVIOUS
<1>2. /\ restore.pc = "idle" /\ export' = [pc |-> "reading", table |-> 1, torn |-> FALSE, sound |-> sound]
      /\ UNCHANGED <<inventoryVars, payload, restore>>
  BY <1>1 DEF StartExport
<1>3. export' \in Exports /\ export'.pc = "reading" /\ export'.table = 1 /\ export'.sound = sound
  BY <1>1, <1>2 DEF Exports
<1>4. Rows' /\ QuotaInv' /\ AssetInv' /\ (Below => Below') /\ Live' = Live
  BY <1>2, InventoryStands
<1>5. BackupTyped'
  BY <1>2, <1>3, BackupIs DEF BackupTyped
<1>6. Quiet' => Valid(Live)'
  <2>1. Quiet' => Valid(Live)
    BY <1>1, <1>3, BackupIs, LiveValid DEF Quiet
  <2>2. PICK p : p = Live /\ p = Live'
    BY <1>4
  <2> QED
    BY <2>1, <2>2 DEF Valid, ReferencesOK, QuotasOK
<1>7. ExportInv'
  BY <1>3, <1>6 DEF ExportInv
<1>8. RestoreInv'
  BY <1>2, <1>4, BackupIs DEF RestoreInv
<1> QED
  BY <1>4, <1>5, <1>7, <1>8 DEF BackupInv

LEMMA ReadTableKeeps ==
  ASSUME BackupInv, ReadTable
  PROVE  BackupInv'
<1>1. PICK k : k = export.table /\ k \in 1 .. 5
  BY BackupIs
<1>2. /\ export.pc = "reading" /\ payload' = [payload EXCEPT ![Order[k]] = Live[Order[k]]]
      /\ export' = IF k = 5 THEN [export EXCEPT !.pc = "done"] ELSE [export EXCEPT !.table = k + 1]
      /\ UNCHANGED <<inventoryVars, restore>>
  BY <1>1, OrderIs DEF ReadTable
<1>3. /\ export' \in Exports /\ export'.sound = export.sound /\ export'.torn = export.torn
      /\ k = 5 => export'.pc = "done"
      /\ k # 5 => export'.pc = "reading" /\ export'.table = k + 1
  <2>1. CASE k = 5
    BY <1>2, <2>1, BackupIs DEF Exports
  <2>2. CASE k # 5
    BY <1>1, <1>2, <2>2, BackupIs DEF Exports
  <2> QED
    BY <2>1, <2>2
<1>4. Rows' /\ QuotaInv' /\ AssetInv' /\ (Below => Below') /\ Live' = Live
  BY <1>2, InventoryStands
<1>5. PICK live : live = Live /\ live = Live' /\ PayloadTyped(live)
  BY <1>4, BackupIs, LiveTyped
<1>6. PICK read : read = payload /\ PayloadTyped(read)
  BY BackupIs
<1>7. PICK new : new = payload' /\ new = [read EXCEPT ![Order[k]] = live[Order[k]]]
  BY <1>2, <1>5, <1>6
<1>8. /\ PayloadTyped(new) /\ Same(new, live, Order[k])
      /\ \A other \in Tables \ {Order[k]} : Same(new, read, other)
  <2>1. PICK table : table = Order[k] /\ table \in Tables
    BY <1>1, OrderIs
  <2>2. new = [read EXCEPT ![table] = live[table]]
    BY <1>7, <2>1
  <2>3. /\ PayloadTyped([read EXCEPT ![table] = live[table]]) /\ Same([read EXCEPT ![table] = live[table]], live, table)
        /\ \A other \in Tables \ {table} : Same([read EXCEPT ![table] = live[table]], read, other)
    BY <1>5, <1>6, <2>1, TableRead
  <2>4. PayloadTyped(new)
    BY <2>2, <2>3
  <2>5. Same(new, live, table)
    BY <2>2, <2>3
  <2>6. \A other \in Tables \ {table} : Same(new, read, other)
    BY <2>2, <2>3
  <2> QED
    BY <2>1, <2>4, <2>5, <2>6
<1>9. PayloadTyped(payload')
  BY <1>7, <1>8
<1>10. BackupTyped'
  <2>1. PayloadTyped(payload)'
    BY <1>9 DEF PayloadTyped, TenantsTyped, ServersTyped
  <2> QED
    BY <1>2, <1>3, <2>1, BackupIs DEF BackupTyped
<1>11. Quiet' => Valid(live) /\ \A j \in 1 .. 5 : j <= k => Same(new, live, Order[j])
  <2>1. SUFFICES ASSUME Quiet' PROVE Valid(live) /\ \A j \in 1 .. 5 : j <= k => Same(new, live, Order[j])
    OBVIOUS
  <2>2. Valid(Live) /\ \A j \in 1 .. 5 : j < k => Same(read, live, Order[j])
    BY <1>1, <1>2, <1>3, <1>5, <1>6, <2>1, BackupIs DEF ExportInv, Quiet
  <2>3. ASSUME NEW j \in 1 .. 5, j <= k PROVE Same(new, live, Order[j])
    <3>1. CASE j = k
      BY <1>8, <3>1
    <3>2. CASE j # k
      BY <1>1, <1>8, <2>2, <2>3, <3>2, OrderIs DEF Same
    <3> QED
      BY <3>1, <3>2
  <2> QED
    BY <1>5, <2>2, <2>3
<1>12. ExportInv'
  <2>1. ASSUME export'.pc = "reading", Quiet'
        PROVE  Valid(Live)' /\ \A j \in 1 .. 5 : j < export'.table => Same(payload, Live, Order[j])'
    <3>1. k # 5 /\ export'.table = k + 1
      BY <1>3, <2>1
    <3>2. Valid(Live)'
      BY <1>5, <1>11, <2>1 DEF Valid, ReferencesOK, QuotasOK
    <3>3. ASSUME NEW j \in 1 .. 5, j < export'.table PROVE Same(payload, Live, Order[j])'
      BY <1>1, <1>5, <1>7, <1>11, <2>1, <3>1, <3>3 DEF Same
    <3> QED
      BY <3>2, <3>3
  <2>2. ASSUME export'.pc = "done", Quiet' PROVE Valid(payload)'
    <3>1. \A j \in 1 .. 5 : Same(new, live, Order[j])
      BY <1>3, <1>11, <2>2
    <3>2. Valid(new)
      BY <1>11, <2>2, <3>1, SameValid
    <3> QED
      BY <1>7, <3>2 DEF Valid, ReferencesOK, QuotasOK
  <2> QED
    BY <2>1, <2>2 DEF ExportInv
<1>13. RestoreInv'
  BY <1>2, <1>4, BackupIs DEF RestoreInv
<1> QED
  BY <1>4, <1>10, <1>12, <1>13 DEF BackupInv

LEMMA CheckRestoreKeeps ==
  ASSUME BackupInv, CheckRestore
  PROVE  BackupInv'
<1>1. /\ export.pc = "moved" /\ Valid(payload) /\ restore' = [restore EXCEPT !.pc = "checked"]
      /\ UNCHANGED <<inventoryVars, export, payload>>
  BY DEF CheckRestore
<1>2. restore' \in Restores /\ restore'.late = restore.late
  BY <1>1, BackupIs DEF Restores
<1>3. Rows' /\ QuotaInv' /\ AssetInv' /\ (Below => Below')
  BY <1>1, InventoryStands
<1>4. BackupTyped'
  BY <1>1, <1>2, BackupIs DEF BackupTyped, PayloadTyped, TenantsTyped, ServersTyped
<1>5. ExportInv'
  BY <1>1 DEF ExportInv
<1>6. RestoreInv'
  BY <1>1, <1>2, <1>3, BackupIs, PayloadStays DEF RestoreInv
<1> QED
  BY <1>3, <1>4, <1>5, <1>6 DEF BackupInv

LEMMA ReinstallKeeps ==
  ASSUME BackupInv, Reinstall
  PROVE  BackupInv'
<1>1. /\ export.pc = "done" /\ export' = [export EXCEPT !.pc = "moved"]
      /\ DOMAIN tenants' = {} /\ DOMAIN servers' = {} /\ DOMAIN images' = {} /\ DOMAIN deployments' = {} /\ probed' = {}
      /\ next' = [servers |-> 1, images |-> 1, deployments |-> 1]
      /\ worker' = [h \in Workers |-> Idle] /\ severed' = {} /\ overrun' = {} /\ UNCHANGED <<ops, payload, restore>>
  BY DEF Reinstall, Nothing
<1>2. export' \in Exports /\ export'.pc = "moved"
  BY <1>1, BackupIs DEF Exports
<1>3. next' \in IdSequences /\ next'.servers = 1 /\ next'.images = 1
  BY <1>1 DEF IdSequences
<1>4. \A h \in Workers : Proper(worker'[h]) /\ worker'[h].pc = "idle" /\ worker'[h].server = 0 /\ worker'[h].image = 0
  BY <1>1, IdleProper
<1>5. Rows'
  <2>1. TablesTyped'
    BY <1>1, <1>3 DEF TablesTyped
  <2>2. WorkersTyped'
    BY <1>1, <1>4, BackupIs DEF Rows, WorkersTyped, Proper
  <2> QED
    BY <2>1, <2>2 DEF Rows
<1>6. QuotaInv'
  BY <1>1, <1>4 DEF QuotaInv, Filled, Owned, LiveServers, Backed, Books
<1>7. AssetInv'
  BY <1>1 DEF AssetInv, ReferencesResolve, DeletionsClear, Whole
<1>8. Below'
  BY <1>1, <1>3, <1>4 DEF Below, Known
<1>9. BackupTyped'
  BY <1>1, <1>2, BackupIs DEF BackupTyped, PayloadTyped, TenantsTyped, ServersTyped
<1>10. ExportInv'
  BY <1>2 DEF ExportInv
<1>11. RestoreInv'
  BY <1>1, <1>2, <1>8, BackupIs DEF RestoreInv
<1> QED
  BY <1>5, <1>6, <1>7, <1>9, <1>10, <1>11 DEF BackupInv

LEMMA LeastIs ==
  ASSUME NEW S, S \subseteq Nat, S # {}
  PROVE  \E n \in S : \A m \in S : n <= m
<1> DEFINE R == {pair \in Nat \X Nat : pair[1] < pair[2]}
<1>1. IsWellFoundedOn(R, Nat)
  BY NatLessThanWellFounded DEF OpToRel
<1>2. PICK i \in S : \A j \in S : ~(<<j, i>> \in R)
  <2> HIDE DEF R
  <2> QED
    BY <1>1, WFMin
<1>3. ASSUME NEW j \in S PROVE i <= j
  <2>1. i \in Nat /\ j \in Nat
    OBVIOUS
  <2>2. j < i => <<j, i>> \in R
    BY <2>1
  <2> HIDE DEF R
  <2> QED
    BY <1>2, <2>1, <2>2
<1> QED
  BY <1>3

(* The first id after all of those there are.                               *)
LEMMA AboveIs ==
  ASSUME NEW ids, NEW bound \in Nat, ids \subseteq 1 .. bound, bound <= MaxServers + MaxImages + MaxDeployments
  PROVE  Above(ids) \in Nat \ {0} /\ \A i \in ids : i < Above(ids)
<1>1. PICK high : high = MaxServers + MaxImages + MaxDeployments + 1 /\ high \in Nat /\ bound < high
  BY InventoryBounds
<1>2. PICK after : after = {n \in 1 .. high : \A i \in ids : i < n}
  OBVIOUS
<1>3. after \subseteq Nat /\ after # {}
  <2>1. high \in after
    BY <1>1, <1>2
  <2> QED
    BY <1>2, <2>1
<1>4. PICK n \in after : \A m \in after : n <= m
  BY <1>3, LeastIs
<1>5. n \in 1 .. high /\ \A i \in ids : i < n
  BY <1>2
<1>6. n = 1 \/ (n - 1) \in ids
  <2>1. SUFFICES ASSUME n # 1 PROVE (n - 1) \in ids
    OBVIOUS
  <2>2. n - 1 \in 1 .. high /\ n - 1 < n
    BY <1>1, <1>5, <2>1
  <2>3. n - 1 \notin after
    BY <1>1, <1>4, <1>5, <2>2
  <2>4. PICK i \in ids : ~(i < n - 1)
    BY <1>2, <2>2, <2>3
  <2>5. i = n - 1
    BY <1>5, <2>2, <2>4
  <2> QED
    BY <2>5
<1>7. \E m \in 1 .. high : (\A i \in ids : i < m) /\ (m = 1 \/ (m - 1) \in ids)
  BY <1>5, <1>6
<1>8. Above(ids) = CHOOSE m \in 1 .. high : (\A i \in ids : i < m) /\ (m = 1 \/ (m - 1) \in ids)
  BY <1>1 DEF Above
<1>9. Above(ids) \in 1 .. high /\ \A i \in ids : i < Above(ids)
  BY <1>7, <1>8
<1> QED
  BY <1>1, <1>9

LEMMA NextIdsAre ==
  ASSUME NEW p, PayloadTyped(p)
  PROVE  /\ NextIds(p) \in IdSequences
         /\ \A s \in DOMAIN p.servers : s < NextIds(p).servers
         /\ \A i \in p.images : i < NextIds(p).images
         /\ \A d \in DOMAIN p.deployments : d < NextIds(p).deployments
<1>1. /\ DOMAIN p.servers \subseteq 1 .. MaxServers /\ p.images \subseteq 1 .. MaxImages
      /\ DOMAIN p.deployments \subseteq 1 .. MaxDeployments
  BY DEF PayloadTyped, ServersTyped
<1>2. PICK s, i, d : s = Above(DOMAIN p.servers) /\ i = Above(p.images) /\ d = Above(DOMAIN p.deployments)
  OBVIOUS
<1>3. s \in Nat \ {0} /\ \A id \in DOMAIN p.servers : id < s
  BY <1>1, <1>2, InventoryBounds, AboveIs
<1>4. i \in Nat \ {0} /\ \A id \in p.images : id < i
  BY <1>1, <1>2, InventoryBounds, AboveIs
<1>5. d \in Nat \ {0} /\ \A id \in DOMAIN p.deployments : id < d
  BY <1>1, <1>2, InventoryBounds, AboveIs
<1>6. NextIds(p) = [servers |-> s, images |-> i, deployments |-> d]
  BY <1>2 DEF NextIds
<1> QED
  BY <1>3, <1>4, <1>5, <1>6 DEF IdSequences

LEMMA WriteRestoreKeeps ==
  ASSUME BackupInv, WriteRestore
  PROVE  BackupInv'
<1>1. PICK late : late = (\E h \in Workers : worker[h].pc # "idle")
  OBVIOUS
<1>2. PICK p : p = payload /\ PayloadTyped(p)
  BY BackupIs
<1>3. PICK ids : ids = NextIds(p)
  OBVIOUS
<1>4. /\ restore.pc = "checked" /\ tenants' = p.tenants
      /\ servers' = [s \in DOMAIN p.servers |-> [tenant |-> p.servers[s], live |-> TRUE]]
      /\ images' = [i \in p.images |-> TRUE] /\ deployments' = p.deployments /\ probed' = p.probed /\ next' = ids
      /\ restore' = [pc |-> "done", late |-> late]
      /\ UNCHANGED <<worker, ops, export, payload>>
  BY <1>1, <1>2, <1>3 DEF WriteRestore
<1>5. /\ severed' = IF late THEN 1..MaxDeployments ELSE {}
      /\ overrun' = IF late THEN Tenants ELSE {}
  BY <1>1 DEF WriteRestore
<1>6. Valid(p) /\ export.pc = "moved"
  BY <1>2, <1>4, BackupIs DEF RestoreInv
<1>7. ReferencesOK(p) /\ QuotasOK(p)
  BY <1>6 DEF Valid
<1>8. /\ DOMAIN servers' = DOMAIN p.servers /\ DOMAIN images' = p.images
      /\ \A s \in DOMAIN p.servers : servers'[s].tenant = p.servers[s] /\ servers'[s].live = TRUE
      /\ \A i \in p.images : images'[i] = TRUE
  BY <1>4
<1>9. LiveServers' = DOMAIN p.servers /\ LiveImages' = p.images
  BY <1>8 DEF LiveServers, LiveImages
<1>10. /\ ids \in IdSequences
       /\ \A s \in DOMAIN p.servers : s < ids.servers
       /\ \A i \in p.images : i < ids.images
       /\ \A d \in DOMAIN p.deployments : d < ids.deployments
  BY <1>2, <1>3, NextIdsAre
<1>11. Rows'
  <2>1. DOMAIN tenants' \subseteq Tenants /\ \A t \in DOMAIN tenants' : tenants'[t] \in TenantRows
    BY <1>2, <1>4 DEF PayloadTyped, TenantsTyped
  <2>2. DOMAIN servers' \subseteq 1..MaxServers /\ \A s \in DOMAIN servers' : servers'[s] \in ServerRows
    BY <1>2, <1>4 DEF PayloadTyped, ServersTyped, ServerRows
  <2>3. DOMAIN images' \subseteq 1..MaxImages /\ DOMAIN deployments' \subseteq 1..MaxDeployments /\ probed' \subseteq DOMAIN servers'
    BY <1>2, <1>4, <1>7, <1>8 DEF PayloadTyped, ReferencesOK
  <2>4. severed' \subseteq 1..MaxDeployments /\ overrun' \subseteq Tenants
    BY <1>5
  <2>5. TablesTyped'
    BY <1>4, <1>10, <2>1, <2>2, <2>3, <2>4 DEF TablesTyped
  <2>6. WorkersTyped'
    BY <1>4, BackupIs DEF Rows, WorkersTyped, Proper
  <2> QED
    BY <2>5, <2>6 DEF Rows
<1>12. ASSUME ~late PROVE severed' = {} /\ overrun' = {} /\ \A h \in Workers : worker'[h].pc = "idle" /\ worker'[h].server = 0 /\ worker'[h].image = 0
  <2>1. \A h \in Workers : worker[h].pc = "idle" /\ Proper(worker[h])
    BY <1>1, <1>12, BackupIs, RowsAre
  <2> QED
    BY <1>4, <1>5, <1>12, <2>1 DEF Proper
<1>13. ASSUME late PROVE severed' = 1..MaxDeployments /\ overrun' = Tenants
  BY <1>5, <1>13
<1>14. AssetInv'
  <2>1. CASE late
    <3>1. Whole' = {}
      BY <1>2, <1>4, <1>13, <2>1 DEF Whole, PayloadTyped
    <3> QED
      BY <1>4, <3>1, BackupIs DEF AssetInv, ReferencesResolve, DeletionsClear, Whole
  <2>2. CASE ~late
    <3>1. ReferencesResolve'
      BY <1>4, <1>7, <1>9 DEF ReferencesResolve, ReferencesOK
    <3> QED
      BY <1>4, <1>12, <2>2, <3>1, BackupIs DEF AssetInv, DeletionsClear
  <2> QED
    BY <2>1, <2>2
<1>15. QuotaInv'
  <2>1. CASE late
    <3>1. DOMAIN tenants' \subseteq Tenants
      BY <1>2, <1>4 DEF PayloadTyped, TenantsTyped
    <3>2. Filled' /\ Owned'
      BY <1>2, <1>8, <1>9, <1>13, <2>1, <3>1 DEF Filled, Owned, PayloadTyped, ServersTyped
    <3>3. ASSUME NEW h \in Workers PROVE ~(Books(worker[h])')
      <4>1. worker[h].tenant \in Tenants \union {"none"}
        BY BackupIs, RowsAre DEF Proper
      <4> QED
        BY <1>4, <1>13, <2>1, <4>1 DEF Books
    <3> QED
      BY <3>2, <3>3 DEF QuotaInv, Backed
  <2>2. CASE ~late
    <3>1. ASSUME NEW t \in DOMAIN tenants' PROVE Fits(t, Cardinality(Holds(t)))'
      <4>1. Holds(t)' = {s \in DOMAIN p.servers : p.servers[s] = t}
        BY <1>8, <1>9 DEF Holds
      <4>2. PICK held : held = {s \in DOMAIN p.servers : p.servers[s] = t}
        OBVIOUS
      <4>3. tenants'[t].limit # NoLimit => Cardinality(held) <= tenants'[t].limit
        BY <1>4, <1>7, <3>1, <4>2 DEF QuotasOK
      <4>4. Cardinality(Holds(t))' = Cardinality(held)
        BY <4>1, <4>2
      <4> QED
        BY <3>1, <4>3, <4>4 DEF Fits
    <3>2. Filled'
      BY <3>1 DEF Filled
    <3>3. Owned'
      BY <1>4, <1>7, <1>8, <1>9 DEF Owned, ReferencesOK
    <3>4. \A h \in Workers : Backed(worker[h])'
      BY <1>12, <2>2 DEF Backed, Books
    <3> QED
      BY <3>2, <3>3, <3>4 DEF QuotaInv
  <2> QED
    BY <2>1, <2>2
<1>16. restore' \in Restores /\ restore'.pc = "done" /\ restore'.late = late
  BY <1>1, <1>4 DEF Restores
<1>17. ~late => Below'
  BY <1>4, <1>8, <1>10, <1>12 DEF Below, Known, IdSequences
<1>18. BackupTyped'
  BY <1>4, <1>16, BackupIs DEF BackupTyped, PayloadTyped, TenantsTyped, ServersTyped
<1>19. ExportInv'
  BY <1>4, <1>6 DEF ExportInv
<1>20. RestoreInv'
  BY <1>4, <1>6, <1>16, <1>17 DEF RestoreInv
<1> QED
  BY <1>11, <1>14, <1>15, <1>18, <1>19, <1>20 DEF BackupInv

LEMMA BackupStep == BackupInv /\ [BackupNext]_allVars => BackupInv'
<1> SUFFICES ASSUME BackupInv, [BackupNext]_allVars PROVE BackupInv'
  OBVIOUS
<1>1. CASE BackupNext
  BY <1>1, WorkKeeps, StartExportKeeps, ReadTableKeeps, ReinstallKeeps, CheckRestoreKeeps, WriteRestoreKeeps DEF BackupNext
<1>2. CASE UNCHANGED allVars
  <2>1. UNCHANGED <<inventoryVars, export, payload, restore>>
    BY <1>2 DEF allVars, backupVars
  <2>2. Rows' /\ QuotaInv' /\ AssetInv' /\ (Below => Below') /\ Live' = Live
    BY <2>1, InventoryStands
  <2>3. BackupTyped'
    BY <2>1, BackupIs DEF BackupTyped, PayloadTyped, TenantsTyped, ServersTyped
  <2>4. ExportInv'
    <3>1. PICK live : live = Live /\ live = Live'
      BY <2>2
    <3>2. Valid(Live) => Valid(Live)'
      BY <3>1 DEF Valid, ReferencesOK, QuotasOK
    <3> QED
      BY <2>1, <2>2, <3>2, BackupIs, PayloadStays DEF ExportInv, Quiet, Same
  <2>5. RestoreInv'
    BY <2>1, <2>2, BackupIs, PayloadStays DEF RestoreInv
  <2> QED
    BY <2>2, <2>3, <2>4, <2>5 DEF BackupInv
<1> QED
  BY <1>1, <1>2

LEMMA BackupInvariant == BackupSpec => []BackupInv
  BY BackupInitially, BackupStep, PTL DEF BackupSpec

(* For any installation, an export no write overlapped passes the           *)
(* validation of a restore, if the rows were sound when it began            *)
(* (exportBackup, buildBackupValidationReport).                             *)
THEOREM BackupsUsable == BackupSpec => []BackupUsable
<1>1. BackupInv => BackupUsable
  BY BackupIs DEF BackupUsable, ExportInv, Quiet, Exports
<1> QED
  BY <1>1, BackupInvariant, PTL

(* For any installation, also one that was restored, the id a sequence      *)
(* gives out next is in no row, unless a request was still to write rows    *)
(* the restore replaced (resetBackupTableSequences).                        *)
THEOREM IdsStayFresh == BackupSpec => []FreshIds
<1>1. ASSUME BackupInv PROVE FreshIds
  <2>1. CASE restore.late = FALSE
    <3>1. Below
      BY <1>1, <2>1, BackupIs DEF RestoreInv
    <3>2. /\ next.servers \in Nat /\ next.images \in Nat /\ next.deployments \in Nat
          /\ ~(next.servers < next.servers) /\ ~(next.images < next.images) /\ ~(next.deployments < next.deployments)
      BY <1>1, BackupIs, IdsAre
    <3> QED
      BY <3>1, <3>2 DEF Below, FreshIds
  <2> QED
    BY <1>1, <2>1, BackupIs DEF FreshIds
<1> QED
  BY <1>1, BackupInvariant, PTL

(* The server and the image of a deployment are there in a platform that    *)
(* was restored as in one that never was (restoreBackup).                   *)
THEOREM RestoredReferencesStay == BackupSpec => []ReferencesResolve
<1>1. BackupInv => ReferencesResolve
  BY BackupIs DEF AssetInv
<1> QED
  BY <1>1, BackupInvariant, PTL

(* A restore never leaves a tenant with more servers than its quota, also   *)
(* when requests on the rows it replaced are under way (restoreBackup,      *)
(* enforceTenantServerQuota).                                               *)
THEOREM RestoredQuotasHold == BackupSpec => []QuotaBounded
<1>1. BackupInv => QuotaBounded
  BY BackupIs, QuotaIs
<1> QED
  BY <1>1, BackupInvariant, PTL

(***************************************************************************)
(* Types and bounds.                                                       *)
(***************************************************************************)
UserLimits ==
  /\ \E n \in 1 .. MaxUsers : DOMAIN users = 1 .. n
  /\ edits \in 0 .. MaxEdits /\ \A h \in Editors : editor[h].user \in 0 .. MaxUsers

LEMMA UserLimitsStep == UserInv /\ UserLimits /\ [UserNext]_userVars => UserLimits'
<1> SUFFICES ASSUME UserInv, UserLimits, [UserNext]_userVars PROVE UserLimits'
  OBVIOUS
<1>1. PICK n \in 1 .. MaxUsers : DOMAIN users = 1 .. n
  BY DEF UserLimits
<1>2. MaxUsers \in Nat /\ MaxEdits \in Nat /\ n \in Nat /\ edits \in 0 .. MaxEdits
  BY <1>1, UsersAssumption DEF UserLimits
<1>3. Cardinality(DOMAIN users) = n
  BY <1>1, <1>2, FS_Interval
<1>4. DOMAIN editor = Editors /\ \A h \in Editors : editor[h].user \in 0 .. MaxUsers
  BY DEF UserLimits, UserInv, UserShape
<1>5. ASSUME NEW role, CreateUser(role) PROVE UserLimits'
  <2>1. n + 1 \in 1 .. MaxUsers /\ DOMAIN users' = 1 .. n + 1
    BY <1>2, <1>3, <1>5 DEF CreateUser
  <2> QED
    BY <1>2, <1>4, <1>5, <2>1 DEF CreateUser, UserLimits
<1>6. ASSUME NEW h \in Editors, NEW u \in DOMAIN users, NEW role, ReadUser(h, u, role) PROVE UserLimits'
  <2>1. u \in 0 .. MaxUsers /\ edits + 1 \in 0 .. MaxEdits
    BY <1>1, <1>2, <1>6 DEF ReadUser
  <2>2. \A g \in Editors : editor'[g].user \in {u, editor[g].user}
    BY <1>4, <1>6 DEF ReadUser
  <2>3. edits' = edits + 1 /\ users' = users
    BY <1>6 DEF ReadUser
  <2>4. \A g \in Editors : editor'[g].user \in 0 .. MaxUsers
    BY <1>4, <2>1, <2>2
  <2> QED
    BY <1>1, <2>1, <2>3, <2>4 DEF UserLimits
<1>7. ASSUME NEW h \in Editors, CheckAdmins(h) PROVE UserLimits'
  <2>1. editor[h] \in [pc : {"idle", "read", "write"}, user : Nat, was : Roles \union {"none"}, role : Roles \union {"none"}]
    BY DEF UserInv, UserShape
  <2>2. NoEdit.user = 0 /\ [editor[h] EXCEPT !.pc = "write"].user = editor[h].user
    BY <2>1 DEF NoEdit
  <2>3. \A g \in Editors : editor'[g].user \in {0, editor[g].user}
    BY <1>4, <1>7, <2>2 DEF CheckAdmins
  <2>4. \A g \in Editors : editor'[g].user \in 0 .. MaxUsers
    BY <1>2, <1>4, <2>3
  <2> QED
    BY <1>1, <1>2, <1>7, <2>4 DEF CheckAdmins, UserLimits
<1>8. ASSUME NEW h \in Editors, WriteRole(h) PROVE UserLimits'
  <2>1. \A g \in Editors : editor'[g].user \in {0, editor[g].user}
    BY <1>4, <1>8 DEF WriteRole, NoEdit
  <2>2. \A g \in Editors : editor'[g].user \in 0 .. MaxUsers
    BY <1>2, <1>4, <2>1
  <2>3. DOMAIN users' = DOMAIN users /\ edits' = edits
    BY <1>8 DEF WriteRole
  <2> QED
    BY <1>1, <1>2, <2>2, <2>3 DEF UserLimits
<1>9. CASE UNCHANGED userVars
  BY <1>9 DEF userVars, UserLimits
<1> QED
  BY <1>5, <1>6, <1>7, <1>8, <1>9 DEF UserNext

LEMMA UserLimitsInitially == UserInit => UserLimits
<1>1. MaxUsers \in Nat \ {0} /\ MaxEdits \in Nat
  BY UsersAssumption
<1>2. UserInit => DOMAIN users = 1 .. 1
  BY DEF UserInit
<1> QED
  BY <1>1, <1>2 DEF UserInit, UserLimits, NoEdit

LEMMA UserTypes == UserInv /\ UserLimits => UserTypeOK
<1> SUFFICES ASSUME UserInv, UserLimits PROVE UserTypeOK
  OBVIOUS
<1>1. PICK n \in 1 .. MaxUsers : DOMAIN users = 1 .. n
  BY DEF UserLimits
<1>2. Cardinality(DOMAIN users) = n
  BY <1>1, FS_Interval, UsersAssumption
<1>3. \A u \in DOMAIN users : users[u] \in Roles
  BY DEF UserInv, UserShape
<1>4. \A h \in Editors : editor[h].pc \in {"idle", "read", "write"}
  BY DEF UserInv, UserShape
<1> QED
  BY <1>1, <1>2, <1>3, <1>4 DEF UserLimits, UserTypeOK

(* Every login that is let through finds room for one more failure.         *)
LimiterLimits ==
  /\ Len(failures) + Cardinality(checking) <= MaxFailures + Cardinality(Logins) /\ now <= MaxNow
  /\ attempt.blockedTil <= now + Window

LEMMA LimiterLimitsStep == LimiterInv /\ LimiterLimits /\ [LimiterNext]_limiterVars => LimiterLimits'
<1> SUFFICES ASSUME LimiterInv, LimiterLimits, [LimiterNext]_limiterVars PROVE LimiterLimits'
  OBVIOUS
<1>1. MaxNow \in Nat /\ MaxFailures \in Nat
  BY LimiterAssumption
<1>2. /\ now \in Nat /\ Len(failures) \in Nat /\ attempt.blockedTil \in Nat \union {Never} /\ Never = -1
      /\ Cardinality(checking) \in Nat /\ Cardinality(Logins) \in Nat /\ Window \in Nat /\ checking \subseteq Logins
  <2>1. PICK h, busy : h \in Logins /\ busy = checking
    BY LimiterAssumption
  <2>2. Cardinality(checking) \in Nat
    <3>1. busy \subseteq Logins
      BY <2>1, LimiterIs
    <3>2. Cardinality(busy) \in Nat
      BY <2>1, <3>1, CheckingIs
    <3> QED
      BY <2>1, <3>2
  <2> QED
    BY <2>2, LimiterIs, LimiterBounds DEF Never
<1>3. NoAttempt.blockedTil = -1 /\ Never = -1
  BY DEF NoAttempt, Never
<1>4. ASSUME NEW h \in Logins, Allow(h) PROVE LimiterLimits'
  <2>1. /\ Len(failures) < MaxFailures /\ now' = now /\ failures' = failures /\ checking' \in {checking, checking \union {h}}
        /\ attempt' \in {attempt, NoAttempt}
    BY <1>4 DEF Allow, Cleaned
  <2>2. checking' \subseteq Logins
    BY <1>2, <2>1
  <2>3. Cardinality(checking') \in Nat /\ Cardinality(checking') <= Cardinality(Logins)
    BY <2>2, CheckingIs
  <2>4. attempt'.blockedTil <= now + Window
    BY <1>2, <1>3, <2>1 DEF LimiterLimits
  <2>5. Len(failures) + Cardinality(checking') <= MaxFailures + Cardinality(Logins)
    BY <1>1, <1>2, <2>1, <2>3
  <2> QED
    BY <2>1, <2>4, <2>5 DEF LimiterLimits
<1>5. ASSUME NEW h \in Logins, RecordFailure(h) PROVE LimiterLimits'
  <2>1. h \in checking /\ attempt' = Counted /\ failures' = Append(failures, now) /\ checking' = checking \ {h} /\ now' = now
    BY <1>5 DEF RecordFailure
  <2>2. Len(failures') = Len(failures) + 1 /\ Cardinality(checking') = Cardinality(checking) - 1
    BY <1>2, <2>1, CheckingIs, LimiterIs
  <2>3. Counted.blockedTil <= now + Window
    BY CountedIs
  <2> QED
    BY <1>1, <1>2, <2>1, <2>2, <2>3 DEF LimiterLimits
<1>6. ASSUME NEW h \in Logins, Reset(h) PROVE LimiterLimits'
  <2>1. attempt' = NoAttempt /\ Len(failures') = 0 /\ checking' = checking \ {h} /\ now' = now
    BY <1>6 DEF Reset
  <2>2. checking' \subseteq Logins
    BY <1>2, <2>1
  <2>3. Cardinality(checking') \in Nat /\ Cardinality(checking') <= Cardinality(Logins)
    BY <2>2, CheckingIs
  <2> QED
    BY <1>1, <1>2, <1>3, <2>1, <2>3 DEF LimiterLimits
<1>7. CASE Tick
  <2>1. now' = now + 1 /\ now < MaxNow /\ UNCHANGED <<attempt, checking, failures>>
    BY <1>7 DEF Tick
  <2>2. attempt.blockedTil <= now + 1 + Window
    BY <1>2 DEF LimiterLimits
  <2> QED
    BY <1>1, <1>2, <2>1, <2>2 DEF LimiterLimits
<1>8. CASE UNCHANGED limiterVars
  BY <1>8 DEF limiterVars, LimiterLimits
<1> QED
  BY <1>4, <1>5, <1>6, <1>7, <1>8 DEF LimiterNext

LEMMA LimiterLimitsInitially == LimiterInit => LimiterLimits
<1>1. Cardinality({}) = 0
  BY FS_EmptySet
<1>2. MaxNow \in Nat /\ MaxFailures \in Nat /\ NoAttempt.blockedTil = -1
  BY LimiterAssumption DEF NoAttempt, Never
<1> QED
  BY <1>1, <1>2, LimiterBounds DEF LimiterInit, LimiterLimits

LEMMA LimiterTypes == LimiterInv /\ LimiterLimits => LimiterTypeOK
<1> SUFFICES ASSUME LimiterInv, LimiterLimits PROVE LimiterTypeOK
  OBVIOUS
<1>1. MaxNow \in Nat /\ MaxFailures \in Nat /\ Never = -1 /\ NoAttempt.firstSeen = -1
  BY LimiterAssumption DEF NoAttempt, Never
<1>2. PICK all, busy, n : all = Cardinality(Logins) /\ busy = Cardinality(checking) /\ n = Len(failures)
  OBVIOUS
<1>3. all \in Nat /\ busy \in Nat /\ n \in Nat /\ Window \in Nat /\ now \in Nat /\ checking \subseteq Logins
  <2>1. PICK h : h \in Logins
    BY LimiterAssumption
  <2> QED
    BY <1>2, <2>1, LimiterIs, CheckingIs, LimiterBounds
<1>4. n <= MaxFailures + all /\ now \in 0 .. MaxNow
  BY <1>1, <1>2, <1>3 DEF LimiterLimits
<1>5. attempt.count \in 0 .. n
  <2>1. PICK p, q \in 0 .. Len(failures) : Split(p, q)
    BY DEF LimiterInv
  <2>2. q + attempt.count = n /\ attempt.count \in Nat
    BY <1>2, <2>1, LimiterIs DEF Split
  <2> QED
    BY <1>2, <1>3, <2>1, <2>2
<1>6. attempt.firstSeen \in Never .. MaxNow
  BY <1>1, <1>4, LimiterIs DEF LimiterInv, Counting
<1>7. attempt.blockedTil \in Never .. (MaxNow + Window)
  <2>1. attempt.blockedTil \in Nat \union {Never} /\ attempt.blockedTil <= now + Window
    BY LimiterIs DEF LimiterLimits
  <2> QED
    BY <1>1, <1>3, <1>4, <2>1
<1>8. attempt.count \in 0 .. (MaxFailures + all)
  BY <1>1, <1>3, <1>4, <1>5
<1> QED
  BY <1>2, <1>3, <1>4, <1>6, <1>7, <1>8 DEF LimiterTypeOK

LEMMA InventoryTypes == Rows => InventoryTypeOK
<1> SUFFICES ASSUME Rows PROVE InventoryTypeOK
  OBVIOUS
<1>1. \A h \in Workers : worker[h].tenant \in Tenants \union {"none"}
  BY RowsAre DEF Proper
<1> QED
  BY <1>1, RowsAre DEF InventoryTypeOK, Rows, TablesTyped, WorkersTyped

LEMMA BackupTypes == BackupInv => BackupTypeOK
<1> SUFFICES ASSUME BackupInv PROVE BackupTypeOK
  OBVIOUS
<1>1. export.table \in DOMAIN Order
  BY BackupIs DEF Order
<1>2. DOMAIN payload.servers \subseteq 1..MaxServers /\ DOMAIN payload.deployments \subseteq 1..MaxDeployments
  BY BackupIs DEF PayloadTyped, ServersTyped
<1> QED
  BY <1>1, <1>2, BackupIs DEF BackupTypeOK
===============================================================================
