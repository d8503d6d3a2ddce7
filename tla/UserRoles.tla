------------------------------- MODULE UserRoles -------------------------------
(***************************************************************************)
(* The users and their roles: an administrator changes a role between a    *)
(* read of the user, a count of the other administrators and the write of  *)
(* the row.  Changing a name or a password leaves the roles alone.         *)
(***************************************************************************)
EXTENDS Integers, FiniteSets

CONSTANTS
  Editors,      \* goroutines of the HTTP server
  MaxUsers,     \* bound on users
  MaxEdits      \* bound on role changes

ASSUME UsersAssumption == MaxUsers \in Nat \ {0} /\ MaxEdits \in Nat

VARIABLES
  users,        \* role of each users row, by id
  editor,       \* the update each goroutine handles
  edits,        \* updates so far
  crossed       \* a demotion another request had counted on, or based on an older role

userVars == <<users, editor, edits, crossed>>

Roles == {"admin", "operator", "viewer"}
NoEdit == [pc |-> "idle", user |-> 0, was |-> "none", role |-> "none"]
Demotes(edit) == edit.was = "admin" /\ edit.role # "admin"

(* The seeded administrator. *)
UserInit ==
  /\ users = [u \in {1} |-> "admin"]
  /\ editor = [h \in Editors |-> NoEdit] /\ edits = 0 /\ crossed = FALSE

CreateUser(role) ==
  /\ Cardinality(DOMAIN users) < MaxUsers
  /\ users' = [u \in 1..(Cardinality(DOMAIN users) + 1) |-> IF u \in DOMAIN users THEN users[u] ELSE role]
  /\ UNCHANGED <<editor, edits, crossed>>

(* PATCH /users/{id}: the row is read. *)
ReadUser(h, u, role) ==
  /\ editor[h].pc = "idle" /\ edits < MaxEdits
  /\ edits' = edits + 1
  /\ editor' = [editor EXCEPT ![h] = [pc |-> "read", user |-> u, was |-> users[u], role |-> role]]
  /\ UNCHANGED <<users, crossed>>

X_RemainingAdmins(u) == {v \in DOMAIN users : users[v] = "admin"}

(* The administrators counted before one is demoted. *)
RemainingAdmins(u) == {v \in DOMAIN users : users[v] = "admin" /\ v # u}

CheckAdmins(h) ==
  /\ editor[h].pc = "read"
  /\ editor' = IF Demotes(editor[h]) /\ RemainingAdmins(editor[h].user) = {}
               THEN [editor EXCEPT ![h] = NoEdit] ELSE [editor EXCEPT ![h].pc = "write"]
  /\ UNCHANGED <<users, edits, crossed>>

WriteRole(h) ==
  /\ editor[h].pc = "write"
  /\ users' = [users EXCEPT ![editor[h].user] = editor[h].role]
  /\ crossed' = \/ crossed
                \/ /\ users[editor[h].user] = "admin" /\ editor[h].role # "admin"
                   /\ \/ editor[h].was # "admin"
                      \/ \E g \in Editors \ {h} : editor[g].pc = "write" /\ Demotes(editor[g])
  /\ editor' = [editor EXCEPT ![h] = NoEdit]
  /\ UNCHANGED edits

UserNext ==
  \/ \E role \in Roles : CreateUser(role)
  \/ \E h \in Editors : \/ \E u \in DOMAIN users, role \in Roles : ReadUser(h, u, role)
                        \/ CheckAdmins(h) \/ WriteRole(h)

UserSpec == UserInit /\ [][UserNext]_userVars

UserTypeOK ==
  /\ DOMAIN users = 1..Cardinality(DOMAIN users) /\ Cardinality(DOMAIN users) \in 1..MaxUsers
  /\ \A u \in DOMAIN users : users[u] \in Roles
  /\ \A h \in Editors : editor[h].pc \in {"idle", "read", "write"} /\ editor[h].user \in 0..MaxUsers
  /\ edits \in 0..MaxEdits

(* The platform keeps an administrator, unless a demotion was written     *)
(* while another had already counted it, or by a request that read the    *)
(* user before it became one (updateUser reads, counts and writes in      *)
(* separate statements).                                                  *)
AdminRemains == (\E u \in DOMAIN users : users[u] = "admin") \/ crossed
================================================================================
