-------------------------------- MODULE Accounts -------------------------------
(***************************************************************************)
(* The accounts of the System Monitor.  A request of an administrator is    *)
(* let through on the user's row as it is when it comes in (security.load_  *)
(* user_and_check_csrf, roles_required) and changes another row later, in   *)
(* one transaction that counts the active administrators                   *)
(* (user.update_access).  Requests run side by side.                        *)
(***************************************************************************)
EXTENDS FiniteSets, Naturals

CONSTANTS
  Users,    \* all who may ever get an account
  Roles,    \* ROLE_LABELS
  Browsers, \* sessions that may be open at once
  NoUser

ASSUME AccountAssumption ==
  /\ IsFiniteSet(Users)
  /\ NoUser \notin Users
  /\ "ADMIN" \in Roles

NoRequest == [user |-> NoUser]
Requests == [user : Users, role : Roles, active : BOOLEAN]

VARIABLES
  account,  \* table users: the accounts there are
  session,  \* the user of each browser's session
  underWay  \* the change each browser's request was let through for

accountVars == <<account, session, underWay>>

AccountTypeOK ==
  /\ DOMAIN account \subseteq Users
  /\ \A u \in DOMAIN account : account[u] \in [role : Roles, active : BOOLEAN]
  /\ session \in [Browsers -> Users \cup {NoUser}]
  /\ underWay \in [Browsers -> Requests \cup {NoRequest}]

AccountInit ==
  /\ account = [u \in {} |-> [role |-> "ADMIN", active |-> TRUE]]
  /\ session = [b \in Browsers |-> NoUser]
  /\ underWay = [b \in Browsers |-> NoRequest]

--------------------------------------------------------------------------------
ActiveUser(u) == u \in DOMAIN account /\ account[u].active

Admins == {u \in DOMAIN account : account[u].role = "ADMIN" /\ account[u].active}

With(u, role, active) ==
  [v \in DOMAIN account \cup {u} |->
     IF v = u THEN [role |-> role, active |-> active] ELSE account[v]]

(* insert_user; a name that is taken is refused. *)
InsertUser(u, role) ==
  /\ u \notin DOMAIN account
  /\ account' = With(u, role, TRUE)

(* flask create-admin *)
CreateAdmin(u) == InsertUser(u, "ADMIN") /\ UNCHANGED <<session, underWay>>

(* POST /admin/users.  It takes no account from anyone, so being let through *)
(* and the insertion are one step.                                          *)
CreateUser(b, u, role) ==
  /\ session[b] \in Admins
  /\ InsertUser(u, role)
  /\ UNCHANGED <<session, underWay>>

(* POST /login; the row of the user must be active. *)
Login(b, u) ==
  /\ session[b] = NoUser
  /\ ActiveUser(u)
  /\ session' = [session EXCEPT ![b] = u]
  /\ UNCHANGED <<account, underWay>>

(* POST /logout, or any request of a session whose user is inactive. *)
EndSession(b) ==
  /\ session[b] # NoUser
  /\ session' = [session EXCEPT ![b] = NoUser]
  /\ UNCHANGED <<account, underWay>>

(* POST /admin/users/<id>/access is let through. *)
LetThrough(b, r) ==
  /\ underWay[b] = NoRequest
  /\ session[b] \in Admins
  /\ underWay' = [underWay EXCEPT ![b] = r]
  /\ UNCHANGED <<account, session>>

TakesAdmin(r) == r.user \in Admins /\ (r.role # "ADMIN" \/ ~r.active)

(* Mutant: the administrators are not counted. *)
MayAlways(r) == r.user \in DOMAIN account

MayUpdate(r) ==
  /\ r.user \in DOMAIN account
  /\ TakesAdmin(r) => Cardinality(Admins) > 1

(* update_access: BEGIN IMMEDIATE, count, update. *)
UpdateAccess(b) ==
  /\ underWay[b] # NoRequest
  /\ LET r == underWay[b] IN
     account' = IF MayUpdate(r) THEN With(r.user, r.role, r.active) ELSE account
  /\ underWay' = [underWay EXCEPT ![b] = NoRequest]
  /\ UNCHANGED session

AccountNext ==
  \/ \E u \in Users : CreateAdmin(u)
  \/ \E b \in Browsers :
       \/ \E u \in Users, role \in Roles : CreateUser(b, u, role)
       \/ \E u \in Users : Login(b, u)
       \/ EndSession(b)
       \/ \E r \in Requests : LetThrough(b, r)
       \/ UpdateAccess(b)

AccountSpec == AccountInit /\ [][AccountNext]_accountVars

--------------------------------------------------------------------------------
(***************************************************************************)
(* Properties.                                                              *)
(***************************************************************************)

(* Once there is an active administrator there always is one, though two    *)
(* may demote each other at the same time and an administrator who has just *)
(* been demoted may still finish a request.                                 *)
AdminRemains == [][Admins # {} => Admins' # {}]_accountVars
================================================================================
