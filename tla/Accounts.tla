------------------------------ MODULE Accounts ------------------------------
(***************************************************************************)
(* Console accounts and their sessions: api/auth.py (update_user,          *)
(* deactivate_user, logout, revoke_console_session) on top of              *)
(* identity/service.py (sign-in, load_session, the administrator count)    *)
(* and identity/dependencies.py (require_admin).                           *)
(*                                                                         *)
(* A user change is several statements on two database sessions: the       *)
(* middleware resolves the cookie, then the handler reads the target row,  *)
(* counts the administrators, and writes.  Any other request may commit    *)
(* between two of them (READ COMMITTED, no row is locked before the        *)
(* UPDATE).  The UPDATE and the DELETE of the sessions are one             *)
(* transaction.  A sign-in checks the account and opens its session in two *)
(* transactions.                                                           *)
(*                                                                         *)
(* Passwords and the session lifetime are left open: a sign-in that fails  *)
(* changes nothing here, and a session may be found expired at any time.   *)
(***************************************************************************)
EXTENDS Naturals, FiniteSets, Null

CONSTANTS
  User,
  Federated,  \* the accounts whose role the identity provider decides
  SignIn,     \* the sign-ins that will succeed; each opens one session
  Change      \* the user changes requested

ASSUME FederatedAssumption == Federated \subseteq User
\* The bootstrap administrator is there before anybody signs in.
ASSUME UserAssumption == IsFiniteSet(User) /\ User # {}
ASSUME NobodyAssumption == NULL \notin User \union SignIn \union Change

Kind == {"deactivate", "activate", "demote", "promote", "password"}
Role == {"admin", "user"}

VARIABLES
  users,      \* the users table: role and active
  sessions,   \* the auth_sessions table: the sign-ins whose session stands
  owner,      \* whose sign-in it is
  signin,     \* where each sign-in is
  pc,         \* where each change is
  cookie,     \* the session it presents
  request,    \* the kind of change and its target
  loaded,     \* the target's row as the handler read it
  ended,      \* history: the sessions that were revoked or deleted
  sawActive,  \* history: the requester was active at some point of the request
  stale,      \* history: an administrator was removed since this change counted
  uncounted   \* history: a removal was written on a stale count, or by a provider

tables == <<users, sessions, ended>>
accounts ==
  <<users, sessions, owner, signin, pc, cookie, request, loaded, ended, sawActive, stale,
    uncounted>>

Admins == {u \in User : users[u].active /\ users[u].role = "admin"}
SessionsOf(u) == {s \in sessions : owner[s] = u}

NobodySignedIn ==
  /\ sessions = {}
  /\ owner = [s \in SignIn |-> NULL]
  /\ signin = [s \in SignIn |-> "new"]
  /\ pc = [c \in Change |-> "idle"]
  /\ cookie = [c \in Change |-> NULL]
  /\ request = [c \in Change |-> NULL]
  /\ loaded = [c \in Change |-> NULL]
  /\ ended = {}
  /\ sawActive = [c \in Change |-> FALSE]
  /\ stale = [c \in Change |-> FALSE]
  /\ uncounted = FALSE

AccountsInit ==
  /\ users \in [User -> [role : Role, active : {TRUE}]]
  /\ Admins # {}
  /\ NobodySignedIn

\* What the histories note of a step that leaves the table of users as `table`.
Observe(table, c, counts) ==
  LET admins == {u \in User : table[u].active /\ table[u].role = "admin"}
      removed == Admins \ admins # {}
  IN  /\ stale' = [d \in Change |-> IF d = c THEN FALSE ELSE stale[d] \/ removed]
      /\ uncounted' = (uncounted \/ (removed /\ ~counts))
      /\ sawActive' = [d \in Change |->
           \/ sawActive[d]
           \/ cookie'[d] # NULL /\ table[owner[cookie'[d]]].active]

-----------------------------------------------------------------------------
\* authenticate / provision_federated_user: the account must be active, and a
\* provider that reported the groups decides the role of an account of its own.
Authenticate(s) ==
  /\ signin[s] = "new"
  /\ \E u \in User :
       /\ users[u].active
       /\ owner' = [owner EXCEPT ![s] = u]
       /\ \E r \in IF u \in Federated THEN Role ELSE {users[u].role} :
            users' = [users EXCEPT ![u].role = r]
  /\ signin' = [signin EXCEPT ![s] = "authenticated"]
  /\ UNCHANGED <<sessions, pc, cookie, request, loaded, ended>>
  /\ Observe(users', NULL, FALSE)

\* create_session.
CreateSession(s) ==
  /\ signin[s] = "authenticated"
  /\ sessions' = sessions \union {s}
  /\ signin' = [signin EXCEPT ![s] = "open"]
  /\ UNCHANGED <<users, owner, pc, cookie, request, loaded, ended, sawActive,
                 stale, uncounted>>

\* logout, DELETE /sessions/{hash}, and the lazy deletion of an expired row.
EndSession(s) ==
  /\ s \in sessions
  /\ sessions' = sessions \ {s}
  /\ ended' = ended \union {s}
  /\ UNCHANGED <<users, owner, signin, pc, cookie, request, loaded, sawActive,
                 stale, uncounted>>

-----------------------------------------------------------------------------
\* A change arrives with the cookie of a session opened at some time.
Arrive(c) ==
  /\ pc[c] = "idle"
  /\ \E s \in SignIn, k \in Kind, t \in User :
       /\ signin[s] = "open"
       /\ cookie' = [cookie EXCEPT ![c] = s]
       /\ request' = [request EXCEPT ![c] = [kind |-> k, target |-> t]]
  /\ pc' = [pc EXCEPT ![c] = "session"]
  /\ UNCHANGED <<tables, owner, signin, loaded>>
  /\ Observe(users, NULL, TRUE)

\* load_session, first read: is the session's row still there?
FindSession(c) ==
  /\ pc[c] = "session"
  /\ pc' = [pc EXCEPT ![c] = IF cookie[c] \in sessions THEN "user" ELSE "refused"]
  /\ UNCHANGED <<tables, owner, signin, cookie, request, loaded, sawActive,
                 stale, uncounted>>

\* Fault: the account is not asked whether it is active.
TrustSession(c) ==
  /\ pc[c] = "user"
  /\ pc' = [pc EXCEPT ![c] =
       IF users[owner[cookie[c]]].role = "admin" THEN "load" ELSE "refused"]
  /\ UNCHANGED <<tables, owner, signin, cookie, request, loaded, sawActive,
                 stale, uncounted>>

\* Fault: the time of use is written back as a whole row.
TouchAsNewRow(c) ==
  /\ pc[c] = "user"
  /\ LET u == users[owner[cookie[c]]]
     IN  /\ sessions' = IF u.active THEN sessions \union {cookie[c]} ELSE sessions
         /\ pc' = [pc EXCEPT ![c] =
              IF u.active /\ u.role = "admin" THEN "load" ELSE "refused"]
  /\ UNCHANGED <<users, owner, signin, ended, cookie, request, loaded, sawActive, stale,
                 uncounted>>

\* Second read: its account.  The session of an inactive account is deleted;
\* otherwise the role read here is what require_admin decides on.
FindUser(c) ==
  /\ pc[c] = "user"
  /\ LET u == users[owner[cookie[c]]]
         lapsed == IF u.active THEN {} ELSE {cookie[c]}
     IN  /\ sessions' = sessions \ lapsed
         /\ ended' = ended \union lapsed
         /\ pc' = [pc EXCEPT ![c] =
              IF u.active /\ u.role = "admin" THEN "load" ELSE "refused"]
  /\ UNCHANGED <<users, owner, signin, cookie, request, loaded, sawActive, stale,
                 uncounted>>

\* _load_user, and the refusals that need nothing more.
Load(c) ==
  /\ pc[c] = "load"
  /\ LET t == request[c].target
         k == request[c].kind
     IN  /\ loaded' = [loaded EXCEPT ![c] = users[t]]
         /\ pc' = [pc EXCEPT ![c] =
              IF \/ t \in Federated /\ k \in {"demote", "promote", "password"}
                 \/ t = owner[cookie[c]] /\ k = "deactivate"
              THEN "refused"
              ELSE "count"]
  /\ UNCHANGED <<tables, owner, signin, cookie, request, sawActive, stale, uncounted>>

\* Would the change, judged by the row that was loaded, remove an administrator?
RemovingAdmin(c) ==
  /\ loaded[c] = [role |-> "admin", active |-> TRUE]
  /\ request[c].kind \in {"deactivate", "demote"}

\* Fault: a demotion is not counted.
LastDeactivated(c) ==
  RemovingAdmin(c) /\ request[c].kind = "deactivate" /\ Cardinality(Admins) <= 1

LastAdmin(c) == RemovingAdmin(c) /\ Cardinality(Admins) <= 1

\* active_admin_count.
CountAdmins(c) ==
  /\ pc[c] = "count"
  /\ pc' = [pc EXCEPT ![c] = IF LastAdmin(c) THEN "refused" ELSE "write"]
  /\ stale' = [stale EXCEPT ![c] = FALSE]
  /\ UNCHANGED <<tables, owner, signin, cookie, request, loaded, sawActive, uncounted>>

\* The UPDATE names only the attributes that differ from the row as loaded.
Updated(c) ==
  LET row == users[request[c].target]
      k == request[c].kind
      role == CASE k = "demote" -> "user" [] k = "promote" -> "admin"
                [] OTHER -> loaded[c].role
      active == CASE k = "deactivate" -> FALSE [] k = "activate" -> TRUE
                  [] OTHER -> loaded[c].active
  IN  [role   |-> IF role = loaded[c].role THEN row.role ELSE role,
       active |-> IF active = loaded[c].active THEN row.active ELSE active]

\* The changes that revoke every session of the account.
Cuts(c) == request[c].kind \in {"deactivate", "password"}

Write(c) ==
  /\ pc[c] = "write"
  /\ users' = [users EXCEPT ![request[c].target] = Updated(c)]
  /\ sessions' = IF Cuts(c) THEN sessions \ SessionsOf(request[c].target) ELSE sessions
  /\ ended' = IF request[c].kind \in {"deactivate", "password"}
              THEN ended \union SessionsOf(request[c].target) ELSE ended
  /\ pc' = [pc EXCEPT ![c] = "done"]
  /\ UNCHANGED <<owner, signin, cookie, request, loaded>>
  /\ Observe(users', c, ~stale[c] /\ RemovingAdmin(c))

AccountsNext ==
  \/ \E s \in SignIn : Authenticate(s) \/ CreateSession(s) \/ EndSession(s)
  \/ \E c \in Change :
       \/ Arrive(c) \/ FindSession(c) \/ FindUser(c)
       \/ Load(c) \/ CountAdmins(c) \/ Write(c)

-----------------------------------------------------------------------------
\* A session row is always one that a sign-in opened and nobody has ended since,
\* and a change carries what its stage has read.
AccountsTypeOK ==
  /\ users \in [User -> [role : Role, active : BOOLEAN]]
  /\ \A s \in sessions : signin[s] = "open" /\ owner[s] \in User
  /\ pc \in [Change -> {"idle", "session", "user", "load", "count", "write",
                        "refused", "done"}]
  /\ \A c \in Change : pc[c] \in {"count", "write", "done"} => loaded[c] # NULL

\* A session that was signed out, revoked, or cut off with its account's sign-in
\* stays gone: no request still being served brings the row back, and none of the
\* sessions a deactivation or a new password was to end outlives it.
EndedSessionsStayEnded == sessions \intersect ended = {}

\* Only requests of accounts that were active while the request was served change
\* a user, however late the cookie was issued: a session opened by a sign-in that
\* was under way when its account was deactivated is worth nothing.
ChangesComeFromActiveAccounts ==
  \A c \in Change : pc[c] \in {"load", "count", "write", "done"} => sawActive[c]

\* The console loses its last administrator only to a removal that its guard could
\* not see: another one written between its count and its write, or a provider's.
GuardKeepsAnAdministrator == Admins = {} => uncounted
=============================================================================
