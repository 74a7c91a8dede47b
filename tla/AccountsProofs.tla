--------------------------- MODULE AccountsProofs ----------------------------
(***************************************************************************)
(* Proofs about accounts, sessions and user changes, in the system Identity *)
(* composes: any number of accounts, sign-ins and changes.                  *)
(*                                                                         *)
(* The guard counts the administrators in one statement and writes in       *)
(* another.  What it counted is worth something only while nobody was       *)
(* removed since, which is what `stale` remembers: CountHolds is the part   *)
(* of the invariant that carries the count to the write.                    *)
(***************************************************************************)
EXTENDS Identity, FiniteSetTheorems, TLAPS

UserRows == [role : Role, active : BOOLEAN]
UserChanges == [kind : Kind, target : User]

AccountsTypes ==
  /\ users \in [User -> UserRows]
  /\ sessions \subseteq SignIn
  /\ owner \in [SignIn -> User \union {NULL}]
  /\ signin \in [SignIn -> {"new", "authenticated", "open"}]
  /\ pc \in [Change -> {"idle", "session", "user", "load", "count", "write", "refused", "done"}]
  /\ cookie \in [Change -> SignIn \union {NULL}]
  /\ request \in [Change -> UserChanges \union {NULL}]
  /\ loaded \in [Change -> UserRows \union {NULL}]
  /\ ended \subseteq SignIn
  /\ sawActive \in [Change -> BOOLEAN]
  /\ stale \in [Change -> BOOLEAN]
  /\ uncounted \in BOOLEAN

\* A sign-in past its check has an owner; only an open one has had a session, or issued
\* the cookie a change presents.
SessionsHaveOwners ==
  /\ \A s \in SignIn : signin[s] # "new" => owner[s] \in User
  /\ \A s \in sessions \union ended : signin[s] = "open"

ChangesCarryCookies ==
  \A c \in Change :
    /\ pc[c] = "idle" => cookie[c] = NULL
    /\ pc[c] # "idle" =>
         /\ cookie[c] \in SignIn /\ signin[cookie[c]] = "open"
         /\ request[c] \in UserChanges
    /\ pc[c] \in {"count", "write", "done"} => loaded[c] \in UserRows

\* History misses no moment at which a requester was active.
ActiveIsSeen ==
  \A c \in Change :
    pc[c] # "idle" /\ users[owner[cookie[c]]].active => sawActive[c]

\* A removal that may be written on a count that still holds leaves somebody.
Several == \E a, b \in Admins : a # b

CountHolds ==
  \A c \in Change : pc[c] = "write" /\ ~stale[c] /\ RemovingAdmin(c) => Several

\* The inductive invariant.
AccountsIInv ==
  /\ AccountsTypes
  /\ SessionsHaveOwners
  /\ ChangesCarryCookies
  /\ ActiveIsSeen
  /\ CountHolds
  /\ EndedSessionsStayEnded
  /\ ChangesComeFromActiveAccounts
  /\ GuardKeepsAnAdministrator

-----------------------------------------------------------------------------
LEMMA NobodyIInv ==
  ASSUME NobodySignedIn, users \in [User -> UserRows], Admins # {}
  PROVE  AccountsIInv
<1> USE DEF NobodySignedIn
<1>1. AccountsTypes
  BY DEF AccountsTypes
<1>2. SessionsHaveOwners /\ ChangesCarryCookies /\ ActiveIsSeen /\ CountHolds
  BY DEF SessionsHaveOwners, ChangesCarryCookies, ActiveIsSeen, CountHolds
<1>3. EndedSessionsStayEnded /\ ChangesComeFromActiveAccounts /\ GuardKeepsAnAdministrator
  BY DEF EndedSessionsStayEnded, ChangesComeFromActiveAccounts, GuardKeepsAnAdministrator
<1> QED
  BY <1>1, <1>2, <1>3 DEF AccountsIInv

LEMMA AccountsInitIInv == Init => AccountsIInv
<1> SUFFICES ASSUME Init PROVE AccountsIInv
  OBVIOUS
<1>1. CASE part = "accounts"
  <2>1. AccountsInit
    BY <1>1 DEF Init
  <2>2. users \in [User -> UserRows]
    BY <2>1 DEF AccountsInit, UserRows
  <2> QED
    BY <2>1, <2>2, NobodyIInv DEF AccountsInit
<1>2. CASE part # "accounts"
  <2>1. users = [u \in User |-> [role |-> "admin", active |-> TRUE]] /\ NobodySignedIn
    BY <1>2 DEF Init, AccountsAtRest
  <2>2. users \in [User -> UserRows]
    BY <2>1 DEF UserRows, Role
  <2>3. Admins # {}
    BY <2>1, UserAssumption DEF Admins
  <2> QED
    BY <2>1, <2>2, <2>3, NobodyIInv
<1> QED
  BY <1>1, <1>2

\* With two administrators, losing one row leaves one.
LEMMA OneRowLess ==
  ASSUME AccountsIInv, NEW t \in User, NEW row \in UserRows,
         users' = [users EXCEPT ![t] = row]
  PROVE  /\ Admins \ {t} \subseteq Admins'
         /\ Several => Admins' # {}
<1>1. Admins \ {t} \subseteq Admins'
  BY DEF AccountsIInv, AccountsTypes, Admins
<1> QED
  BY <1>1 DEF Several

\* What Observe keeps, of a step in which a change moves from its write, or none does.
LEMMA ObservedStep ==
  ASSUME AccountsIInv, NEW c \in Change \union {NULL}, NEW counts \in BOOLEAN,
         users' \in [User -> UserRows], Observe(users', c, counts),
         cookie' \in [Change -> SignIn \union {NULL}]
  PROVE  /\ stale' \in [Change -> BOOLEAN] /\ uncounted' \in BOOLEAN
         /\ sawActive' \in [Change -> BOOLEAN]
         /\ \A d \in Change :
              /\ sawActive[d] => sawActive'[d]
              /\ cookie'[d] # NULL /\ users'[owner[cookie'[d]]].active => sawActive'[d]
              /\ d # c /\ ~stale'[d] => ~stale[d] /\ Admins \subseteq Admins'
         /\ uncounted => uncounted'
         /\ ~uncounted' => counts \/ Admins \subseteq Admins'
<1>1. Admins' = {u \in User : users'[u].active /\ users'[u].role = "admin"}
  BY DEF Admins
<1> QED
  BY <1>1 DEF Observe, AccountsIInv, AccountsTypes
\* Where nobody's row changes and no change of a user moves, only the sessions matter.
LEMMA AuthenticatePreserves ==
  ASSUME AccountsIInv, NEW s \in SignIn, Authenticate(s) PROVE AccountsIInv'
<1>1. PICK u \in User, r \in Role :
        /\ signin[s] = "new" /\ signin' = [signin EXCEPT ![s] = "authenticated"]
        /\ owner' = [owner EXCEPT ![s] = u]
        /\ users' = [users EXCEPT ![u].role = r]
        /\ UNCHANGED <<sessions, pc, cookie, request, loaded, ended>>
        /\ Observe(users', NULL, FALSE)
  BY DEF Authenticate, AccountsIInv, AccountsTypes, UserRows
<1> USE DEF AccountsIInv
<1>2. users' \in [User -> UserRows]
  BY <1>1 DEF AccountsTypes, UserRows
<1>3. /\ stale' \in [Change -> BOOLEAN] /\ uncounted' \in BOOLEAN
      /\ sawActive' \in [Change -> BOOLEAN]
      /\ \A d \in Change :
           /\ sawActive[d] => sawActive'[d]
           /\ cookie'[d] # NULL /\ users'[owner[cookie'[d]]].active => sawActive'[d]
           /\ d # NULL /\ ~stale'[d] => ~stale[d] /\ Admins \subseteq Admins'
      /\ uncounted => uncounted'
      /\ ~uncounted' => Admins \subseteq Admins'
  <2>1. cookie' \in [Change -> SignIn \union {NULL}]
    BY <1>1 DEF AccountsTypes
  <2> QED
    BY <1>1, <1>2, <2>1, ObservedStep
<1>4. AccountsTypes'
  BY <1>1, <1>2, <1>3 DEF AccountsTypes
<1>5. SessionsHaveOwners' /\ ChangesCarryCookies'
  BY <1>1 DEF AccountsTypes, SessionsHaveOwners, ChangesCarryCookies
<1>6. ActiveIsSeen'
  <2> SUFFICES ASSUME NEW c \in Change, pc'[c] # "idle", users'[owner'[cookie'[c]]].active
               PROVE  sawActive'[c]
    BY DEF ActiveIsSeen
  <2>1. cookie[c] # NULL /\ owner'[cookie[c]] = owner[cookie[c]]
    BY <1>1, NobodyAssumption DEF AccountsTypes, ChangesCarryCookies
  <2> QED
    BY <1>1, <1>3, <2>1
<1>7. CountHolds'
  BY <1>1, <1>3, NobodyAssumption DEF CountHolds, RemovingAdmin, Several
<1>8. EndedSessionsStayEnded' /\ ChangesComeFromActiveAccounts' /\ GuardKeepsAnAdministrator'
  BY <1>1, <1>3 DEF EndedSessionsStayEnded, ChangesComeFromActiveAccounts,
                    GuardKeepsAnAdministrator
<1> QED
  BY <1>4, <1>5, <1>6, <1>7, <1>8

LEMMA SessionStepsPreserve ==
  ASSUME AccountsIInv, NEW s \in SignIn, CreateSession(s) \/ EndSession(s)
  PROVE  AccountsIInv'
<1>1. /\ UNCHANGED <<users, owner, pc, cookie, request, loaded, sawActive, stale, uncounted>>
      /\ \/ /\ signin[s] = "authenticated" /\ signin' = [signin EXCEPT ![s] = "open"]
            /\ sessions' = sessions \union {s} /\ ended' = ended
         \/ /\ s \in sessions /\ signin' = signin
            /\ sessions' = sessions \ {s} /\ ended' = ended \union {s}
  BY DEF CreateSession, EndSession
<1> USE <1>1 DEF AccountsIInv
<1>2. AccountsTypes'
  BY DEF AccountsTypes
<1>3. SessionsHaveOwners' /\ ChangesCarryCookies' /\ EndedSessionsStayEnded'
  BY DEF AccountsTypes, SessionsHaveOwners, ChangesCarryCookies, EndedSessionsStayEnded
<1>4. ActiveIsSeen' /\ ChangesComeFromActiveAccounts'
  BY DEF ActiveIsSeen, ChangesComeFromActiveAccounts
<1>5. CountHolds' /\ GuardKeepsAnAdministrator'
  BY DEF CountHolds, RemovingAdmin, Several, Admins, GuardKeepsAnAdministrator
<1> QED
  BY <1>2, <1>3, <1>4, <1>5

LEMMA ArrivePreserves ==
  ASSUME AccountsIInv, NEW c \in Change, Arrive(c) PROVE AccountsIInv'
<1>1. PICK s \in SignIn, q \in UserChanges :
        /\ pc[c] = "idle" /\ pc' = [pc EXCEPT ![c] = "session"]
        /\ signin[s] = "open"
        /\ cookie' = [cookie EXCEPT ![c] = s]
        /\ request' = [request EXCEPT ![c] = q]
        /\ UNCHANGED <<users, sessions, ended, owner, signin, loaded>>
        /\ Observe(users, NULL, TRUE)
  BY DEF Arrive, UserChanges, tables
<1> USE DEF AccountsIInv
<1>2. cookie' \in [Change -> SignIn \union {NULL}] /\ users' \in [User -> UserRows]
  BY <1>1 DEF AccountsTypes
<1>3. Observe(users', NULL, TRUE)
  BY <1>1 DEF Observe
<1>4. /\ stale' \in [Change -> BOOLEAN] /\ uncounted' \in BOOLEAN
      /\ sawActive' \in [Change -> BOOLEAN]
      /\ \A d \in Change :
           /\ sawActive[d] => sawActive'[d]
           /\ cookie'[d] # NULL /\ users'[owner[cookie'[d]]].active => sawActive'[d]
           /\ d # NULL /\ ~stale'[d] => ~stale[d] /\ Admins \subseteq Admins'
      /\ uncounted => uncounted'
  BY <1>2, <1>3, ObservedStep
<1>5. Admins' = Admins
  BY <1>1 DEF Admins
<1>6. AccountsTypes'
  BY <1>1, <1>2, <1>4 DEF AccountsTypes
<1>7. SessionsHaveOwners' /\ ChangesCarryCookies'
  BY <1>1 DEF AccountsTypes, SessionsHaveOwners, ChangesCarryCookies
<1>8. ActiveIsSeen'
  BY <1>1, <1>4, <1>7, NobodyAssumption DEF ActiveIsSeen, ChangesCarryCookies
<1>9. CountHolds'
  <2> SUFFICES ASSUME NEW d \in Change, pc'[d] = "write", ~stale'[d], RemovingAdmin(d)'
               PROVE  Several'
    BY DEF CountHolds
  <2>1. pc[d] = "write" /\ ~stale[d] /\ RemovingAdmin(d)
    BY <1>1, <1>4, NobodyAssumption DEF AccountsTypes, RemovingAdmin
  <2> QED
    BY <1>5, <2>1 DEF CountHolds, Several
<1>10. EndedSessionsStayEnded' /\ GuardKeepsAnAdministrator'
  BY <1>1, <1>4, <1>5 DEF EndedSessionsStayEnded, GuardKeepsAnAdministrator
<1>11. ChangesComeFromActiveAccounts'
  BY <1>1, <1>4 DEF AccountsTypes, ChangesComeFromActiveAccounts
<1> QED
  BY <1>6, <1>7, <1>8, <1>9, <1>10, <1>11

\* The reads a change makes before it counts.
LEMMA ReadsPreserve ==
  ASSUME AccountsIInv, NEW c \in Change, FindSession(c) \/ FindUser(c) \/ Load(c)
  PROVE  AccountsIInv'
<1>1. PICK next \in {"user", "load", "count", "refused"} :
        /\ pc[c] \in {"session", "user", "load"}
        /\ pc' = [pc EXCEPT ![c] = next]
        /\ next = "load" => pc[c] = "user" /\ users[owner[cookie[c]]].active
        /\ next = "count" => pc[c] = "load"
        /\ UNCHANGED <<users, owner, signin, cookie, request, sawActive, stale, uncounted>>
  BY DEF FindSession, FindUser, Load, tables
<1>2. PICK lapsed \in {{}, {cookie[c]}} :
        sessions' = sessions \ lapsed /\ ended' = ended \union lapsed
  <2>1. CASE FindUser(c)
    BY <2>1 DEF FindUser
  <2>2. CASE FindSession(c) \/ Load(c)
    BY <2>2 DEF FindSession, Load, tables
  <2> QED
    BY <2>1, <2>2
<1>3. PICK row \in UserRows \union {NULL} :
        loaded' = [loaded EXCEPT ![c] = row] /\ (next = "count" => row \in UserRows)
  <2>1. CASE Load(c)
    <3>1. users[request[c].target] \in UserRows
      BY <1>1, <2>1 DEF Load, AccountsIInv, AccountsTypes, ChangesCarryCookies, UserChanges
    <3> QED
      BY <2>1, <3>1 DEF Load
  <2>2. CASE FindSession(c) \/ FindUser(c)
    BY <1>1, <2>2 DEF FindSession, FindUser, AccountsIInv, AccountsTypes
  <2> QED
    BY <2>1, <2>2
<1> USE DEF AccountsIInv
<1>4. cookie[c] \in SignIn /\ signin[cookie[c]] = "open"
  BY <1>1 DEF ChangesCarryCookies
<1>5. AccountsTypes'
  BY <1>1, <1>2, <1>3, <1>4 DEF AccountsTypes
<1>6. SessionsHaveOwners' /\ EndedSessionsStayEnded'
  BY <1>1, <1>2, <1>4 DEF SessionsHaveOwners, EndedSessionsStayEnded
<1>7. ChangesCarryCookies'
  BY <1>1, <1>3 DEF AccountsTypes, ChangesCarryCookies
<1>8. ActiveIsSeen' /\ ChangesComeFromActiveAccounts'
  BY <1>1 DEF AccountsTypes, ActiveIsSeen, ChangesComeFromActiveAccounts
<1>9. CountHolds' /\ GuardKeepsAnAdministrator'
  BY <1>1, <1>3 DEF AccountsTypes, CountHolds, RemovingAdmin, Several, Admins,
                    GuardKeepsAnAdministrator
<1> QED
  BY <1>5, <1>6, <1>7, <1>8, <1>9
\* A count that lets the removal of an administrator through has counted two.
LEMMA CountAdminsPreserves ==
  ASSUME AccountsIInv, NEW c \in Change, CountAdmins(c) PROVE AccountsIInv'
<1>1. PICK next \in {"refused", "write"} :
        /\ pc[c] = "count" /\ pc' = [pc EXCEPT ![c] = next]
        /\ next = "write" => ~LastAdmin(c)
        /\ stale' = [stale EXCEPT ![c] = FALSE]
        /\ UNCHANGED <<users, sessions, ended, owner, signin, cookie, request, loaded,
                       sawActive, uncounted>>
  BY DEF CountAdmins, tables
<1>2. next = "write" /\ RemovingAdmin(c) => Several
  <2> SUFFICES ASSUME ~(Cardinality(Admins) <= 1) PROVE Several
    BY <1>1 DEF LastAdmin
  <2>1. IsFiniteSet(Admins) /\ Cardinality(Admins) \in Nat
    BY UserAssumption, FS_Subset, FS_CardinalityType DEF Admins
  <2>2. Admins # {}
    BY FS_EmptySet
  <2>3. PICK a \in Admins : TRUE
    BY <2>2
  <2>4. Admins # {a}
    BY FS_Singleton
  <2> QED
    BY <2>3, <2>4 DEF Several
<1> USE DEF AccountsIInv
<1>3. AccountsTypes'
  BY <1>1 DEF AccountsTypes
<1>4. SessionsHaveOwners' /\ ChangesCarryCookies' /\ EndedSessionsStayEnded'
  BY <1>1 DEF AccountsTypes, SessionsHaveOwners, ChangesCarryCookies, EndedSessionsStayEnded
<1>5. ActiveIsSeen' /\ ChangesComeFromActiveAccounts'
  BY <1>1 DEF AccountsTypes, ActiveIsSeen, ChangesComeFromActiveAccounts
<1>6. Admins' = Admins /\ \A d \in Change : RemovingAdmin(d)' <=> RemovingAdmin(d)
  BY <1>1 DEF Admins, RemovingAdmin
<1>7. CountHolds'
  <2> SUFFICES ASSUME NEW d \in Change, pc'[d] = "write", ~stale'[d], RemovingAdmin(d)
               PROVE  Several
    BY <1>6 DEF CountHolds, Several
  <2>1. CASE d = c
    BY <1>1, <1>2, <2>1 DEF AccountsTypes
  <2>2. CASE d # c
    BY <1>1, <2>2 DEF AccountsTypes, CountHolds
  <2> QED
    BY <2>1, <2>2
<1>8. GuardKeepsAnAdministrator'
  BY <1>1, <1>6 DEF GuardKeepsAnAdministrator
<1> QED
  BY <1>3, <1>4, <1>5, <1>7, <1>8

\* A write takes at most one administrator away.  If that is one of the two it counted,
\* somebody is left; if not, history calls it uncounted.
LEMMA WritePreserves ==
  ASSUME AccountsIInv, NEW c \in Change, Write(c) PROVE AccountsIInv'
<1> DEFINE t == request[c].target
           counts == ~stale[c] /\ RemovingAdmin(c)
<1>1. /\ pc[c] = "write" /\ pc' = [pc EXCEPT ![c] = "done"]
      /\ users' = [users EXCEPT ![t] = Updated(c)]
      /\ UNCHANGED <<owner, signin, cookie, request, loaded>>
      /\ Observe(users', c, counts)
  BY DEF Write
<1>2. t \in User /\ request[c].kind \in Kind /\ loaded[c] \in UserRows
  BY <1>1 DEF AccountsIInv, AccountsTypes, ChangesCarryCookies, UserChanges
<1>3. Updated(c) \in UserRows
  BY <1>2 DEF Updated, UserRows, Role, AccountsIInv, AccountsTypes
<1>4. /\ sessions' \subseteq sessions
      /\ ended' = ended \union (sessions \ sessions')
  <2>1. CASE request[c].kind \in {"deactivate", "password"}
    BY <2>1 DEF Write, Cuts, SessionsOf
  <2>2. CASE request[c].kind \notin {"deactivate", "password"}
    BY <2>2 DEF Write, Cuts
  <2> QED
    BY <2>1, <2>2
<1>5. users' \in [User -> UserRows] /\ cookie' \in [Change -> SignIn \union {NULL}]
  BY <1>1, <1>3 DEF AccountsIInv, AccountsTypes
<1>6. /\ stale' \in [Change -> BOOLEAN] /\ uncounted' \in BOOLEAN
      /\ sawActive' \in [Change -> BOOLEAN]
      /\ \A d \in Change :
           /\ sawActive[d] => sawActive'[d]
           /\ cookie'[d] # NULL /\ users'[owner[cookie'[d]]].active => sawActive'[d]
           /\ d # c /\ ~stale'[d] => ~stale[d] /\ Admins \subseteq Admins'
      /\ uncounted => uncounted'
      /\ ~uncounted' => counts \/ Admins \subseteq Admins'
  <2>1. PICK k \in BOOLEAN : (k <=> counts) /\ Observe(users', c, k)
    BY <1>1 DEF Observe
  <2> QED
    BY <1>5, <2>1, ObservedStep
<1>7. Several => Admins' # {}
  BY <1>1, <1>2, <1>3, OneRowLess
<1> HIDE DEF t
<1> USE DEF AccountsIInv
<1>8. AccountsTypes'
  BY <1>1, <1>4, <1>5, <1>6 DEF AccountsTypes
<1>9. SessionsHaveOwners' /\ ChangesCarryCookies' /\ EndedSessionsStayEnded'
  BY <1>1, <1>4 DEF AccountsTypes, SessionsHaveOwners, ChangesCarryCookies,
                    EndedSessionsStayEnded
<1>10. ActiveIsSeen'
  BY <1>1, <1>6, <1>9, NobodyAssumption DEF ActiveIsSeen, ChangesCarryCookies
<1>11. ChangesComeFromActiveAccounts'
  BY <1>1, <1>6 DEF AccountsTypes, ChangesComeFromActiveAccounts
<1>12. CountHolds'
  <2> SUFFICES ASSUME NEW d \in Change, pc'[d] = "write", ~stale'[d], RemovingAdmin(d)'
               PROVE  Several'
    BY DEF CountHolds
  <2>1. d # c /\ pc[d] = "write" /\ RemovingAdmin(d)
    BY <1>1 DEF AccountsTypes, RemovingAdmin
  <2>2. Several /\ Admins \subseteq Admins'
    BY <1>6, <2>1 DEF CountHolds
  <2> QED
    BY <2>2 DEF Several
<1>13. GuardKeepsAnAdministrator'
  <2> SUFFICES ASSUME ~uncounted' PROVE Admins' # {}
    BY DEF GuardKeepsAnAdministrator
  <2>1. CASE Admins \subseteq Admins'
    BY <1>6, <2>1 DEF GuardKeepsAnAdministrator
  <2>2. CASE counts
    BY <1>1, <1>7, <2>2 DEF CountHolds
  <2> QED
    BY <1>6, <2>1, <2>2
<1> QED
  BY <1>8, <1>9, <1>10, <1>11, <1>12, <1>13

LEMMA AccountsNextIInv == AccountsIInv /\ [AccountsNext]_accounts => AccountsIInv'
<1> SUFFICES ASSUME AccountsIInv, [AccountsNext]_accounts PROVE AccountsIInv'
  OBVIOUS
<1>1. CASE UNCHANGED accounts
  <2> USE <1>1 DEF accounts, AccountsIInv
  <2>1. AccountsTypes' /\ SessionsHaveOwners' /\ ChangesCarryCookies' /\ ActiveIsSeen'
    BY DEF AccountsTypes, SessionsHaveOwners, ChangesCarryCookies, ActiveIsSeen
  <2>2. CountHolds' /\ GuardKeepsAnAdministrator'
    BY DEF CountHolds, Several, Admins, RemovingAdmin, GuardKeepsAnAdministrator
  <2>3. EndedSessionsStayEnded' /\ ChangesComeFromActiveAccounts'
    BY DEF EndedSessionsStayEnded, ChangesComeFromActiveAccounts
  <2> QED
    BY <2>1, <2>2, <2>3
<1>2. ASSUME NEW s \in SignIn, Authenticate(s) PROVE AccountsIInv'
  BY <1>2, AuthenticatePreserves
<1>3. ASSUME NEW s \in SignIn, CreateSession(s) \/ EndSession(s) PROVE AccountsIInv'
  BY <1>3, SessionStepsPreserve
<1>4. ASSUME NEW c \in Change, Arrive(c) PROVE AccountsIInv'
  BY <1>4, ArrivePreserves
<1>5. ASSUME NEW c \in Change, FindSession(c) \/ FindUser(c) \/ Load(c) PROVE AccountsIInv'
  BY <1>5, ReadsPreserve
<1>6. ASSUME NEW c \in Change, CountAdmins(c) PROVE AccountsIInv'
  BY <1>6, CountAdminsPreserves
<1>7. ASSUME NEW c \in Change, Write(c) PROVE AccountsIInv'
  BY <1>7, WritePreserves
<1> QED
  BY <1>1, <1>2, <1>3, <1>4, <1>5, <1>6, <1>7 DEF AccountsNext

-----------------------------------------------------------------------------
\* The inductive invariant holds of every behaviour of the composed system.
THEOREM AccountsInvariantHolds == Spec => []AccountsIInv
<1>1. AccountsIInv /\ [Next]_vars => AccountsIInv'
  <2>1. [Next]_vars => [AccountsNext]_accounts
    BY DEF Next, vars
  <2> QED
    BY <2>1, AccountsNextIInv
<1> QED
  BY <1>1, AccountsInitIInv, PTL DEF Spec

\* No request, however long it is served, brings back a session that was signed out,
\* revoked or cut off with its account.
THEOREM EndedSessionsNeverReturn == Spec => []EndedSessionsStayEnded
<1>1. AccountsIInv => EndedSessionsStayEnded
  BY DEF AccountsIInv
<1> QED
  BY <1>1, AccountsInvariantHolds, PTL

\* A user is changed only by a request whose account was active while it was served.
THEOREM OnlyActiveAccountsChange == Spec => []ChangesComeFromActiveAccounts
<1>1. AccountsIInv => ChangesComeFromActiveAccounts
  BY DEF AccountsIInv
<1> QED
  BY <1>1, AccountsInvariantHolds, PTL

\* With any number of accounts and of changes at once, the last administrator goes only by
\* a removal its guard could not see.
THEOREM AnAdministratorRemains == Spec => []GuardKeepsAnAdministrator
<1>1. AccountsIInv => GuardKeepsAnAdministrator
  BY DEF AccountsIInv
<1> QED
  BY <1>1, AccountsInvariantHolds, PTL
=============================================================================
