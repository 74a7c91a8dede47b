------------------------- MODULE LoginThrottleProofs -------------------------
(***************************************************************************)
(* Proofs about the rate limit in front of the password check, in the       *)
(* system Identity composes: any number of sign-ins, names, accounts, any   *)
(* limit and any window, and no bound on time.                              *)
(*                                                                         *)
(* A request reserves before it counts.  So of the requests that pass a     *)
(* count, the last to count has seen the rows of all the others that still  *)
(* stand; its count is the bound.  Nobody knows who is last, so the         *)
(* invariant bounds the rows of all who passed and of all who are about to. *)
(***************************************************************************)
EXTENDS Identity, FiniteSetTheorems, FunctionTheorems, TLAPS

Reservations == [login : Login, actor : Name, ts : Nat]

ThrottleTypes ==
  /\ now \in Nat
  /\ attempts \subseteq Reservations
  /\ stage \in [Login -> {"idle", "reserve", "count", "check", "password", "release",
                          "release account", "give back", "done"}]
  /\ actor \in [Login -> Name \union {NULL}]
  /\ count \in [Login -> Nat \union {NULL}]
  /\ result \in [Login -> {"refused", "ok", "failed", NULL}]
  /\ counted \subseteq Login
  /\ reserved \in [Login -> Nat \union {NULL}]
  /\ forgiven \in [Login -> SUBSET Login]

\* However many requests there are, only so many have reserved.
Reserved == {l \in Login : reserved[l] # NULL}

SoManySoFar == IsFiniteSet(attempts) /\ IsFiniteSet(Reserved)

\* Each request reserves once, under its name, and before it counts; a row is dated by
\* its reservation.
ReservesOnce ==
  /\ \A l \in Login :
       /\ stage[l] # "idle" => actor[l] \in Name
       /\ stage[l] \in {"idle", "reserve"} => reserved[l] = NULL
       /\ stage[l] \in {"count", "check"} => reserved[l] \in Nat /\ reserved[l] <= now
       /\ stage[l] = "check" => count[l] \in Nat
       /\ l \in counted => stage[l] \notin {"idle", "reserve", "count", "check"}
  /\ \A r \in attempts :
       /\ r.actor = actor[r.login] /\ r.ts = reserved[r.login]
       /\ stage[r.login] \notin {"idle", "reserve"}

\* A sign-in that has succeeded keeps no row, and goes on having succeeded.
SuccessesAreForgiven ==
  /\ \A l \in Login :
       /\ result[l] = "ok" => stage[l] \in {"release account", "done"}
       /\ result[l] = "refused" => stage[l] = "done"
       /\ \A m \in forgiven[l] : result[m] = "ok"
  /\ \A r \in attempts : result[r.login] # "ok"

\* The requests that have passed their count, or will.
Passes(l) == l \in counted \/ (stage[l] = "check" /\ count[l] <= MaxAttempts)
Passing(n) == {r \in Recent(Of(n)) : Passes(r.login)}

PassingIsBounded == \A n \in Name : Cardinality(Passing(n)) <= MaxAttempts

\* The requests l may be refused for.
Others(l) ==
  {m \in Login \ (forgiven[l] \union {l}) :
     actor[m] = actor[l] /\ reserved[m] # NULL /\ reserved[m] + Window >= reserved[l]}

RefusalsAreEarned ==
  \A l \in Login :
    result[l] = "refused" \/ (stage[l] = "check" /\ count[l] > MaxAttempts) =>
      Cardinality(Others(l)) >= MaxAttempts

\* The inductive invariant.
ThrottleIInv ==
  /\ ThrottleTypes
  /\ SoManySoFar
  /\ ReservesOnce
  /\ SuccessesAreForgiven
  /\ PassingIsBounded
  /\ RefusalsAreEarned

-----------------------------------------------------------------------------
LEMMA ThrottleInitIInv == ThrottleInit => ThrottleIInv
<1> SUFFICES ASSUME ThrottleInit PROVE ThrottleIInv
  OBVIOUS
<1> USE DEF ThrottleInit
<1>1. ThrottleTypes
  BY DEF ThrottleTypes
<1>2. SoManySoFar
  <2>1. Reserved = {}
    BY DEF Reserved
  <2> QED
    BY <2>1, FS_EmptySet DEF SoManySoFar
<1>3. ReservesOnce /\ SuccessesAreForgiven /\ RefusalsAreEarned
  BY NullAssumption DEF ReservesOnce, SuccessesAreForgiven, RefusalsAreEarned
<1>4. PassingIsBounded
  <2>1. \A n \in Name : Passing(n) = {}
    BY DEF Passing, Recent, Of
  <2> QED
    BY <2>1, FS_EmptySet, LimitsAssumption DEF PassingIsBounded
<1> QED
  BY <1>1, <1>2, <1>3, <1>4 DEF ThrottleIInv

LEMMA TimeMovesOn ==
  ASSUME ThrottleIInv, now' \in {now, now + 1}
  PROVE  now \in Nat /\ now' \in Nat /\ now <= now'
<1>1. now \in Nat
  BY DEF ThrottleIInv, ThrottleTypes
<1> QED
  BY <1>1

\* What is taken out of the table, or grows old in it, brings no request past its count.
LEMMA FewerPass ==
  ASSUME ThrottleIInv, ThrottleTypes', attempts' \subseteq attempts, now <= now',
         \A r \in attempts' : Passes(r.login)' => Passes(r.login)
  PROVE  PassingIsBounded'
<1> SUFFICES ASSUME NEW n \in Name PROVE Cardinality(Passing(n)') <= MaxAttempts
  BY DEF PassingIsBounded
<1>1. Passing(n)' \subseteq Passing(n)
  <2> SUFFICES ASSUME NEW r \in Passing(n)' PROVE r \in Passing(n)
    OBVIOUS
  <2>1. /\ r \in attempts' /\ r.actor = n /\ r.ts + Window >= now' /\ Passes(r.login)'
    BY DEF Passing, Recent, Of
  <2>2. r \in attempts /\ r.ts \in Nat /\ now \in Nat /\ now' \in Nat /\ Window \in Nat
    BY <2>1, LimitsAssumption DEF ThrottleIInv, ThrottleTypes, Reservations
  <2> QED
    BY <2>1, <2>2 DEF Passing, Recent, Of
<1>2. IsFiniteSet(Passing(n))
  <2>1. Passing(n) \subseteq attempts
    BY DEF Passing, Recent, Of
  <2> QED
    BY <2>1, FS_Subset DEF ThrottleIInv, SoManySoFar
<1>3. /\ Cardinality(Passing(n)') <= Cardinality(Passing(n))
      /\ Cardinality(Passing(n)') \in Nat /\ Cardinality(Passing(n)) \in Nat
  BY <1>1, <1>2, FS_Subset, FS_CardinalityType
<1> QED
  BY <1>3, LimitsAssumption DEF ThrottleIInv, PassingIsBounded

\* Nobody leaves the requests l may be refused for.
LEMMA OthersStay ==
  ASSUME ThrottleIInv, SoManySoFar', NEW l \in Login,
         actor'[l] = actor[l], reserved'[l] = reserved[l], forgiven'[l] = forgiven[l],
         \A m \in Reserved : actor'[m] = actor[m] /\ reserved'[m] = reserved[m],
         Cardinality(Others(l)) >= MaxAttempts
  PROVE  Cardinality(Others(l)') >= MaxAttempts
<1>1. Others(l) \subseteq Others(l)'
  BY DEF Others, Reserved
<1>2. Others(l)' \subseteq Reserved'
  BY DEF Others, Reserved
<1>3. IsFiniteSet(Others(l)')
  BY <1>2, FS_Subset DEF SoManySoFar
<1>4. /\ Cardinality(Others(l)) <= Cardinality(Others(l)')
      /\ Cardinality(Others(l)) \in Nat /\ Cardinality(Others(l)') \in Nat
  BY <1>1, <1>3, FS_Subset, FS_CardinalityType
<1> QED
  BY <1>4, LimitsAssumption
\* Every step but a reservation leaves the table no larger and the reservations as they
\* are.
LEMMA NoNewReservation ==
  ASSUME ThrottleIInv, attempts' \subseteq attempts, UNCHANGED reserved
  PROVE  SoManySoFar'
<1>1. IsFiniteSet(attempts')
  BY FS_Subset DEF ThrottleIInv, SoManySoFar
<1>2. Reserved' = Reserved
  BY DEF Reserved
<1> QED
  BY <1>1, <1>2 DEF ThrottleIInv, SoManySoFar

\* Past its count, or without one, a request goes on, and rows may be released.
LEMMA GoesOn ==
  ASSUME ThrottleIInv, NEW l \in Login,
         stage[l] \in {"reserve", "count", "password", "release", "release account", "give back"},
         NEW next \in {"password", "release", "release account", "give back", "done"},
         stage' = [stage EXCEPT ![l] = next],
         attempts' \subseteq attempts,
         NEW x \in {result[l], "ok", "failed"}, result' = [result EXCEPT ![l] = x],
         result[l] = "ok" => x = "ok",
         x = "ok" => /\ next \in {"release account", "done"}
                     /\ \A r \in attempts' : r.login # l,
         UNCHANGED <<now, actor, count, counted, reserved, forgiven>>
  PROVE  ThrottleIInv'
<1> USE DEF ThrottleIInv
<1>1. ThrottleTypes'
  BY DEF ThrottleTypes
<1>2. SoManySoFar'
  BY NoNewReservation
<1>3. ReservesOnce'
  BY DEF ThrottleTypes, ReservesOnce, Reservations
<1>4. SuccessesAreForgiven'
  BY NullAssumption DEF ThrottleTypes, ReservesOnce, SuccessesAreForgiven, Reservations
<1>5. PassingIsBounded'
  <2>1. \A r \in attempts' : Passes(r.login)' => Passes(r.login)
    BY DEF ThrottleTypes, Passes, Reservations
  <2>2. now <= now'
    BY TimeMovesOn
  <2> QED
    BY <1>1, <2>1, <2>2, FewerPass
<1>6. RefusalsAreEarned'
  <2> SUFFICES ASSUME NEW m \in Login,
                      result'[m] = "refused" \/ (stage'[m] = "check" /\ count'[m] > MaxAttempts)
               PROVE  Cardinality(Others(m)') >= MaxAttempts
    BY DEF RefusalsAreEarned
  <2>1. result[m] = "refused" \/ (stage[m] = "check" /\ count[m] > MaxAttempts)
    BY NullAssumption DEF ThrottleTypes, SuccessesAreForgiven
  <2> QED
    BY <1>2, <2>1, OthersStay DEF RefusalsAreEarned
<1> QED
  BY <1>1, <1>2, <1>3, <1>4, <1>5, <1>6

LEMMA GoesOnSteps ==
  ASSUME ThrottleIInv, NEW l \in Login,
         \/ CannotLook(l) \/ PasswordWrong(l) \/ PasswordRight(l) \/ ProviderFailed(l)
         \/ ReleaseName(l) \/ ReleaseAccount(l) \/ GiveBack(l) \/ ReleaseFails(l)
  PROVE  ThrottleIInv'
<1>1. result = [result EXCEPT ![l] = result[l]]
  BY DEF ThrottleIInv, ThrottleTypes
<1>2. result[l] = "ok" => stage[l] \in {"release account", "done"}
  BY DEF ThrottleIInv, SuccessesAreForgiven
<1>3. result[l] = "ok" => \A r \in attempts : r.login # l
  BY DEF ThrottleIInv, SuccessesAreForgiven
<1>4. \A r \in attempts \ Of(actor[l]) : r.login # l
  BY DEF ThrottleIInv, ReservesOnce, Of
<1>5. CASE CannotLook(l)
  BY <1>1, <1>2, <1>5, GoesOn DEF CannotLook
<1>6. CASE PasswordWrong(l)
  BY <1>1, <1>2, <1>6, GoesOn DEF PasswordWrong
<1>7. CASE PasswordRight(l)
  BY <1>1, <1>2, <1>7, GoesOn DEF PasswordRight
<1>8. CASE ProviderFailed(l)
  BY <1>1, <1>2, <1>8, GoesOn DEF ProviderFailed
<1>9. CASE ReleaseName(l)
  BY <1>2, <1>4, <1>9, GoesOn DEF ReleaseName, Clear
<1>10. CASE ReleaseAccount(l)
  BY <1>1, <1>2, <1>3, <1>10, GoesOn DEF ReleaseAccount, Clear
<1>11. CASE GiveBack(l)
  BY <1>2, <1>11, GoesOn DEF GiveBack, Clear
<1>12. CASE ReleaseFails(l)
  <2>1. CASE stage[l] = "release"
    BY <1>2, <1>12, <2>1, GoesOn DEF ReleaseFails
  <2>2. CASE stage[l] = "release account"
    BY <1>1, <1>2, <1>3, <1>12, <2>2, GoesOn DEF ReleaseFails
  <2>3. CASE stage[l] = "give back"
    BY <1>2, <1>12, <2>3, GoesOn DEF ReleaseFails
  <2> QED
    BY <1>12, <2>1, <2>2, <2>3 DEF ReleaseFails
<1> QED
  BY <1>5, <1>6, <1>7, <1>8, <1>9, <1>10, <1>11, <1>12
LEMMA SubmitLoginPreserves ==
  ASSUME ThrottleIInv, NEW l \in Login, SubmitLogin(l) PROVE ThrottleIInv'
<1>1. PICK n \in Name, next \in {"password", "reserve"} :
        /\ actor' = [actor EXCEPT ![l] = n] /\ stage' = [stage EXCEPT ![l] = next]
        /\ stage[l] = "idle"
        /\ UNCHANGED <<now, attempts, count, result, counted, reserved, forgiven>>
  BY DEF SubmitLogin
<1> USE <1>1 DEF ThrottleIInv
<1>2. ThrottleTypes'
  BY DEF ThrottleTypes
<1>3. SoManySoFar'
  BY NoNewReservation
<1>4. ReservesOnce'
  BY DEF ThrottleTypes, ReservesOnce, Reservations
<1>5. SuccessesAreForgiven'
  BY DEF ThrottleTypes, SuccessesAreForgiven
<1>6. PassingIsBounded'
  <2>1. \A r \in attempts' : Passes(r.login)' => Passes(r.login)
    <3> SUFFICES ASSUME NEW r \in attempts, Passes(r.login)' PROVE Passes(r.login)
      OBVIOUS
    <3>1. r.login \in Login
      BY DEF ThrottleTypes, Reservations
    <3> QED
      BY <3>1 DEF ThrottleTypes, Passes
  <2>2. now <= now'
    BY TimeMovesOn
  <2> QED
    BY <1>2, <2>1, <2>2, FewerPass
<1>7. RefusalsAreEarned'
  <2> SUFFICES ASSUME NEW m \in Login,
                      result'[m] = "refused" \/ (stage'[m] = "check" /\ count'[m] > MaxAttempts)
               PROVE  Cardinality(Others(m)') >= MaxAttempts
    BY DEF RefusalsAreEarned
  <2>1. result[m] = "refused" \/ (stage[m] = "check" /\ count[m] > MaxAttempts)
    BY DEF ThrottleTypes
  <2>2. m # l /\ l \notin Reserved
    BY <2>1 DEF ThrottleTypes, ReservesOnce, SuccessesAreForgiven, Reserved
  <2>3. actor'[m] = actor[m] /\ \A k \in Reserved : actor'[k] = actor[k]
    BY <2>2 DEF ThrottleTypes, Reserved
  <2> QED
    BY <1>3, <2>1, <2>3, OthersStay DEF RefusalsAreEarned
<1> QED
  BY <1>2, <1>3, <1>4, <1>5, <1>6, <1>7

\* A reservation adds a row, and to the requests others may be refused for.
LEMMA ReservePreserves ==
  ASSUME ThrottleIInv, NEW l \in Login, Reserve(l) PROVE ThrottleIInv'
<1> DEFINE row == [login |-> l, actor |-> actor[l], ts |-> now]
           before == {m \in Login : result[m] = "ok"}
<1>1. /\ stage[l] = "reserve" /\ stage' = [stage EXCEPT ![l] = "count"]
      /\ attempts' = attempts \union {row}
      /\ reserved' = [reserved EXCEPT ![l] = now]
      /\ forgiven' = [forgiven EXCEPT ![l] = before]
      /\ UNCHANGED <<now, actor, count, result, counted>>
  BY DEF Reserve
<1>2. row \in Reservations /\ row.login = l /\ row.actor = actor[l] /\ row.ts = now
  BY <1>1 DEF ThrottleIInv, ThrottleTypes, ReservesOnce, Reservations
<1> HIDE DEF row
<1> USE DEF ThrottleIInv
<1>3. ThrottleTypes'
  BY <1>1, <1>2 DEF ThrottleTypes
<1>4. SoManySoFar'
  <2>1. Reserved' = Reserved \union {l}
    BY <1>1, NullAssumption DEF ThrottleTypes, Reserved
  <2> QED
    BY <1>1, <2>1, FS_AddElement DEF SoManySoFar
<1>5. ReservesOnce'
  <2>1. now \in Nat /\ now <= now
    BY <1>1, TimeMovesOn
  <2>2. \A r \in attempts : r.login \in Login /\ r.login # l
    BY <1>1 DEF ThrottleTypes, ReservesOnce, Reservations
  <2>3. stage'[l] = "count" /\ actor'[l] \in Name /\ reserved'[l] = now /\ l \notin counted
    BY <1>1 DEF ThrottleTypes, ReservesOnce
  <2>4. \A m \in Login : m # l => stage'[m] = stage[m] /\ reserved'[m] = reserved[m]
    BY <1>1 DEF ThrottleTypes
  <2> QED
    BY <1>1, <1>2, <2>1, <2>2, <2>3, <2>4 DEF ReservesOnce
<1>6. SuccessesAreForgiven'
  BY <1>1, <1>2 DEF ThrottleTypes, SuccessesAreForgiven, Reservations
<1>7. PassingIsBounded'
  <2> SUFFICES ASSUME NEW n \in Name PROVE Cardinality(Passing(n)') <= MaxAttempts
    BY DEF PassingIsBounded
  <2>1. ~Passes(l)'
    BY <1>1 DEF ThrottleTypes, ReservesOnce, Passes
  <2>2. \A r \in attempts : Passes(r.login)' => Passes(r.login)
    BY <1>1 DEF ThrottleTypes, Passes, Reservations
  <2>3. \A r \in attempts' : Passes(r.login)' => r \in attempts /\ Passes(r.login)
    BY <1>1, <1>2, <2>1, <2>2
  <2>4. Passing(n)' \subseteq Passing(n)
    BY <1>1, <2>3 DEF Passing, Recent, Of
  <2>5. IsFiniteSet(Passing(n))
    <3>1. Passing(n) \subseteq attempts
      BY DEF Passing, Recent, Of
    <3> QED
      BY <3>1, FS_Subset DEF SoManySoFar
  <2>6. /\ Cardinality(Passing(n)') <= Cardinality(Passing(n))
        /\ Cardinality(Passing(n)') \in Nat /\ Cardinality(Passing(n)) \in Nat
    BY <2>4, <2>5, FS_Subset, FS_CardinalityType
  <2> QED
    BY <2>6, LimitsAssumption DEF PassingIsBounded
<1>8. RefusalsAreEarned'
  <2> SUFFICES ASSUME NEW m \in Login,
                      result'[m] = "refused" \/ (stage'[m] = "check" /\ count'[m] > MaxAttempts)
               PROVE  Cardinality(Others(m)') >= MaxAttempts
    BY DEF RefusalsAreEarned
  <2>1. m # l /\ (result[m] = "refused" \/ (stage[m] = "check" /\ count[m] > MaxAttempts))
    BY <1>1 DEF ThrottleTypes, SuccessesAreForgiven
  <2>2. /\ actor'[m] = actor[m] /\ reserved'[m] = reserved[m] /\ forgiven'[m] = forgiven[m]
        /\ \A k \in Reserved : actor'[k] = actor[k] /\ reserved'[k] = reserved[k]
    BY <1>1, <2>1 DEF ThrottleTypes, ReservesOnce, Reserved
  <2> QED
    BY <1>4, <2>1, <2>2, OthersStay DEF RefusalsAreEarned
<1> QED
  BY <1>3, <1>4, <1>5, <1>6, <1>7, <1>8

LEMMA TickPreserves == ASSUME ThrottleIInv, Tick PROVE ThrottleIInv'
<1>1. /\ now' = now + 1
      /\ UNCHANGED <<attempts, stage, actor, count, result, counted, reserved, forgiven>>
  BY DEF Tick
<1> USE <1>1 DEF ThrottleIInv
<1>2. now \in Nat /\ now' \in Nat /\ now <= now'
  BY TimeMovesOn
<1>3. SoManySoFar' /\ ThrottleTypes'
  BY <1>2, NoNewReservation DEF ThrottleTypes
<1>4. ReservesOnce' /\ SuccessesAreForgiven'
  <2>1. \A l \in Login : reserved[l] \in Nat /\ reserved[l] <= now => reserved[l] <= now'
    BY <1>2
  <2> QED
    BY <2>1 DEF ReservesOnce, SuccessesAreForgiven
<1>5. PassingIsBounded'
  <2>1. \A r \in attempts' : Passes(r.login)' => Passes(r.login)
    BY DEF Passes
  <2> QED
    BY <1>2, <1>3, <2>1, FewerPass
<1>6. RefusalsAreEarned'
  BY <1>3, OthersStay DEF RefusalsAreEarned
<1> QED
  BY <1>2, <1>3, <1>4, <1>5, <1>6
LEMMA OneMore ==
  ASSUME NEW S, IsFiniteSet(S), NEW x, NEW T \in SUBSET (S \union {x})
  PROVE  Cardinality(T) <= Cardinality(S) + 1
<1>1. IsFiniteSet(S \union {x}) /\ Cardinality(S) \in Nat
  BY FS_AddElement, FS_CardinalityType
<1>2. Cardinality(S \union {x}) \in {Cardinality(S), Cardinality(S) + 1}
  BY FS_AddElement
<1>3. IsFiniteSet(T) /\ Cardinality(T) <= Cardinality(S \union {x})
  BY <1>1, FS_Subset
<1>4. Cardinality(T) \in Nat
  BY <1>3, FS_CardinalityType
<1> QED
  BY <1>1, <1>2, <1>3, <1>4

\* The rows in the window a request counts: its own if it still stands, and one for each
\* of the requests it may be refused for.
LEMMA CountedAreOthers ==
  ASSUME ThrottleIInv, NEW l \in Login, stage[l] = "count"
  PROVE  /\ IsFiniteSet(Recent(Of(actor[l]))) /\ Count(l) \in Nat
         /\ Count(l) > MaxAttempts => Cardinality(Others(l)) >= MaxAttempts
<1> DEFINE rows == Recent(Of(actor[l]))
           theirs == {r \in rows : r.login # l}
           own == [login |-> l, actor |-> actor[l], ts |-> reserved[l]]
<1>1. rows \subseteq attempts /\ IsFiniteSet(attempts)
  BY DEF ThrottleIInv, SoManySoFar, Recent, Of
<1>2. IsFiniteSet(rows) /\ Cardinality(rows) \in Nat
  BY <1>1, FS_Subset, FS_CardinalityType
<1>3. \A r \in rows : r = [login |-> r.login, actor |-> actor[r.login], ts |-> reserved[r.login]]
  <2>1. \A r \in attempts : r = [login |-> r.login, actor |-> r.actor, ts |-> r.ts]
    <3>1. \A r \in Reservations : r = [login |-> r.login, actor |-> r.actor, ts |-> r.ts]
      BY DEF Reservations
    <3> QED
      BY <3>1 DEF ThrottleIInv, ThrottleTypes
  <2>2. \A r \in attempts : r.actor = actor[r.login] /\ r.ts = reserved[r.login]
    BY DEF ThrottleIInv, ReservesOnce
  <2> QED
    BY <1>1, <2>1, <2>2
<1>4. \A r \in rows : r.login = l => r = own
  BY <1>3
<1>5. rows \subseteq theirs \union {own}
  BY <1>4
<1>6. IsFiniteSet(theirs) /\ Cardinality(theirs) \in Nat
  BY <1>2, FS_Subset, FS_CardinalityType
<1>7. Cardinality(rows) <= Cardinality(theirs) + 1
  <2>1. rows \in SUBSET (theirs \union {own})
    BY <1>5
  <2> HIDE DEF rows, theirs, own
  <2> QED
    BY <1>6, <2>1, OneMore
<1>8. \A r \in theirs : r.login \in Others(l)
  <2> SUFFICES ASSUME NEW r \in theirs PROVE r.login \in Others(l)
    OBVIOUS
  <2>1. /\ r \in attempts /\ r.login # l /\ r.actor = actor[l] /\ r.ts + Window >= now
        /\ r.login \in Login /\ r.ts \in Nat
    BY <1>1 DEF ThrottleIInv, ThrottleTypes, Reservations, Recent, Of
  <2>2. actor[r.login] = actor[l] /\ reserved[r.login] = r.ts
    BY <2>1 DEF ThrottleIInv, ReservesOnce
  <2>3. r.login \notin forgiven[l]
    BY <2>1 DEF ThrottleIInv, SuccessesAreForgiven
  <2>4. reserved[l] \in Nat /\ reserved[l] <= now /\ now \in Nat
    BY DEF ThrottleIInv, ThrottleTypes, ReservesOnce
  <2>5. reserved[r.login] # NULL /\ reserved[r.login] + Window >= reserved[l]
    BY <2>1, <2>2, <2>4, NullAssumption, LimitsAssumption
  <2> QED
    BY <2>1, <2>2, <2>3, <2>5 DEF Others
<1>9. IsFiniteSet(Others(l)) /\ Cardinality(Others(l)) \in Nat
  <2>1. Others(l) \subseteq Reserved
    BY DEF Others, Reserved
  <2> QED
    BY <2>1, FS_Subset, FS_CardinalityType DEF ThrottleIInv, SoManySoFar
<1>10. Cardinality(theirs) <= Cardinality(Others(l))
  <2> DEFINE f == [r \in theirs |-> r.login]
  <2>1. f \in [theirs -> Others(l)]
    BY <1>8
  <2>2. ASSUME NEW r \in theirs, NEW s \in theirs, f[r] = f[s] PROVE r = s
    BY <1>3, <2>2
  <2>3. f \in Injection(theirs, Others(l))
    BY <2>1, <2>2, Fun_IsInj
  <2> QED
    BY <1>9, <2>3, FS_Injection
<1>11. Count(l) > MaxAttempts => Cardinality(Others(l)) >= MaxAttempts
  BY <1>2, <1>6, <1>7, <1>9, <1>10, LimitsAssumption DEF Count
<1> QED
  BY <1>2, <1>11 DEF Count

LEMMA CountPreserves ==
  ASSUME ThrottleIInv, NEW l \in Login, CountAttempts(l) PROVE ThrottleIInv'
<1>1. /\ stage[l] = "count" /\ stage' = [stage EXCEPT ![l] = "check"]
      /\ count' = [count EXCEPT ![l] = Count(l)]
      /\ UNCHANGED <<now, attempts, actor, result, counted, reserved, forgiven>>
  BY DEF CountAttempts
<1>2. Count(l) \in Nat /\ (Count(l) > MaxAttempts => Cardinality(Others(l)) >= MaxAttempts)
  BY <1>1, CountedAreOthers
<1> USE DEF ThrottleIInv
<1>3. ThrottleTypes'
  BY <1>1, <1>2 DEF ThrottleTypes
<1>4. SoManySoFar'
  BY <1>1, NoNewReservation
<1>5. count'[l] = Count(l) /\ stage'[l] = "check"
  BY <1>1 DEF ThrottleTypes
<1>6. \A m \in Login : m # l => stage'[m] = stage[m] /\ count'[m] = count[m]
  BY <1>1 DEF ThrottleTypes
<1>7. ReservesOnce' /\ SuccessesAreForgiven'
  <2>1. \A r \in attempts : r.login \in Login
    BY DEF ThrottleTypes, Reservations
  <2>2. ReservesOnce'
    BY <1>1, <1>2, <1>5, <1>6, <2>1 DEF ReservesOnce
  <2>3. SuccessesAreForgiven'
    BY <1>1, <1>5, <1>6 DEF SuccessesAreForgiven
  <2> QED
    BY <2>2, <2>3
<1>8. PassingIsBounded'
  <2> SUFFICES ASSUME NEW n \in Name PROVE Cardinality(Passing(n)') <= MaxAttempts
    BY DEF PassingIsBounded
  <2>1. \A r \in attempts : r.login \in Login /\ (r.login = l => r.actor = actor[l])
    BY DEF ThrottleTypes, Reservations, ReservesOnce
  <2>2. \A m \in Login : m # l /\ Passes(m)' => Passes(m)
    BY <1>1, <1>6 DEF Passes
  <2>3. Recent(Of(n))' = Recent(Of(n))
    BY <1>1 DEF Recent, Of
  <2>4. CASE n = actor[l] /\ Count(l) <= MaxAttempts
    <3>1. Passing(n)' \subseteq Recent(Of(n))
      BY <2>3 DEF Passing
    <3>2. IsFiniteSet(Recent(Of(n))) /\ Cardinality(Recent(Of(n))) = Count(l)
      BY <1>1, <2>4, CountedAreOthers DEF Count
    <3>3. Cardinality(Passing(n)') <= Count(l) /\ Cardinality(Passing(n)') \in Nat
      BY <3>1, <3>2, FS_Subset, FS_CardinalityType
    <3> QED
      BY <1>2, <2>4, <3>3, LimitsAssumption
  <2>5. CASE n # actor[l] \/ Count(l) > MaxAttempts
    <3>1. n # actor[l] \/ ~Passes(l)'
      BY <1>1, <1>2, <1>5, <2>5, LimitsAssumption DEF Passes, ReservesOnce
    <3>2. \A r \in Recent(Of(n)) : Passes(r.login)' => Passes(r.login)
      BY <2>1, <2>2, <3>1 DEF Recent, Of
    <3>3. Passing(n)' \subseteq Passing(n)
      BY <2>3, <3>2 DEF Passing
    <3>4. IsFiniteSet(Passing(n))
      <4>1. Passing(n) \subseteq attempts
        BY DEF Passing, Recent, Of
      <4> QED
        BY <4>1, FS_Subset DEF SoManySoFar
    <3>5. /\ Cardinality(Passing(n)') <= Cardinality(Passing(n))
          /\ Cardinality(Passing(n)') \in Nat /\ Cardinality(Passing(n)) \in Nat
      BY <3>3, <3>4, FS_Subset, FS_CardinalityType
    <3> QED
      BY <3>5, LimitsAssumption DEF PassingIsBounded
  <2> QED
    BY <1>2, <2>4, <2>5, LimitsAssumption
<1>9. RefusalsAreEarned'
  <2> SUFFICES ASSUME NEW m \in Login,
                      result'[m] = "refused" \/ (stage'[m] = "check" /\ count'[m] > MaxAttempts)
               PROVE  Cardinality(Others(m)') >= MaxAttempts
    BY DEF RefusalsAreEarned
  <2>1. Cardinality(Others(m)) >= MaxAttempts
    <3>1. CASE m = l
      <4>1. result[l] # "refused"
        BY <1>1 DEF SuccessesAreForgiven
      <4> QED
        BY <1>1, <1>2, <1>5, <3>1, <4>1
    <3>2. CASE m # l
      BY <1>1, <1>6, <3>2 DEF RefusalsAreEarned
    <3> QED
      BY <3>1, <3>2
  <2> QED
    BY <1>1, <1>4, <2>1, OthersStay
<1> QED
  BY <1>3, <1>4, <1>7, <1>8, <1>9

\* The comparison acts on what was counted, and may prune the rows no count sees.
LEMMA CheckPreserves ==
  ASSUME ThrottleIInv, NEW l \in Login, CheckPassed(l) \/ CheckRefused(l)
  PROVE  ThrottleIInv'
<1>1. PICK next \in {"password", "done"}, x \in {result[l], "refused"} :
        /\ stage[l] = "check" /\ stage' = [stage EXCEPT ![l] = next]
        /\ count' = [count EXCEPT ![l] = NULL]
        /\ result' = [result EXCEPT ![l] = x]
        /\ \/ count[l] <= MaxAttempts /\ counted' = counted \union {l} /\ x = result[l]
           \/ count[l] > MaxAttempts /\ counted' = counted /\ x = "refused" /\ next = "done"
        /\ UNCHANGED <<now, actor, reserved, forgiven>>
  <2>1. result = [result EXCEPT ![l] = result[l]]
    BY DEF ThrottleIInv, ThrottleTypes
  <2> QED
    BY <2>1 DEF CheckPassed, CheckRefused
<1>2. attempts' \subseteq attempts
  BY DEF CheckPassed, CheckRefused, Prune, Recent
<1> USE DEF ThrottleIInv
<1>3. ThrottleTypes'
  BY <1>1, <1>2 DEF ThrottleTypes
<1>4. SoManySoFar'
  BY <1>1, <1>2, NoNewReservation
<1>5. \A m \in Login : m # l => /\ stage'[m] = stage[m] /\ count'[m] = count[m]
                                /\ result'[m] = result[m]
  BY <1>1 DEF ThrottleTypes
<1>6. stage'[l] = next /\ count'[l] = NULL /\ result'[l] = x
  BY <1>1 DEF ThrottleTypes
<1>7. \A r \in attempts' : r \in attempts /\ r.login \in Login
  BY <1>2 DEF ThrottleTypes, Reservations
<1>8. ReservesOnce'
  BY <1>1, <1>5, <1>6, <1>7 DEF ReservesOnce
<1>9. result[l] \notin {"ok", "refused"}
  BY <1>1 DEF SuccessesAreForgiven
<1>10. SuccessesAreForgiven'
  <2>1. \A m \in Login : result'[m] = "ok" <=> result[m] = "ok"
    BY <1>1, <1>5, <1>6, <1>9
  <2>2. \A m \in Login : result'[m] = "ok" => stage'[m] \in {"release account", "done"}
    BY <1>5, <1>9, <2>1 DEF SuccessesAreForgiven
  <2>3. \A m \in Login : result'[m] = "refused" => stage'[m] = "done"
    BY <1>1, <1>5, <1>6, <1>9 DEF SuccessesAreForgiven
  <2>4. \A m \in Login : forgiven'[m] \subseteq Login /\ \A k \in forgiven'[m] : result[k] = "ok"
    BY <1>1 DEF SuccessesAreForgiven, ThrottleTypes
  <2>5. \A r \in attempts' : result'[r.login] # "ok"
    BY <1>7, <2>1 DEF SuccessesAreForgiven
  <2> QED
    BY <2>1, <2>2, <2>3, <2>4, <2>5 DEF SuccessesAreForgiven
<1>11. PassingIsBounded'
  <2>1. \A m \in Login : Passes(m)' => Passes(m)
    BY <1>1, <1>5, <1>6 DEF Passes
  <2>2. now <= now'
    BY <1>1, TimeMovesOn
  <2> QED
    BY <1>2, <1>3, <1>7, <2>1, <2>2, FewerPass
<1>12. RefusalsAreEarned'
  <2> SUFFICES ASSUME NEW m \in Login,
                      result'[m] = "refused" \/ (stage'[m] = "check" /\ count'[m] > MaxAttempts)
               PROVE  Cardinality(Others(m)') >= MaxAttempts
    BY DEF RefusalsAreEarned
  <2>1. result[m] = "refused" \/ (stage[m] = "check" /\ count[m] > MaxAttempts)
    BY <1>1, <1>5, <1>6, <1>9
  <2> QED
    BY <1>1, <1>4, <2>1, OthersStay DEF RefusalsAreEarned
<1> QED
  BY <1>3, <1>4, <1>8, <1>10, <1>11, <1>12

LEMMA ThrottleNextIInv == ThrottleIInv /\ [ThrottleNext]_throttle => ThrottleIInv'
<1> SUFFICES ASSUME ThrottleIInv, [ThrottleNext]_throttle PROVE ThrottleIInv'
  OBVIOUS
<1>1. CASE UNCHANGED throttle
  <2> USE <1>1 DEF throttle, ThrottleIInv
  <2>1. ThrottleTypes' /\ ReservesOnce' /\ SuccessesAreForgiven'
    BY DEF ThrottleTypes, ReservesOnce, SuccessesAreForgiven
  <2>2. SoManySoFar' /\ RefusalsAreEarned'
    BY DEF SoManySoFar, Reserved, RefusalsAreEarned, Others
  <2>3. PassingIsBounded'
    BY DEF PassingIsBounded, Passing, Passes, Recent, Of
  <2> QED
    BY <2>1, <2>2, <2>3
<1>2. ASSUME NEW l \in Login, SubmitLogin(l) PROVE ThrottleIInv'
  BY <1>2, SubmitLoginPreserves
<1>3. ASSUME NEW l \in Login, Reserve(l) PROVE ThrottleIInv'
  BY <1>3, ReservePreserves
<1>4. ASSUME NEW l \in Login, CountAttempts(l) PROVE ThrottleIInv'
  BY <1>4, CountPreserves
<1>5. ASSUME NEW l \in Login, CheckPassed(l) \/ CheckRefused(l) PROVE ThrottleIInv'
  BY <1>5, CheckPreserves
<1>6. ASSUME NEW l \in Login,
             \/ CannotLook(l) \/ PasswordWrong(l) \/ PasswordRight(l) \/ ProviderFailed(l)
             \/ ReleaseName(l) \/ ReleaseAccount(l) \/ GiveBack(l) \/ ReleaseFails(l)
      PROVE  ThrottleIInv'
  BY <1>6, GoesOnSteps
<1>7. CASE Tick
  BY <1>7, TickPreserves
<1> QED
  BY <1>1, <1>2, <1>3, <1>4, <1>5, <1>6, <1>7 DEF ThrottleNext

-----------------------------------------------------------------------------
\* The inductive invariant holds of every behaviour of the composed system.
THEOREM ThrottleInvariantHolds == Spec => []ThrottleIInv
<1>1. Init => ThrottleIInv
  BY ThrottleInitIInv DEF Init
<1>2. ThrottleIInv /\ [Next]_vars => ThrottleIInv'
  <2>1. [Next]_vars => [ThrottleNext]_throttle
    BY DEF Next, vars
  <2> QED
    BY <2>1, ThrottleNextIInv
<1> QED
  BY <1>1, <1>2, PTL DEF Spec

\* However many sign-ins are served at once, of the attempts on one name whose
\* reservations stand within one window no more than MaxAttempts get to the password.
THEOREM BurstsAreBounded == Spec => []BurstIsBounded
<1>1. ThrottleIInv => BurstIsBounded
  <2> SUFFICES ASSUME ThrottleIInv, NEW n \in Name
               PROVE  Cardinality({r \in Recent(Of(n)) : r.login \in counted}) <= MaxAttempts
    BY DEF BurstIsBounded
  <2> DEFINE passed == {r \in Recent(Of(n)) : r.login \in counted}
  <2>1. passed \subseteq Passing(n) /\ Passing(n) \subseteq attempts
    BY DEF Passing, Passes, Recent, Of
  <2>2. IsFiniteSet(Passing(n))
    BY <2>1, FS_Subset DEF ThrottleIInv, SoManySoFar
  <2>3. /\ Cardinality(passed) <= Cardinality(Passing(n))
        /\ Cardinality(passed) \in Nat /\ Cardinality(Passing(n)) \in Nat
    BY <2>1, <2>2, FS_Subset, FS_CardinalityType
  <2> QED
    BY <2>3, LimitsAssumption DEF ThrottleIInv, PassingIsBounded
<1> QED
  BY <1>1, ThrottleInvariantHolds, PTL

\* A sign-in is refused only for MaxAttempts others on the same name, no more than a window
\* before it, none of which had succeeded by then.
THEOREM RefusalsAreAlwaysEarned == Spec => []RefusalIsEarned
<1>1. ThrottleIInv => RefusalIsEarned
  BY DEF ThrottleIInv, RefusalsAreEarned, Others, RefusalIsEarned
<1> QED
  BY <1>1, ThrottleInvariantHolds, PTL
=============================================================================
