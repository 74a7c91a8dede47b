--------------------------- MODULE LoginThrottle ----------------------------
(***************************************************************************)
(* POST /api/auth/login and its rate limit: api/auth.py (login) and        *)
(* identity/throttle.py (check, reserve, release), served concurrently by  *)
(* any number of threads and replicas over one login_attempts table.       *)
(*                                                                         *)
(* Every step is one committed statement; whatever other requests commit   *)
(* between two of them is seen by the second.  Whether a password is right *)
(* is left open, and so is whether the identity provider answers.  Time is *)
(* a counter that moves while requests are in flight.                      *)
(***************************************************************************)
EXTENDS Naturals, FiniteSets, Null

CONSTANTS
  Login,        \* the sign-in requests
  Name,         \* the usernames submitted
  Account,      \* the account a successful sign-in under a name turns out to be
  MaxAttempts,  \* AUTH_THROTTLE_MAX_ATTEMPTS
  Window,       \* AUTH_THROTTLE_WINDOW_SECONDS, in ticks
  MaxTime       \* bound: the last tick

ASSUME AccountAssumption == Account \in [Name -> Name]
ASSUME LimitsAssumption == MaxAttempts \in Nat /\ Window \in Nat /\ MaxTime \in Nat
ASSUME NullAssumption == NULL \notin Nat \union {"refused", "ok", "failed"}

VARIABLES
  now,
  attempts,   \* the login_attempts table
  stage,         \* where each request is
  actor,      \* the submitted username
  count,      \* what reserve() returned, until it is compared
  result,     \* "refused", "ok" with its reservations released, or "failed"
  counted,    \* history: the requests that passed a count on their way to the password
  reserved,   \* history: when each request reserved
  forgiven    \* history: the sign-ins that had succeeded by then

throttle == <<now, attempts, stage, actor, count, result, counted, reserved, forgiven>>

Of(name) == {r \in attempts : r.actor = name}
Recent(rs) == {r \in rs : r.ts + Window >= now}

ThrottleInit ==
  /\ now = 0
  /\ attempts = {}
  /\ stage = [l \in Login |-> "idle"]
  /\ actor = [l \in Login |-> NULL]
  /\ count = [l \in Login |-> NULL]
  /\ result = [l \in Login |-> NULL]
  /\ counted = {}
  /\ reserved = [l \in Login |-> NULL]
  /\ forgiven = [l \in Login |-> {}]

SubmitLogin(l) ==
  /\ stage[l] = "idle"
  /\ \E n \in Name : actor' = [actor EXCEPT ![l] = n]
  /\ stage' = [stage EXCEPT ![l] = IF MaxAttempts = 0 THEN "password" ELSE "reserve"]
  /\ UNCHANGED <<now, attempts, count, result, counted, reserved, forgiven>>

\* reserve(): the row first ...
Reserve(l) ==
  /\ stage[l] = "reserve"
  /\ attempts' = attempts \union {[login |-> l, actor |-> actor[l], ts |-> now]}
  /\ reserved' = [reserved EXCEPT ![l] = now]
  /\ forgiven' = [forgiven EXCEPT ![l] = {m \in Login : result[m] = "ok"}]
  /\ stage' = [stage EXCEPT ![l] = "count"]
  /\ UNCHANGED <<now, actor, count, result, counted>>

\* Fault: only attempts that have ended are counted, as rows of the audit trail
\* would be.
CountEnded(l) ==
  Cardinality({r \in Recent(Of(actor[l])) : r.login = l \/ stage[r.login] = "done"})

\* ... then how many there are, its own included.
Count(l) == Cardinality(Recent(Of(actor[l])))

CountAttempts(l) ==
  /\ stage[l] = "count"
  /\ count' = [count EXCEPT ![l] = Count(l)]
  /\ stage' = [stage EXCEPT ![l] = "check"]
  /\ UNCHANGED <<now, attempts, actor, result, counted, reserved, forgiven>>

\* The INSERT, or the COUNT after it, fails: the sign-in goes on unthrottled.
CannotLook(l) ==
  /\ stage[l] \in {"reserve", "count"}
  /\ stage' = [stage EXCEPT ![l] = "password"]
  /\ UNCHANGED <<now, attempts, actor, count, result, counted, reserved, forgiven>>

\* One reservation in four also prunes the rows that have left every window.
Prune == attempts' = attempts \/ attempts' = Recent(attempts)

CheckPassed(l) ==
  /\ stage[l] = "check"
  /\ count[l] <= MaxAttempts
  /\ Prune
  /\ counted' = counted \union {l}
  /\ count' = [count EXCEPT ![l] = NULL]
  /\ stage' = [stage EXCEPT ![l] = "password"]
  /\ UNCHANGED <<now, actor, result, reserved, forgiven>>

CheckRefused(l) ==
  /\ stage[l] = "check"
  /\ count[l] > MaxAttempts
  /\ Prune
  /\ result' = [result EXCEPT ![l] = "refused"]
  /\ count' = [count EXCEPT ![l] = NULL]
  /\ stage' = [stage EXCEPT ![l] = "done"]
  /\ UNCHANGED <<now, actor, counted, reserved, forgiven>>

PasswordWrong(l) ==
  /\ stage[l] = "password"
  /\ result' = [result EXCEPT ![l] = "failed"]
  /\ stage' = [stage EXCEPT ![l] = "done"]
  /\ UNCHANGED <<now, attempts, actor, count, counted, reserved, forgiven>>

\* authenticate() returned the account, or raised: the provider did not answer.
PasswordRight(l) ==
  /\ stage[l] = "password"
  /\ stage' = [stage EXCEPT ![l] = "release"]
  /\ UNCHANGED <<now, attempts, actor, count, result, counted, reserved, forgiven>>

ProviderFailed(l) ==
  /\ stage[l] = "password"
  /\ stage' = [stage EXCEPT ![l] = "give back"]
  /\ UNCHANGED <<now, attempts, actor, count, result, counted, reserved, forgiven>>

\* release(): every reservation of the name goes.  Best effort.
Clear(name) == attempts' = attempts \ Of(name)

\* Fault: a success leaves its own reservation standing.
ReleaseNothing(l) ==
  /\ stage[l] = "release"
  /\ result' = [result EXCEPT ![l] = "ok"]
  /\ stage' = [stage EXCEPT ![l] = "release account"]
  /\ UNCHANGED <<now, attempts, actor, count, counted, reserved, forgiven>>

ReleaseName(l) ==
  /\ stage[l] = "release"
  /\ Clear(actor[l])
  /\ result' = [result EXCEPT ![l] = "ok"]
  /\ stage' = [stage EXCEPT ![l] = "release account"]
  /\ UNCHANGED <<now, actor, count, counted, reserved, forgiven>>

ReleaseAccount(l) ==
  /\ stage[l] = "release account"
  /\ Clear(Account[actor[l]])
  /\ stage' = [stage EXCEPT ![l] = "done"]
  /\ UNCHANGED <<now, actor, count, result, counted, reserved, forgiven>>

GiveBack(l) ==
  /\ stage[l] = "give back"
  /\ Clear(actor[l])
  /\ result' = [result EXCEPT ![l] = "failed"]
  /\ stage' = [stage EXCEPT ![l] = "done"]
  /\ UNCHANGED <<now, actor, count, counted, reserved, forgiven>>

\* A DELETE that fails is logged and the request goes on.  A success whose first
\* one failed is not a success that anything was forgiven for.
ReleaseFails(l) ==
  /\ stage[l] \in {"release", "release account", "give back"}
  /\ stage' = [stage EXCEPT ![l] = IF stage[l] = "release" THEN "release account" ELSE "done"]
  /\ result' = [result EXCEPT ![l] =
       IF stage[l] = "release account" THEN @ ELSE "failed"]
  /\ UNCHANGED <<now, attempts, actor, count, counted, reserved, forgiven>>

Tick ==
  /\ now < MaxTime
  /\ now' = now + 1
  /\ UNCHANGED <<attempts, stage, actor, count, result, counted, reserved, forgiven>>

ThrottleNext ==
  \/ \E l \in Login :
       \/ SubmitLogin(l) \/ Reserve(l) \/ CountAttempts(l) \/ CannotLook(l)
       \/ CheckPassed(l) \/ CheckRefused(l)
       \/ PasswordWrong(l) \/ PasswordRight(l) \/ ProviderFailed(l)
       \/ ReleaseName(l) \/ ReleaseAccount(l) \/ GiveBack(l) \/ ReleaseFails(l)
  \/ Tick

-----------------------------------------------------------------------------
\* The table holds at most one row per request, dated when it was reserved.
ThrottleTypeOK ==
  /\ now \in 0..MaxTime
  /\ \A r \in attempts : r.actor = actor[r.login] /\ r.ts = reserved[r.login]
  /\ stage \in [Login -> {"idle", "reserve", "count", "check", "password", "release",
                       "release account", "give back", "done"}]
  /\ \A l \in Login : count[l] \in 0..Cardinality(Login) \union {NULL}
  /\ \A l \in Login :
       /\ result[l] \in {"refused", "ok", "failed", NULL}
       /\ result[l] = "refused" => stage[l] = "done"

\* However simultaneous a burst, within one window no more than MaxAttempts of the
\* attempts on an account whose reservations stand get as far as the password.
BurstIsBounded ==
  \A n \in Name :
    Cardinality({r \in Recent(Of(n)) : r.login \in counted}) <= MaxAttempts

\* A sign-in is refused only because of MaxAttempts others on that very account,
\* made no more than a window before it, and none of which is a sign-in that had
\* already succeeded: a working account never locks itself out.
RefusalIsEarned ==
  \A l \in Login :
    result[l] = "refused" =>
      Cardinality({m \in Login \ (forgiven[l] \union {l}) :
                     /\ actor[m] = actor[l]
                     /\ reserved[m] # NULL
                     /\ reserved[m] + Window >= reserved[l]}) >= MaxAttempts
=============================================================================
