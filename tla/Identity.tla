------------------------------ MODULE Identity -------------------------------
(***************************************************************************)
(* Who gets into the console: the rate limit in front of the password       *)
(* check, the accounts and sessions behind it, and the sign-in through an    *)
(* identity provider.  A run takes one of them at a time.                    *)
(***************************************************************************)
EXTENDS LoginThrottle, Accounts, SingleSignOn

CONSTANT Parts

VARIABLE part

vars == <<part, throttle, accounts, sso>>

\* The accounts of a run that is about something else.
AccountsAtRest ==
  /\ users = [u \in User |-> [role |-> "admin", active |-> TRUE]]
  /\ NobodySignedIn

NoSso ==
  /\ kind = NULL /\ via = NULL /\ clock = 0 /\ stored = NULL /\ down = FALSE
  /\ events = 0 /\ left = NULL /\ discovered = NULL /\ jar = NULL /\ visit = <<>>
  /\ account = NULL

Init ==
  /\ part \in Parts
  /\ ThrottleInit
  /\ IF part = "accounts" THEN AccountsInit ELSE AccountsAtRest
  /\ IF part = "sso" THEN SsoInit ELSE NoSso

Next ==
  /\ part' = part
  /\ \/ part = "throttle" /\ ThrottleNext /\ UNCHANGED <<accounts, sso>>
     \/ part = "accounts" /\ AccountsNext /\ UNCHANGED <<throttle, sso>>
     \/ part = "sso" /\ SsoNext /\ UNCHANGED <<throttle, accounts>>

Spec == Init /\ [][Next]_vars
=============================================================================
