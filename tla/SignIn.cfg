SPECIFICATION Spec
CONSTANTS
  NULL = NULL
  Parts = {"throttle", "accounts", "sso"}
  Login = {l1, l2, l3}
  Name = {"user", "alias"}
  Account <- MCAccount
  MaxAttempts = 1
  Window = 1
  MaxTime = 2
  User = {u1, u2}
  Federated = {u2}
  SignIn = {s1, s2}
  Change = {c1, c2}
  Visit = {v1, v2}
  shared = shared
  Browser = {v1, v2, shared}
  Itineraries <- MCItineraries
  Subject = {p1, p2}
  Environment <- MCEnvironment
  DiscoveryTTL = 1
  HandshakeTTL = 1
  MaxEvents = 2
SYMMETRY RequestSymmetry
INVARIANTS
  BurstIsBounded
  RefusalIsEarned
  EndedSessionsStayEnded
  ChangesComeFromActiveAccounts
  GuardKeepsAnAdministrator
  SessionIsVouchedFor
  AccountHasOnePerson
\* The requests may all have ended.
CHECK_DEADLOCK FALSE
