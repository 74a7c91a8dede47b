---------------------------- MODULE SingleSignOn -----------------------------
(***************************************************************************)
(* Sign-in through an identity provider: /{provider}/start, the provider,  *)
(* /{provider}/callback (api/auth.py), over identity/handshake.py, the     *)
(* four provider modules and service.provision_federated_user, while an    *)
(* administrator edits the provider (identity_providers.py) and others     *)
(* sign in under the same username.                                        *)
(*                                                                         *)
(* One deployment uses one kind of provider here.  A discovery document is *)
(* fetched in two steps, as the configuration that names its issuer is     *)
(* read before the fetch and the cache is written after it.  Signatures,   *)
(* lifetimes and group lists are left open: an assertion or a group list   *)
(* may always be refused.  The role a sign-in leaves is Accounts', and the *)
(* audit rows of its failures are left out.                                *)
(***************************************************************************)
EXTENDS Naturals, FiniteSets, Null

CONSTANTS
  Visit,          \* the sign-ins
  Browser,
  Itineraries,    \* bound: the browsers the sign-ins are made in
  Subject,        \* the persons one username may stand for
  Environment,    \* the configuration of the environment
  DiscoveryTTL,   \* _DISCOVERY_TTL_SECONDS, in ticks
  HandshakeTTL,   \* TTL_SECONDS of the sealed cookie
  MaxEvents       \* bound: ticks, changes of the configuration, failures of the database

Provider == {"oidc", "oauth", "openshift", "saml"}

ASSUME TTLAssumption == DiscoveryTTL \in Nat /\ HandshakeTTL \in Nat /\ MaxEvents \in Nat
ASSUME ItinerariesAssumption == Itineraries \subseteq [Visit -> Browser]
ASSUME SubjectAssumption ==
  /\ Subject # {}
  /\ NULL \notin [source : Provider \union {"local"}, subject : Subject \union {NULL},
                 active : BOOLEAN]

VARIABLES
  kind, via,      \* the provider's kind, and the browser of each sign-in
  clock,
  stored, down,   \* the identity_providers row, and whether the database is away
  events,
  left,           \* history: when an issuer was last configured
  discovered,     \* _discovery_cache, and when its fetch began and ended
  jar,            \* each browser's handshake cookie
  visit,          \* the sign-ins
  account         \* the users row of the username

sso == <<kind, via, clock, stored, down, events, left, discovered, jar, visit, account>>

settings == <<clock, stored, down, events, left>>

Issuers == {"old", "new", Environment.issuer}
Row(issuer, client) == [enabled |-> TRUE, issuer |-> issuer, client |-> client]
Person(source, subject, active) ==
  [source |-> source, subject |-> subject, active |-> active]

\* A sign-in: the discovery document it is fetching, the issuer and client it was sent
\* to, what the provider sent back, whose handshake the callback presented, the verified
\* identity, and the account as provision_federated_user read it.
Sign(step) ==
  [step |-> step, fetch |-> NULL, asked |-> NULL, code |-> NULL, pending |-> NULL,
   who |-> NULL, found |-> NULL]

\* The username may be free, or stand for an account of this provider, one that
\* predates the binding to a subject, one switched off, or one of another source.
SsoInit ==
  /\ kind \in Provider /\ via \in Itineraries
  /\ stored = Row("old", "x")
  /\ account \in {NULL, Person("local", NULL, TRUE), Person(kind, NULL, FALSE),
                  Person(kind, NULL, TRUE), Person(kind, CHOOSE s \in Subject : TRUE, TRUE)}
  /\ clock = 0 /\ events = 0 /\ down = FALSE
  /\ left = [i \in Issuers |-> NULL]
  /\ discovered = NULL
  /\ jar = [b \in Browser |-> NULL]
  /\ visit = [v \in Visit |-> Sign("new")]

-----------------------------------------------------------------------------
\* resolve: the row, else the environment, which also answers for a database that does
\* not.
Configured == IF stored = NULL THEN Environment ELSE stored
Resolved == IF down THEN Environment ELSE Configured

\* Fault: a document is kept until the process ends.
KeptForever == discovered # NULL

CacheStands == discovered # NULL /\ clock - discovered.at < DiscoveryTTL

\* discovery finds no document that stands, and asks the issuer configured now for one.
\* Its caller has read the client it will use.
FetchBegins(v) ==
  /\ visit[v].fetch = NULL /\ ~CacheStands
  /\ \/ visit[v].step = "new" /\ kind \in {"oidc", "openshift"} /\ Resolved.enabled
     \/ visit[v].step = "ours" /\ kind \in {"oidc", "openshift"}
     \/ visit[v].step = "redeemed" /\ kind = "oidc"
  /\ visit' = [visit EXCEPT ![v].fetch =
       [issuer |-> Resolved.issuer, client |-> Resolved.client, asked |-> clock]]
  /\ UNCHANGED <<kind, via, settings, discovered, jar, account>>

\* The document a sign-in has fetched, stamped when it is there, else the cached one.
Document(v) ==
  LET fetch == visit[v].fetch
  IN IF fetch = NULL THEN discovered
     ELSE [issuer |-> fetch.issuer, asked |-> fetch.asked, at |-> clock]

\* discovery: what has been fetched is cached, whatever was cached meanwhile.
Discover(v) ==
  /\ visit[v].fetch # NULL \/ CacheStands
  /\ discovered' = Document(v)

\* What the configuration says without a document.
Setting == [issuer |-> Resolved.issuer, asked |-> clock, at |-> clock]

\* The client of the request: of the configuration as it was read, before the document.
Client(v) == IF visit[v].fetch = NULL THEN Resolved.client ELSE visit[v].fetch.client

\* Where a request of this provider goes: oauth and saml have no discovery.
Endpoint(v) == IF kind \in {"oidc", "openshift"} THEN Document(v) ELSE Setting
FindEndpoint(v) ==
  IF kind \in {"oidc", "openshift"} THEN Discover(v) ELSE UNCHANGED discovered

\* begin: the request the provider is sent to with.
Request(v) == [issuer |-> Endpoint(v).issuer, client |-> Client(v)]

\* seal
Sealed(v) == [visit |-> v, at |-> clock]

\* _clear: every answer to a callback deletes the browser's cookie.
Refused(v) ==
  /\ visit' = [visit EXCEPT ![v] = Sign("refused")]
  /\ jar' = [jar EXCEPT ![via[v]] = NULL]

\* sso_start: a new handshake replaces the one this browser had.
Start(v) ==
  /\ visit[v].step = "new"
  /\ visit[v].fetch # NULL \/ Resolved.enabled
  /\ FindEndpoint(v)
  /\ visit' = [visit EXCEPT ![v].step = "away", ![v].fetch = NULL, ![v].asked = Request(v)]
  /\ jar' = [jar EXCEPT ![via[v]] = Sealed(v)]
  /\ UNCHANGED <<kind, via, settings, account>>

\* begin cannot read the provider's endpoints.
StartFails(v) ==
  /\ visit[v].step = "new" /\ visit[v].fetch # NULL
  /\ visit' = [visit EXCEPT ![v] = Sign("refused")]
  /\ UNCHANGED <<kind, via, settings, discovered, jar, account>>

\* unseal
Unsealed(v) ==
  LET cookie == jar[via[v]]
  IN IF cookie = NULL \/ clock - cookie.at > HandshakeTTL THEN NULL ELSE cookie.visit

\* state: compared here, except for an assertion, which names the request it answers.
OurHandshake(v) == Unsealed(v) # NULL /\ (kind = "saml" \/ Unsealed(v) = v)

\* The authorization code or the assertion a provider answers its own request with.
Answered(v, subject) ==
  [issuer |-> visit[v].asked.issuer, client |-> visit[v].asked.client, subject |-> subject]

\* _complete_sso, up to the provider's part.  The provider sent the browser back with a
\* code or an assertion for the client that asked, or with a refusal.
Callback(v) ==
  /\ visit[v].step = "away"
  /\ \E s \in Subject \union {NULL} :
       IF Resolved.enabled /\ OurHandshake(v) /\ s # NULL
       THEN /\ visit' = [visit EXCEPT ![v].step = "ours", ![v].pending = Unsealed(v),
                                      ![v].code = Answered(v, s)]
            /\ UNCHANGED jar
       ELSE Refused(v)
  /\ UNCHANGED <<kind, via, settings, discovered, account>>

\* The token endpoint knows its own codes, and whom they are for.
Redeems(v) == visit[v].code.issuer = Endpoint(v).issuer /\ visit[v].code.client = Client(v)

\* exchange_code
Exchange(v) ==
  /\ visit[v].step = "ours" /\ kind # "saml"
  /\ FindEndpoint(v)
  /\ IF Redeems(v)
     THEN visit' = [visit EXCEPT ![v].step = "redeemed", ![v].fetch = NULL] /\ UNCHANGED jar
     ELSE Refused(v)
  /\ UNCHANGED <<kind, via, settings, account>>

\* The issuers configured now, and those that were configured at some time since.
Current == {Environment.issuer, Configured.issuer}
Since(time) == Current \union {i \in Issuers : left[i] # NULL /\ left[i] >= time}

\* verify_id_token: issuer and keys are those of the discovery document.
VerifiedToken(v, issuer) ==
  visit[v].code.issuer = issuer /\ visit[v].code.client = Client(v)

\* validate_assertion: signed by the configured provider, in answer to our request.
ValidAssertion(v, issuer) == visit[v].code.issuer = issuer /\ visit[v].pending = v

\* fetch_userinfo, fetch_user: the configured server knows the tokens it issued.
KnownToken(v, issuer) == visit[v].code.issuer = issuer

Vouches(v, issuer) ==
  \/ kind = "oidc" /\ VerifiedToken(v, issuer)
  \/ kind = "saml" /\ ValidAssertion(v, issuer)
  \/ kind \in {"oauth", "openshift"} /\ KnownToken(v, issuer)

\* Where the keys come from: fetch_userinfo, fetch_user and verified_assertion go by
\* the configuration.
Keys(v) == IF kind = "oidc" THEN Document(v) ELSE Setting
FindKeys(v) == IF kind = "oidc" THEN Discover(v) ELSE UNCHANGED discovered

\* FederatedIdentity.  Beside it: the issuers configured when it was verified and those
\* configured since the document gone by was asked for, and how old that document was.
Identified(v) ==
  [issuer |-> Keys(v).issuer, subject |-> visit[v].code.subject,
   current |-> Current, since |-> Since(Keys(v).asked), age |-> clock - Keys(v).at]

\* Fault: the username alone names the account.
SameName(subject) == account.source = kind /\ account.active

\* provision_federated_user, whose account it is: of this source, active, and of this
\* subject or of none yet.
May(subject) ==
  account.source = kind /\ account.active /\ account.subject \in {NULL, subject}

\* complete, and the account as provision_federated_user finds it.
Identify(v) ==
  /\ visit[v].step = IF kind = "saml" THEN "ours" ELSE "redeemed"
  /\ FindKeys(v)
  /\ IF /\ Vouches(v, Keys(v).issuer) /\ ~down
        /\ account # NULL => May(visit[v].code.subject)
     THEN /\ visit' = [visit EXCEPT
               ![v].step = "found", ![v].fetch = NULL, ![v].code = NULL, ![v].found = account,
               ![v].who = Identified(v)]
          /\ UNCHANGED jar
     ELSE Refused(v)
  /\ UNCHANGED <<kind, via, settings, account>>

\* The provider does not answer.
ProviderSilent(v) ==
  /\ visit[v].step \in {"ours", "redeemed"} /\ kind # "saml"
  /\ Refused(v)
  /\ UNCHANGED <<kind, via, settings, discovered, account>>

\* An assertion that is not well formed, not signed, or outside its times.
AssertionRefused(v) ==
  /\ visit[v].step = "ours" /\ kind = "saml"
  /\ Refused(v)
  /\ UNCHANGED <<kind, via, settings, discovered, account>>

\* check_group_allowlist, over the groups the provider names.
GroupsRefused(v) ==
  /\ visit[v].step = IF kind = "saml" THEN "ours" ELSE "redeemed"
  /\ Refused(v)
  /\ UNCHANGED <<kind, via, settings, discovered, account>>

\* Its commit: an INSERT under a unique username, whose refusal is a server error and
\* leaves the cookie, or an UPDATE of what differs from the row as it was read.
Provision(v) ==
  LET subject == visit[v].who.subject
      found == visit[v].found
  IN /\ visit[v].step = "found" /\ ~down
     /\ IF found = NULL /\ account # NULL
        THEN visit' = [visit EXCEPT ![v] = Sign("refused")] /\ UNCHANGED account
        ELSE /\ account' = IF found = NULL THEN Person(kind, subject, TRUE)
                           ELSE IF found.subject = NULL
                           THEN [account EXCEPT !.subject = subject] ELSE account
             /\ visit' = [visit EXCEPT ![v].step = "provisioned"]
     /\ UNCHANGED <<kind, via, settings, discovered, jar>>

\* create_session, and the answer.
OpenSession(v) ==
  /\ visit[v].step = "provisioned" /\ ~down
  /\ visit' = [visit EXCEPT ![v].step = "open"]
  /\ jar' = [jar EXCEPT ![via[v]] = NULL]
  /\ UNCHANGED <<kind, via, settings, discovered, account>>

\* Past the provider's part a database that does not answer is a server error; what the
\* sign-in had bound stays bound.
SsoBreaks(v) ==
  /\ visit[v].step \in {"found", "provisioned"} /\ down
  /\ visit' = [visit EXCEPT ![v] =
       IF visit[v].step = "found" THEN Sign("refused") ELSE [@ EXCEPT !.step = "refused"]]
  /\ UNCHANGED <<kind, via, settings, discovered, jar, account>>

SsoVisit(v) ==
  \/ FetchBegins(v) \/ Start(v) \/ StartFails(v) \/ Callback(v) \/ Exchange(v) \/ Identify(v)
  \/ ProviderSilent(v) \/ AssertionRefused(v) \/ GroupsRefused(v)
  \/ Provision(v) \/ OpenSession(v) \/ SsoBreaks(v)

-----------------------------------------------------------------------------
\* What a change of the stored configuration leaves in the history.
Reconfigure(row) ==
  /\ ~down /\ events < MaxEvents /\ events' = events + 1
  /\ stored' = row
  /\ left' = [left EXCEPT ![Configured.issuer] = clock]
  /\ UNCHANGED <<kind, via, clock, down, discovered, jar, visit, account>>

\* validate: the submitted fields over the stored ones, all of them where no row is; and
\* the switch.
Acceptable ==
  {Row("new", "x"), Row("new", "y")}
    \union {[row EXCEPT !.client = "y"] : row \in {stored} \ {NULL}}
    \union {[row EXCEPT !.enabled = FALSE] : row \in {stored} \ {NULL}}

SaveProvider == \E row \in Acceptable : Reconfigure(row)

\* delete_provider
DeleteProvider == stored # NULL /\ Reconfigure(NULL)

\* The database goes away and comes back.
DatabaseFlips ==
  /\ down \/ events < MaxEvents
  /\ events' = IF down THEN events ELSE events + 1
  /\ down' = ~down
  /\ UNCHANGED <<kind, via, clock, stored, left, discovered, jar, visit, account>>

ClockTicks ==
  /\ events < MaxEvents /\ events' = events + 1
  /\ clock' = clock + 1
  /\ UNCHANGED <<kind, via, stored, down, left, discovered, jar, visit, account>>

SsoNext ==
  \/ \E v \in Visit : SsoVisit(v)
  \/ SaveProvider \/ DeleteProvider \/ DatabaseFlips \/ ClockTicks

-----------------------------------------------------------------------------
Opened == {v \in DOMAIN visit : visit[v].step = "open"}

\* A session is opened only on the word of the provider its visitor was sent to, in
\* answer to the request this same browser made, and that provider is configured when
\* its word is verified.  OpenID Connect goes by a discovery document instead, and may
\* honour an issuer that was replaced: one configured when its document was asked for,
\* or later, and the document is kept for less than its lifetime.  The fetch comes on
\* top: a save that falls into it leaves the issuer it replaces cached for a whole one.
SessionIsVouchedFor ==
  \A v \in Opened :
    LET who == visit[v].who
    IN /\ visit[v].pending = v /\ visit[v].asked.issuer = who.issuer
       /\ IF kind = "oidc"
          THEN who.issuer \in who.since /\ (who.age = 0 \/ who.age < DiscoveryTTL)
          ELSE who.issuer \in who.current

\* The sign-ins that found the account without a subject, and gave it theirs.
Binders ==
  {v \in DOMAIN visit :
     /\ visit[v].step \in {"provisioned", "open", "refused"}
     /\ visit[v].found # NULL /\ visit[v].found.subject = NULL}

\* An account is one person's: whoever holds a session of it is the subject it is bound
\* to, however sign-ins under a recycled username and the account's first creation
\* interleave.  Only an account that predates the binding may be found without a subject
\* by several: it changes hands with each of them, and the last to write keeps it.
AccountHasOnePerson ==
  \A v \in Opened :
    \/ visit[v].who.subject = account.subject
    \/ \E w \in Binders : visit[w].who.subject = account.subject

\* oidc.py: a decommissioned provider does not "keep minting valid logins".
ReplacedIssuerSignsNobodyIn ==
  \A v \in Opened : visit[v].who.issuer \in visit[v].who.current
=============================================================================
