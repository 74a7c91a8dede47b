------------------------- MODULE SingleSignOnProofs --------------------------
(***************************************************************************)
(* Proofs about the sign-in through an identity provider, in the system     *)
(* Identity composes: any number of sign-ins, browsers and persons, any     *)
(* lifetimes, and no bound on what happens around them.                     *)
(*                                                                         *)
(* Two arguments.  A session is vouched for because an issuer's word is     *)
(* taken only while the issuer is configured, or while the discovery        *)
(* document that names it stands; a document was asked for from an issuer   *)
(* configured then, and FetchesAreRecent and CacheIsRecent keep that, while *)
(* it is fetched and while it is cached, through any save.  An account has one person because a subject, once found, is      *)
(* compared; what is not compared is a subject that was absent when read,   *)
(* and Binders are those.                                                   *)
(***************************************************************************)
EXTENDS Identity, TLAPS

Clients == {"x", "y", Environment.client}
SettingRows == [enabled : BOOLEAN, issuer : {"old", "new"}, client : {"x", "y"}]
Documents == [issuer : Issuers, asked : Nat, at : Nat]
Fetches == [issuer : Issuers, client : Clients, asked : Nat]
Cookies == [visit : Visit, at : Nat]
Persons ==
  [source : Provider \union {"local"}, subject : Subject \union {NULL}, active : BOOLEAN]

Asked == [issuer : Issuers, client : Clients]
Codes == [issuer : Issuers, client : Clients, subject : Subject]
Identities ==
  [issuer : Issuers, subject : Subject, current : SUBSET Issuers, since : SUBSET Issuers,
   age : Nat]

SignIns ==
  [step : {"new", "away", "ours", "redeemed", "found", "provisioned", "open", "refused"},
   fetch : Fetches \union {NULL},
   asked : Asked \union {NULL},
   code : Codes \union {NULL},
   pending : Visit \union {NULL},
   who : Identities \union {NULL},
   found : Persons \union {NULL}]

SsoTypes ==
  /\ kind \in Provider /\ via \in [Visit -> Browser]
  /\ clock \in Nat
  /\ stored \in SettingRows \union {NULL}
  /\ down \in BOOLEAN
  /\ left \in [Issuers -> Nat \union {NULL}]
  /\ \A i \in Issuers : left[i] # NULL => left[i] <= clock
  /\ discovered \in Documents \union {NULL}
  /\ jar \in [Browser -> Cookies \union {NULL}]
  /\ visit \in [Visit -> SignIns]
  /\ account \in Persons \union {NULL}

\* The issuer of the cached document is configured, or was when the document was asked for
\* or later.
CacheIsRecent ==
  discovered # NULL =>
    /\ discovered.asked <= clock /\ discovered.at <= clock
    /\ discovered.issuer \in Since(discovered.asked)

\* And so is the issuer of a document that is still being fetched.
FetchIsRecent(x) ==
  x.fetch # NULL => x.fetch.asked <= clock /\ x.fetch.issuer \in Since(x.fetch.asked)

FetchesAreRecent == \A v \in Visit : FetchIsRecent(visit[v])

\* What the sign-in v has been told is told of its own request, by the issuer it was sent
\* to.
Vouched(v, x) ==
  /\ x.step \in {"away", "ours", "redeemed", "found", "provisioned", "open"} => x.asked \in Asked
  /\ x.step \in {"ours", "redeemed"} =>
       /\ x.code \in Codes /\ x.code.issuer = x.asked.issuer
       /\ kind # "saml" => x.pending = v
  /\ x.step \in {"found", "provisioned", "open"} =>
       /\ x.who \in Identities /\ x.pending = v /\ x.asked.issuer = x.who.issuer
       /\ IF kind = "oidc"
          THEN x.who.issuer \in x.who.since /\ (x.who.age = 0 \/ x.who.age < DiscoveryTTL)
          ELSE x.who.issuer \in x.who.current

VisitsAreVouched == \A v \in Visit : Vouched(v, visit[v])

\* The account changed hands: it now has the subject of a sign-in that found it without.
Rebound == \E w \in Binders : visit[w].who.subject = account.subject

\* The account is the person's who signs in, as it was found or as it has been bound.
OnePerson(x) ==
  /\ x.step \in {"found", "provisioned", "open"} /\ x.found # NULL =>
       x.found.subject \in {NULL, x.who.subject}
  /\ x.step = "found" /\ x.found # NULL =>
       /\ account # NULL
       /\ x.found.subject # NULL => account.subject = x.found.subject \/ Rebound
  /\ x.step \in {"provisioned", "open"} =>
       account # NULL /\ (x.who.subject = account.subject \/ Rebound)

AccountIsBound == \A v \in Visit : OnePerson(visit[v])

\* The inductive invariant of a run in which the sign-ins take part.
SsoIInv ==
  /\ SsoTypes
  /\ CacheIsRecent
  /\ FetchesAreRecent
  /\ VisitsAreVouched
  /\ AccountIsBound

-----------------------------------------------------------------------------
LEMMA IssuersOfTheMoment ==
  ASSUME SsoTypes
  PROVE  /\ Resolved.issuer \in Current /\ Resolved.client \in Clients
         /\ Current \subseteq Issuers
         /\ \A time : Since(time) \subseteq Issuers /\ Current \subseteq Since(time)
  BY DEF SsoTypes, SettingRows, Resolved, Configured, Current, Since, Issuers, Clients

LEMMA FreshSignIn ==
  ASSUME NEW step \in {"new", "refused"}, NEW v
  PROVE  /\ Sign(step) \in SignIns /\ Sign(step).step = step /\ Sign(step).found = NULL
         /\ Vouched(v, Sign(step)) /\ FetchIsRecent(Sign(step))
<1>1. Sign(step) \in SignIns
  BY DEF Sign, SignIns
<1> QED
  BY <1>1 DEF Sign, Vouched, FetchIsRecent

LEMMA SsoInitIInv == SsoInit => SsoIInv
<1> SUFFICES ASSUME SsoInit PROVE SsoIInv
  OBVIOUS
<1>1. via \in [Visit -> Browser] /\ stored \in SettingRows
  BY ItinerariesAssumption DEF SsoInit, Row, SettingRows
<1>2. account \in Persons \union {NULL}
  <2>1. (CHOOSE s \in Subject : TRUE) \in Subject
    BY SubjectAssumption
  <2>2. \A source \in Provider \union {"local"}, subject \in Subject \union {NULL}, active \in BOOLEAN :
          Person(source, subject, active) \in Persons
    BY DEF Person, Persons
  <2>3. kind \in Provider
    BY DEF SsoInit
  <2> HIDE DEF Persons
  <2> QED
    BY <2>1, <2>2, <2>3 DEF SsoInit
<1>3. visit = [v \in Visit |-> Sign("new")] /\ Sign("new") \in SignIns /\ Sign("new").step = "new"
  BY FreshSignIn DEF SsoInit
<1>4. SsoTypes
  BY <1>1, <1>2, <1>3 DEF SsoInit, SsoTypes
<1>5. CacheIsRecent /\ FetchesAreRecent
  BY <1>3, FreshSignIn DEF SsoInit, CacheIsRecent, FetchesAreRecent
<1>6. VisitsAreVouched
  BY <1>3, FreshSignIn DEF VisitsAreVouched
<1>7. AccountIsBound
  BY <1>3 DEF AccountIsBound, OnePerson
<1> QED
  BY <1>4, <1>5, <1>6, <1>7 DEF SsoIInv

\* Discovery ends with the document that stands, or with the one fetched; either way its
\* issuer was configured when it was asked for.
LEMMA DiscoverStep ==
  ASSUME SsoIInv, NEW v \in Visit, Discover(v), UNCHANGED settings
  PROVE  /\ Document(v) \in Documents
         /\ Document(v).issuer \in Since(Document(v).asked)
         /\ clock - Document(v).at \in Nat
         /\ clock - Document(v).at = 0 \/ clock - Document(v).at < DiscoveryTTL
         /\ discovered' \in Documents \union {NULL}
         /\ CacheIsRecent'
<1> DEFINE d == Document(v)
<1> USE DEF SsoIInv
<1>1. clock' = clock /\ \A time : Since(time)' = Since(time)
  BY DEF settings, Since, Current, Configured
<1>2. clock \in Nat
  BY DEF SsoTypes
<1>3. /\ d \in Documents /\ d.asked <= clock /\ d.at <= clock
      /\ d.issuer \in Since(d.asked)
      /\ clock - d.at = 0 \/ clock - d.at < DiscoveryTTL
  <2>1. CASE visit[v].fetch = NULL
    <3>1. d = discovered /\ CacheStands /\ discovered # NULL
      BY <2>1 DEF Discover, Document, CacheStands
    <3> QED
      BY <3>1 DEF SsoTypes, CacheIsRecent, CacheStands
  <2>2. CASE visit[v].fetch # NULL
    <3>1. visit[v].fetch \in Fetches /\ FetchIsRecent(visit[v])
      BY <2>2 DEF SsoTypes, SignIns, FetchesAreRecent
    <3>2. d = [issuer |-> visit[v].fetch.issuer, asked |-> visit[v].fetch.asked, at |-> clock]
      BY <2>2 DEF Document
    <3> QED
      BY <1>2, <2>2, <3>1, <3>2 DEF Fetches, Documents, FetchIsRecent
  <2> QED
    BY <2>1, <2>2
<1>4. discovered' = d
  BY DEF Discover
<1>5. clock - d.at \in Nat
  BY <1>2, <1>3 DEF Documents
<1> HIDE DEF d
<1>6. CacheIsRecent'
  BY <1>1, <1>3, <1>4 DEF CacheIsRecent
<1> QED
  BY <1>3, <1>4, <1>5, <1>6 DEF d

LEMMA ClientIsKnown ==
  ASSUME SsoIInv, NEW v \in Visit PROVE Client(v) \in Clients
  BY IssuersOfTheMoment DEF SsoIInv, SsoTypes, SignIns, Fetches, Client

\* Where the configuration is asked at each request it is Current.
LEMMA SettingIsCurrent ==
  ASSUME SsoIInv, UNCHANGED <<settings, discovered>>
  PROVE  /\ Setting \in Documents /\ Setting.issuer \in Current
         /\ clock - Setting.at = 0
         /\ discovered' \in Documents \union {NULL}
         /\ CacheIsRecent'
<1>1. clock \in Nat /\ Resolved.issuer \in Current /\ Current \subseteq Issuers
  BY IssuersOfTheMoment DEF SsoIInv, SsoTypes
<1> QED
  BY <1>1 DEF SsoIInv, SsoTypes, Documents, Setting, CacheIsRecent, settings, Since, Current,
              Configured

LEMMA EndpointStep ==
  ASSUME SsoIInv, NEW v \in Visit, FindEndpoint(v), UNCHANGED settings
  PROVE  /\ Request(v) \in Asked
         /\ discovered' \in Documents \union {NULL}
         /\ CacheIsRecent'
<1>1. CASE kind \in {"oidc", "openshift"}
  BY <1>1, ClientIsKnown, DiscoverStep DEF FindEndpoint, Endpoint, Request, Asked, Documents
<1>2. CASE kind \notin {"oidc", "openshift"}
  BY <1>2, ClientIsKnown, SettingIsCurrent DEF FindEndpoint, Endpoint, Request, Asked, Documents
<1> QED
  BY <1>1, <1>2

LEMMA KeysStep ==
  ASSUME SsoIInv, NEW v \in Visit, FindKeys(v), UNCHANGED settings
  PROVE  /\ Keys(v) \in Documents
         /\ clock - Keys(v).at \in Nat
         /\ IF kind = "oidc"
            THEN /\ Keys(v).issuer \in Since(Keys(v).asked)
                 /\ clock - Keys(v).at = 0 \/ clock - Keys(v).at < DiscoveryTTL
            ELSE Keys(v).issuer \in Current
         /\ discovered' \in Documents \union {NULL}
         /\ CacheIsRecent'
<1>1. CASE kind = "oidc"
  BY <1>1, DiscoverStep DEF FindKeys, Keys
<1>2. CASE kind # "oidc"
  BY <1>2, SettingIsCurrent DEF FindKeys, Keys
<1> QED
  BY <1>1, <1>2

\* A sign-in moves on, alone; what was bound stays bound.
LEMMA VisitStep ==
  ASSUME SsoIInv, NEW v \in Visit, NEW x \in SignIns, visit' = [visit EXCEPT ![v] = x],
         UNCHANGED <<kind, via, clock, stored, down, events, left, account>>,
         discovered' \in Documents \union {NULL},
         CacheIsRecent',
         jar' \in [Browser -> Cookies \union {NULL}],
         Vouched(v, x), OnePerson(x), FetchIsRecent(x),
         v \in Binders => /\ x.found = visit[v].found /\ x.who = visit[v].who
                         /\ x.step \in {"provisioned", "open", "refused"}
  PROVE  SsoIInv'
<1> USE DEF SsoIInv
<1>1. SsoTypes'
  BY DEF SsoTypes
<1>2. VisitsAreVouched'
  BY DEF SsoTypes, VisitsAreVouched, Vouched
<1>5. FetchesAreRecent'
  <2>1. \A time : Since(time)' = Since(time)
    BY DEF Since, Current, Configured
  <2>2. \A w \in Visit : FetchIsRecent(visit'[w])
    BY DEF SsoTypes, FetchesAreRecent
  <2> QED
    BY <2>1, <2>2 DEF FetchesAreRecent, FetchIsRecent
<1>3. Rebound => Rebound'
  <2> SUFFICES ASSUME NEW w \in Binders, visit[w].who.subject = account.subject PROVE Rebound'
    BY DEF Rebound
  <2>1. w \in Visit /\ DOMAIN visit = Visit /\ DOMAIN visit' = Visit
    BY DEF SsoTypes, Binders
  <2>2. w \in Binders' /\ visit'[w].who = visit[w].who
    BY <2>1 DEF Binders
  <2> QED
    BY <2>2 DEF Rebound
<1>4. AccountIsBound'
  <2> SUFFICES ASSUME NEW w \in Visit PROVE OnePerson(visit[w])'
    BY DEF AccountIsBound
  <2>1. OnePerson(visit'[w])
    BY DEF SsoTypes, AccountIsBound
  <2> QED
    BY <1>3, <2>1 DEF OnePerson
<1> QED
  BY <1>1, <1>2, <1>4, <1>5

LEMMA RefusedStep ==
  ASSUME SsoIInv, NEW v \in Visit,
         visit[v].step \in {"new", "away", "ours", "redeemed"},
         visit' = [visit EXCEPT ![v] = Sign("refused")],
         UNCHANGED <<kind, via, clock, stored, down, events, left, account>>,
         discovered' \in Documents \union {NULL},
         CacheIsRecent',
         jar' \in {jar, [jar EXCEPT ![via[v]] = NULL]}
  PROVE  SsoIInv'
<1>1. jar' \in [Browser -> Cookies \union {NULL}]
  BY DEF SsoIInv, SsoTypes
<1>2. v \notin Binders
  BY DEF Binders
<1>3. OnePerson(Sign("refused"))
  BY FreshSignIn DEF OnePerson
<1> QED
  BY <1>1, <1>2, <1>3, FreshSignIn, VisitStep

\* Where the discovery cache is left alone.
LEMMA CacheUntouched ==
  ASSUME SsoIInv, UNCHANGED <<settings, discovered>>
  PROVE  /\ discovered' \in Documents \union {NULL}
         /\ CacheIsRecent'
  BY SettingIsCurrent

LEMMA StartPreserves ==
  ASSUME SsoIInv, NEW v \in Visit, Start(v) PROVE SsoIInv'
<1> DEFINE x == [visit[v] EXCEPT !.step = "away", !.fetch = NULL, !.asked = Request(v)]
<1>1. /\ visit[v].step = "new" /\ FindEndpoint(v)
      /\ visit' = [visit EXCEPT ![v] = x]
      /\ jar' = [jar EXCEPT ![via[v]] = Sealed(v)]
      /\ UNCHANGED <<kind, via, settings, account>>
  BY DEF Start
<1>2. visit[v] \in SignIns /\ Request(v) \in Asked
  BY <1>1, EndpointStep DEF SsoIInv, SsoTypes
<1>3. x \in SignIns /\ x.step = "away" /\ x.asked = Request(v) /\ x.fetch = NULL
  BY <1>2 DEF SignIns
<1> HIDE DEF x
<1>4. Vouched(v, x) /\ OnePerson(x) /\ FetchIsRecent(x)
  BY <1>2, <1>3 DEF Vouched, OnePerson, FetchIsRecent
<1>5. jar' \in [Browser -> Cookies \union {NULL}]
  BY <1>1 DEF SsoIInv, SsoTypes, Sealed, Cookies
<1>6. v \notin Binders
  BY <1>1 DEF Binders
<1> QED
  BY <1>1, <1>3, <1>4, <1>5, <1>6, EndpointStep, VisitStep DEF settings

\* A document is asked for from an issuer that is configured now.
LEMMA FetchBeginsPreserves ==
  ASSUME SsoIInv, NEW v \in Visit, FetchBegins(v) PROVE SsoIInv'
<1> DEFINE f == [issuer |-> Resolved.issuer, client |-> Resolved.client, asked |-> clock]
           x == [visit[v] EXCEPT !.fetch = f]
<1>1. /\ visit[v].step \in {"new", "ours", "redeemed"}
      /\ visit' = [visit EXCEPT ![v] = x]
      /\ UNCHANGED <<kind, via, settings, discovered, jar, account>>
  BY DEF FetchBegins
<1>2. visit[v] \in SignIns /\ Vouched(v, visit[v]) /\ clock \in Nat
  BY DEF SsoIInv, SsoTypes, VisitsAreVouched
<1>3. f \in Fetches /\ f.issuer \in Since(f.asked) /\ f.asked = clock
  BY <1>2, IssuersOfTheMoment DEF SsoIInv, Fetches
<1> HIDE DEF f
<1>4. /\ x \in SignIns /\ x.step = visit[v].step /\ x.fetch = f /\ x.asked = visit[v].asked
      /\ x.code = visit[v].code /\ x.pending = visit[v].pending
  BY <1>2, <1>3 DEF SignIns
<1> HIDE DEF x
<1>5. Vouched(v, x) /\ OnePerson(x) /\ FetchIsRecent(x)
  BY <1>1, <1>2, <1>3, <1>4 DEF Vouched, OnePerson, FetchIsRecent
<1>6. jar' \in [Browser -> Cookies \union {NULL}]
  BY <1>1 DEF SsoIInv, SsoTypes
<1>7. v \notin Binders
  BY <1>1 DEF Binders
<1> QED
  BY <1>1, <1>4, <1>5, <1>6, <1>7, CacheUntouched, VisitStep DEF settings

\* A callback that is not ours, or any of the refusals before the account is touched.
LEMMA CallbackPreserves ==
  ASSUME SsoIInv, NEW v \in Visit, Callback(v) PROVE SsoIInv'
<1>1. PICK s \in Subject \union {NULL} :
        /\ visit[v].step = "away"
        /\ IF Resolved.enabled /\ OurHandshake(v) /\ s # NULL
           THEN /\ visit' = [visit EXCEPT ![v].step = "ours", ![v].pending = Unsealed(v),
                                          ![v].code = Answered(v, s)]
                /\ UNCHANGED jar
           ELSE Refused(v)
        /\ UNCHANGED <<kind, via, settings, discovered, account>>
  BY DEF Callback
<1>2. visit[v] \in SignIns /\ visit[v].asked \in Asked
  BY <1>1 DEF SsoIInv, SsoTypes, VisitsAreVouched, Vouched
<1>3. /\ discovered' \in Documents \union {NULL}
      /\ CacheIsRecent'
  BY <1>1, CacheUntouched
<1>4. CASE Resolved.enabled /\ OurHandshake(v) /\ s # NULL
  <2> DEFINE x == [visit[v] EXCEPT !.step = "ours", !.pending = Unsealed(v),
                                   !.code = Answered(v, s)]
  <2>1. visit' = [visit EXCEPT ![v] = x] /\ jar' = jar
    BY <1>1, <1>4
  <2>2. Answered(v, s) \in Codes /\ Answered(v, s).issuer = visit[v].asked.issuer
    BY <1>2, <1>4 DEF Answered, Asked, Codes
  <2>3. Unsealed(v) \in Visit /\ (kind # "saml" => Unsealed(v) = v)
    BY <1>4 DEF OurHandshake, Unsealed, SsoIInv, SsoTypes, Cookies
  <2>4. /\ x \in SignIns /\ x.step = "ours" /\ x.asked = visit[v].asked
        /\ x.code = Answered(v, s) /\ x.pending = Unsealed(v) /\ x.fetch = visit[v].fetch
    BY <1>2, <2>2, <2>3 DEF SignIns
  <2> HIDE DEF x
  <2>5. Vouched(v, x) /\ OnePerson(x) /\ FetchIsRecent(x)
    BY <1>2, <2>2, <2>3, <2>4
       DEF Vouched, OnePerson, FetchIsRecent, SsoIInv, FetchesAreRecent
  <2>6. v \notin Binders
    BY <1>1 DEF Binders
  <2>7. jar' \in [Browser -> Cookies \union {NULL}]
    BY <2>1 DEF SsoIInv, SsoTypes
  <2> QED
    BY <1>1, <1>3, <2>1, <2>4, <2>5, <2>6, <2>7, VisitStep DEF settings
<1>5. CASE ~(Resolved.enabled /\ OurHandshake(v) /\ s # NULL)
  BY <1>1, <1>3, <1>5, RefusedStep DEF settings, Refused
<1> QED
  BY <1>4, <1>5

LEMMA RefusalsPreserve ==
  ASSUME SsoIInv, NEW v \in Visit,
         StartFails(v) \/ ProviderSilent(v) \/ AssertionRefused(v) \/ GroupsRefused(v)
  PROVE  SsoIInv'
<1>1. /\ visit[v].step \in {"new", "ours", "redeemed"}
      /\ visit' = [visit EXCEPT ![v] = Sign("refused")]
      /\ jar' \in {jar, [jar EXCEPT ![via[v]] = NULL]}
      /\ UNCHANGED <<kind, via, settings, discovered, account>>
  BY DEF StartFails, ProviderSilent, AssertionRefused, GroupsRefused, Refused
<1> QED
  BY <1>1, CacheUntouched, RefusedStep DEF settings

LEMMA ExchangePreserves ==
  ASSUME SsoIInv, NEW v \in Visit, Exchange(v) PROVE SsoIInv'
<1>1. /\ visit[v].step = "ours" /\ kind # "saml" /\ FindEndpoint(v)
      /\ IF Redeems(v)
         THEN visit' = [visit EXCEPT ![v].step = "redeemed", ![v].fetch = NULL] /\ UNCHANGED jar
         ELSE Refused(v)
      /\ UNCHANGED <<kind, via, settings, account>>
  BY DEF Exchange
<1>2. discovered' \in Documents \union {NULL} /\ CacheIsRecent'
  BY <1>1, EndpointStep
<1>3. CASE Redeems(v)
  <2> DEFINE x == [visit[v] EXCEPT !.step = "redeemed", !.fetch = NULL]
  <2>1. visit' = [visit EXCEPT ![v] = x] /\ jar' = jar
    BY <1>1, <1>3
  <2>2. visit[v] \in SignIns /\ Vouched(v, visit[v])
    BY DEF SsoIInv, SsoTypes, VisitsAreVouched
  <2>3. /\ x \in SignIns /\ x.step = "redeemed" /\ x.asked = visit[v].asked
        /\ x.code = visit[v].code /\ x.pending = visit[v].pending /\ x.fetch = NULL
    BY <2>2 DEF SignIns
  <2> HIDE DEF x
  <2>4. Vouched(v, x) /\ OnePerson(x) /\ FetchIsRecent(x)
    BY <1>1, <2>2, <2>3 DEF Vouched, OnePerson, FetchIsRecent
  <2>5. v \notin Binders
    BY <1>1 DEF Binders
  <2>6. jar' \in [Browser -> Cookies \union {NULL}]
    BY <2>1 DEF SsoIInv, SsoTypes
  <2> QED
    BY <1>1, <1>2, <2>1, <2>3, <2>4, <2>5, <2>6, VisitStep DEF settings
<1>4. CASE ~Redeems(v)
  BY <1>1, <1>2, <1>4, RefusedStep DEF settings, Refused
<1> QED
  BY <1>3, <1>4

\* The provider vouches, and the account may be this person's as it is found.
LEMMA IdentifyPreserves ==
  ASSUME SsoIInv, NEW v \in Visit, Identify(v) PROVE SsoIInv'
<1> DEFINE issuer == Keys(v).issuer
           vouched ==
             Vouches(v, issuer) /\ ~down /\ (account # NULL => May(visit[v].code.subject))
<1>1. /\ visit[v].step = IF kind = "saml" THEN "ours" ELSE "redeemed"
      /\ FindKeys(v)
      /\ IF vouched
         THEN /\ visit' = [visit EXCEPT
                   ![v].step = "found", ![v].fetch = NULL, ![v].code = NULL,
                   ![v].found = account, ![v].who = Identified(v)]
              /\ UNCHANGED jar
         ELSE Refused(v)
      /\ UNCHANGED <<kind, via, settings, account>>
  BY DEF Identify
<1>2. /\ discovered' \in Documents \union {NULL}
      /\ CacheIsRecent'
      /\ issuer \in Issuers /\ clock - Keys(v).at \in Nat
      /\ IF kind = "oidc"
         THEN /\ issuer \in Since(Keys(v).asked)
              /\ clock - Keys(v).at = 0 \/ clock - Keys(v).at < DiscoveryTTL
         ELSE issuer \in Current
  BY <1>1, KeysStep DEF Documents
<1>3. CASE vouched
  <2> DEFINE who == Identified(v)
             x == [visit[v] EXCEPT !.step = "found", !.fetch = NULL, !.code = NULL,
                                   !.found = account, !.who = who]
  <2>1. visit' = [visit EXCEPT ![v] = x] /\ jar' = jar
    BY <1>1, <1>3
  <2>2. visit[v] \in SignIns /\ Vouched(v, visit[v]) /\ account \in Persons \union {NULL}
    BY DEF SsoIInv, SsoTypes, VisitsAreVouched
  <2>3. /\ visit[v].asked \in Asked /\ visit[v].code \in Codes
        /\ visit[v].code.issuer = visit[v].asked.issuer
        /\ kind # "saml" => visit[v].pending = v
    BY <1>1, <2>2 DEF Vouched
  <2>4. visit[v].code.issuer = issuer /\ visit[v].pending = v
    BY <1>3, <2>3 DEF Vouches, VerifiedToken, ValidAssertion, KnownToken
  <2>5. /\ who \in Identities /\ who.issuer = issuer /\ who.subject = visit[v].code.subject
        /\ who.current = Current /\ who.since = Since(Keys(v).asked)
        /\ who.age = clock - Keys(v).at
    BY <1>2, <2>3, IssuersOfTheMoment DEF Identified, Identities, Codes, SsoIInv
  <2> HIDE DEF who
  <2>6. /\ x \in SignIns /\ x.step = "found" /\ x.asked = visit[v].asked
        /\ x.pending = visit[v].pending /\ x.who = who /\ x.found = account
        /\ x.fetch = NULL
    BY <2>2, <2>5 DEF SignIns
  <2> HIDE DEF x
  <2>7. Vouched(v, x)
    BY <1>2, <2>3, <2>4, <2>5, <2>6 DEF Vouched
  <2>8. OnePerson(x) /\ FetchIsRecent(x)
    BY <1>3, <2>5, <2>6 DEF OnePerson, May, FetchIsRecent
  <2>9. v \notin Binders
    BY <1>1 DEF Binders
  <2>10. jar' \in [Browser -> Cookies \union {NULL}]
    BY <2>1 DEF SsoIInv, SsoTypes
  <2> QED
    BY <1>1, <1>2, <2>1, <2>6, <2>7, <2>8, <2>9, <2>10, VisitStep DEF settings
<1>4. CASE ~vouched
  BY <1>1, <1>2, <1>4, RefusedStep DEF settings, Refused
<1> QED
  BY <1>3, <1>4

\* From the account on: the session, or the server error that leaves what was bound.
LEMMA LastStepsPreserve ==
  ASSUME SsoIInv, NEW v \in Visit, OpenSession(v) \/ SsoBreaks(v) PROVE SsoIInv'
<1>1. /\ UNCHANGED <<kind, via, settings, discovered, account>>
      /\ jar' \in {jar, [jar EXCEPT ![via[v]] = NULL]}
  BY DEF OpenSession, SsoBreaks
<1>2. jar' \in [Browser -> Cookies \union {NULL}]
  BY <1>1 DEF SsoIInv, SsoTypes
<1>3. visit[v] \in SignIns /\ Vouched(v, visit[v]) /\ OnePerson(visit[v])
  BY DEF SsoIInv, SsoTypes, VisitsAreVouched, AccountIsBound
<1>4. CASE visit[v].step = "provisioned"
  <2>1. PICK step \in {"open", "refused"} :
          visit' = [visit EXCEPT ![v] = [visit[v] EXCEPT !.step = step]]
    BY <1>4 DEF OpenSession, SsoBreaks
  <2> DEFINE x == [visit[v] EXCEPT !.step = step]
  <2>2. /\ x \in SignIns /\ x.step = step /\ x.asked = visit[v].asked /\ x.who = visit[v].who
        /\ x.found = visit[v].found /\ x.pending = visit[v].pending
        /\ x.fetch = visit[v].fetch
    BY <1>3 DEF SignIns
  <2>3. visit' = [visit EXCEPT ![v] = x]
    BY <2>1
  <2> HIDE DEF x
  <2>4. Vouched(v, x) /\ OnePerson(x) /\ FetchIsRecent(x)
    BY <1>3, <1>4, <2>2 DEF Vouched, OnePerson, FetchIsRecent, SsoIInv, FetchesAreRecent
  <2> QED
    BY <1>1, <1>2, <2>2, <2>3, <2>4, CacheUntouched, VisitStep DEF settings
<1>5. CASE visit[v].step = "found"
  <2>1. visit' = [visit EXCEPT ![v] = Sign("refused")] /\ v \notin Binders
    BY <1>5 DEF OpenSession, SsoBreaks, Binders
  <2>2. OnePerson(Sign("refused"))
    BY FreshSignIn DEF OnePerson
  <2> QED
    BY <1>1, <1>2, <2>1, <2>2, FreshSignIn, CacheUntouched, VisitStep DEF settings
<1> QED
  BY <1>4, <1>5 DEF OpenSession, SsoBreaks
\* The account is created, bound, or as it was found.
LEMMA ProvisionPreserves ==
  ASSUME SsoIInv, NEW v \in Visit, Provision(v) PROVE SsoIInv'
<1> DEFINE found == visit[v].found
           subject == visit[v].who.subject
           x == [visit[v] EXCEPT !.step = "provisioned"]
<1>1. /\ visit[v].step = "found"
      /\ UNCHANGED <<kind, via, settings, discovered, jar>>
      /\ IF found = NULL /\ account # NULL
         THEN visit' = [visit EXCEPT ![v] = Sign("refused")] /\ account' = account
         ELSE /\ account' = IF found = NULL THEN Person(kind, subject, TRUE)
                            ELSE IF found.subject = NULL
                            THEN [account EXCEPT !.subject = subject] ELSE account
              /\ visit' = [visit EXCEPT ![v] = x]
  BY DEF Provision
<1>2. visit[v] \in SignIns /\ Vouched(v, visit[v]) /\ OnePerson(visit[v])
  BY DEF SsoIInv, SsoTypes, VisitsAreVouched, AccountIsBound
<1>3. /\ subject \in Subject /\ found \in Persons \union {NULL}
      /\ found # NULL => account # NULL /\ found.subject \in {NULL, subject}
  BY <1>1, <1>2 DEF Vouched, OnePerson, Identities, SignIns
<1>4. /\ x \in SignIns /\ x.step = "provisioned" /\ x.asked = visit[v].asked
      /\ x.who = visit[v].who /\ x.found = found /\ x.pending = visit[v].pending
      /\ x.fetch = visit[v].fetch
  BY <1>2 DEF SignIns
<1> HIDE DEF x
<1>5. Vouched(v, x) /\ FetchIsRecent(x) /\ v \notin Binders
  BY <1>1, <1>2, <1>4 DEF Vouched, FetchIsRecent, SsoIInv, FetchesAreRecent, Binders
<1>6. jar' \in [Browser -> Cookies \union {NULL}]
  BY <1>1 DEF SsoIInv, SsoTypes
<1>7. CASE found = NULL /\ account # NULL
  <2>1. OnePerson(Sign("refused"))
    BY FreshSignIn DEF OnePerson
  <2> QED
    BY <1>1, <1>5, <1>6, <1>7, <2>1, FreshSignIn, CacheUntouched, VisitStep DEF settings
<1>8. CASE found # NULL /\ found.subject # NULL
  <2>1. OnePerson(x)
    BY <1>1, <1>2, <1>3, <1>4, <1>8 DEF OnePerson
  <2> QED
    BY <1>1, <1>4, <1>5, <1>6, <1>8, <2>1, CacheUntouched, VisitStep DEF settings
<1>9. ASSUME account' \in Persons, visit' = [visit EXCEPT ![v] = x],
             \A w \in Visit : OnePerson(visit[w])'
      PROVE  SsoIInv'
  <2>1. SsoTypes'
    BY <1>1, <1>4, <1>9 DEF SsoIInv, SsoTypes, settings
  <2>2. CacheIsRecent'
    BY <1>1, CacheUntouched
  <2>4. FetchesAreRecent'
    <3>1. \A time : Since(time)' = Since(time) /\ clock' = clock
      BY <1>1 DEF settings, Since, Current, Configured
    <3>2. \A w \in Visit : FetchIsRecent(visit'[w])
      BY <1>5, <1>9 DEF SsoIInv, SsoTypes, FetchesAreRecent
    <3> QED
      BY <3>1, <3>2 DEF FetchesAreRecent, FetchIsRecent
  <2>3. VisitsAreVouched'
    BY <1>1, <1>5, <1>9 DEF SsoIInv, SsoTypes, VisitsAreVouched, Vouched
  <2> QED
    BY <1>9, <2>1, <2>2, <2>3, <2>4 DEF SsoIInv, AccountIsBound
<1>10. CASE found = NULL /\ account = NULL
  <2>1. account' = Person(kind, subject, TRUE) /\ visit' = [visit EXCEPT ![v] = x]
    BY <1>1, <1>10
  <2>2. account' \in Persons /\ account'.subject = subject
    BY <1>3, <2>1 DEF Person, Persons, SsoIInv, SsoTypes
  <2>3. account' # NULL
    BY <2>2, SubjectAssumption DEF Persons
  <2>4. ASSUME NEW w \in Visit PROVE OnePerson(visit[w])'
    <3>1. CASE w = v
      <4>1. visit'[w] = x
        BY <2>1, <3>1 DEF SsoIInv, SsoTypes
      <4> QED
        BY <1>3, <1>4, <1>10, <2>2, <2>3, <4>1 DEF OnePerson
    <3>2. CASE w # v
      <4>1. visit'[w] = visit[w]
        BY <2>1, <3>2 DEF SsoIInv, SsoTypes
      <4>2. OnePerson(visit[w])
        BY DEF SsoIInv, AccountIsBound
      <4> QED
        BY <1>10, <4>1, <4>2 DEF OnePerson
    <3> QED
      BY <3>1, <3>2
  <2> QED
    BY <1>9, <2>1, <2>2, <2>4
<1>11. CASE found # NULL /\ found.subject = NULL
  <2>1. account' = [account EXCEPT !.subject = subject] /\ visit' = [visit EXCEPT ![v] = x]
    BY <1>1, <1>11
  <2>2. account \in Persons
    BY <1>3, <1>11 DEF SsoIInv, SsoTypes
  <2>3. account' \in Persons /\ account'.subject = subject
    BY <1>3, <2>1, <2>2 DEF Persons
  <2>4. account' # NULL
    BY <2>3, SubjectAssumption DEF Persons
  <2>5. visit'[v] = x /\ DOMAIN visit' = Visit
    BY <2>1 DEF SsoIInv, SsoTypes
  <2>6. Rebound'
    <3>1. v \in Binders'
      BY <1>4, <1>11, <2>5 DEF Binders
    <3> QED
      BY <1>4, <2>3, <2>5, <3>1 DEF Rebound
  <2>7. ASSUME NEW w \in Visit PROVE OnePerson(visit[w])'
    <3>1. CASE w = v
      BY <1>3, <1>4, <2>3, <2>4, <2>5, <2>6, <3>1 DEF OnePerson
    <3>2. CASE w # v
      <4>1. visit'[w] = visit[w]
        BY <2>1, <3>2 DEF SsoIInv, SsoTypes
      <4>2. OnePerson(visit[w])
        BY DEF SsoIInv, AccountIsBound
      <4> QED
        BY <2>4, <2>6, <4>1, <4>2 DEF OnePerson
    <3> QED
      BY <3>1, <3>2
  <2> QED
    BY <1>9, <2>1, <2>3, <2>7
<1> QED
  BY <1>7, <1>8, <1>10, <1>11

\* What happens around the sign-ins: the issuer that is replaced was configured until now.
LEMMA AroundPreserves ==
  ASSUME SsoIInv, SaveProvider \/ DeleteProvider \/ DatabaseFlips \/ ClockTicks
  PROVE  SsoIInv'
<1>1. /\ UNCHANGED <<kind, via, discovered, jar, visit, account>>
      /\ clock' \in {clock, clock + 1} /\ down' \in BOOLEAN
  BY DEF SaveProvider, DeleteProvider, DatabaseFlips, ClockTicks, Reconfigure, SsoIInv, SsoTypes
<1>2. clock \in Nat /\ clock' \in Nat /\ clock <= clock'
  <2>1. clock \in Nat
    BY DEF SsoIInv, SsoTypes
  <2> QED
    BY <1>1, <2>1
<1>3. \/ stored' = stored /\ left' = left
      \/ /\ stored' \in SettingRows \union {NULL}
         /\ left' = [left EXCEPT ![Configured.issuer] = clock]
         /\ clock' = clock
  <2>1. CASE SaveProvider
    <3>1. Acceptable \subseteq SettingRows
      <4>1. Row("new", "x") \in SettingRows /\ Row("new", "y") \in SettingRows
        BY DEF Row, SettingRows, Issuers
      <4>2. ASSUME NEW row \in {stored} \ {NULL} PROVE row \in SettingRows
        BY <4>2 DEF SsoIInv, SsoTypes
      <4>3. ASSUME NEW row \in SettingRows
            PROVE  /\ [row EXCEPT !.client = "y"] \in SettingRows
                   /\ [row EXCEPT !.enabled = FALSE] \in SettingRows
        BY <4>3 DEF SettingRows
      <4> QED
        BY <4>1, <4>2, <4>3 DEF Acceptable
    <3> QED
      BY <2>1, <3>1 DEF SaveProvider, Reconfigure
  <2>2. CASE DeleteProvider
    BY <2>2 DEF DeleteProvider, Reconfigure
  <2>3. CASE DatabaseFlips \/ ClockTicks
    BY <2>3 DEF DatabaseFlips, ClockTicks
  <2> QED
    BY <2>1, <2>2, <2>3
<1>4. Configured.issuer \in Issuers /\ Current = {Environment.issuer, Configured.issuer}
  BY IssuersOfTheMoment DEF SsoIInv, Current
<1> USE DEF SsoIInv
<1>5. SsoTypes'
  <2>1. stored' \in SettingRows \union {NULL} /\ left' \in [Issuers -> Nat \union {NULL}]
    BY <1>2, <1>3, <1>4 DEF SsoTypes
  <2>2. ASSUME NEW i \in Issuers, left'[i] # NULL PROVE left'[i] <= clock'
    <3>1. left'[i] = clock \/ left'[i] = left[i]
      BY <1>3, <1>4 DEF SsoTypes
    <3> QED
      BY <1>2, <2>2, <3>1 DEF SsoTypes
  <2> QED
    BY <1>1, <1>2, <2>1, <2>2 DEF SsoTypes
<1>6. ASSUME NEW i \in Issuers, NEW time \in Nat, time <= clock, i \in Since(time)
      PROVE  i \in Since(time)' /\ time <= clock'
  <2>1. CASE stored' = stored /\ left' = left
    BY <1>2, <1>6, <2>1 DEF Since, Current, Configured
  <2>2. CASE left' = [left EXCEPT ![Configured.issuer] = clock]
    <3>1. Environment.issuer \in Current'
      BY DEF Current
    <3>2. CASE i = Configured.issuer
      <4>1. left'[i] = clock
        BY <1>4, <2>2, <3>2 DEF SsoTypes
      <4> QED
        BY <1>2, <1>6, <4>1, NullAssumption DEF Since
    <3>3. CASE i # Configured.issuer
      <4>1. left'[i] = left[i]
        BY <1>4, <2>2, <3>3 DEF SsoTypes
      <4> QED
        BY <1>2, <1>4, <1>6, <3>1, <3>3, <4>1 DEF Since
    <3> QED
      BY <3>2, <3>3
  <2> QED
    BY <1>3, <2>1, <2>2
<1>8. CacheIsRecent'
  <2> SUFFICES ASSUME discovered # NULL
               PROVE  /\ discovered.asked <= clock' /\ discovered.at <= clock'
                      /\ discovered.issuer \in Since(discovered.asked)'
    BY <1>1 DEF CacheIsRecent
  <2>1. discovered \in Documents
    BY DEF SsoTypes
  <2>2. discovered.issuer \in Issuers /\ discovered.asked \in Nat /\ discovered.at \in Nat
    BY <2>1 DEF Documents
  <2>3. /\ discovered.asked <= clock /\ discovered.at <= clock
        /\ discovered.issuer \in Since(discovered.asked)
    BY DEF CacheIsRecent
  <2>4. discovered.at <= clock'
    BY <1>2, <2>2, <2>3
  <2>5. PICK i \in Issuers, time \in Nat : i = discovered.issuer /\ time = discovered.asked
    BY <2>2
  <2>6. i \in Since(time)' /\ time <= clock'
    BY <1>6, <2>3, <2>5
  <2>7. discovered'.issuer = i /\ discovered'.asked = time
    BY <1>1, <2>5
  <2> QED
    BY <1>1, <2>4, <2>5, <2>6, <2>7 DEF Since
<1>9. FetchesAreRecent'
  <2> SUFFICES ASSUME NEW v \in Visit, visit[v].fetch # NULL
               PROVE  /\ visit[v].fetch.asked <= clock'
                      /\ visit[v].fetch.issuer \in Since(visit[v].fetch.asked)'
    BY <1>1 DEF FetchesAreRecent, FetchIsRecent
  <2>1. visit[v].fetch \in Fetches /\ FetchIsRecent(visit[v])
    BY DEF SsoTypes, SignIns, FetchesAreRecent
  <2>2. PICK i \in Issuers, time \in Nat :
             i = visit[v].fetch.issuer /\ time = visit[v].fetch.asked
    BY <2>1 DEF Fetches
  <2>3. i \in Since(time)' /\ time <= clock'
    BY <1>6, <2>1, <2>2 DEF FetchIsRecent
  <2>4. visit'[v].fetch.issuer = i /\ visit'[v].fetch.asked = time
    BY <1>1, <2>2
  <2> QED
    BY <2>2, <2>3, <2>4 DEF Since
<1>7. VisitsAreVouched' /\ AccountIsBound'
  BY <1>1 DEF VisitsAreVouched, Vouched, AccountIsBound, OnePerson, Rebound, Binders
<1> QED
  BY <1>5, <1>7, <1>8, <1>9

LEMMA SsoNextIInv == SsoIInv /\ [SsoNext]_sso => SsoIInv'
<1> SUFFICES ASSUME SsoIInv, [SsoNext]_sso PROVE SsoIInv'
  OBVIOUS
<1>1. CASE UNCHANGED sso
  <2> USE <1>1 DEF sso, SsoIInv
  <2>1. SsoTypes'
    BY DEF SsoTypes
  <2>2. CacheIsRecent' /\ FetchesAreRecent'
    BY DEF CacheIsRecent, FetchesAreRecent, FetchIsRecent, Since, Current, Configured
  <2>3. VisitsAreVouched' /\ AccountIsBound'
    BY DEF VisitsAreVouched, Vouched, AccountIsBound, OnePerson, Rebound, Binders
  <2> QED
    BY <2>1, <2>2, <2>3
<1>2. ASSUME NEW v \in Visit, Start(v) PROVE SsoIInv'
  BY <1>2, StartPreserves
<1>10. ASSUME NEW v \in Visit, FetchBegins(v) PROVE SsoIInv'
  BY <1>10, FetchBeginsPreserves
<1>3. ASSUME NEW v \in Visit, Callback(v) PROVE SsoIInv'
  BY <1>3, CallbackPreserves
<1>4. ASSUME NEW v \in Visit, Exchange(v) PROVE SsoIInv'
  BY <1>4, ExchangePreserves
<1>5. ASSUME NEW v \in Visit, Identify(v) PROVE SsoIInv'
  BY <1>5, IdentifyPreserves
<1>6. ASSUME NEW v \in Visit,
             StartFails(v) \/ ProviderSilent(v) \/ AssertionRefused(v) \/ GroupsRefused(v)
      PROVE  SsoIInv'
  BY <1>6, RefusalsPreserve
<1>7. ASSUME NEW v \in Visit, Provision(v) PROVE SsoIInv'
  BY <1>7, ProvisionPreserves
<1>8. ASSUME NEW v \in Visit, OpenSession(v) \/ SsoBreaks(v) PROVE SsoIInv'
  BY <1>8, LastStepsPreserve
<1>9. CASE SaveProvider \/ DeleteProvider \/ DatabaseFlips \/ ClockTicks
  BY <1>9, AroundPreserves
<1> QED
  BY <1>1, <1>2, <1>3, <1>4, <1>5, <1>6, <1>7, <1>8, <1>9, <1>10 DEF SsoNext, SsoVisit

-----------------------------------------------------------------------------
\* Where single sign-on takes no part nobody signs in through it.
SignOnIInv == IF part = "sso" THEN SsoIInv ELSE visit = <<>>

\* The inductive invariant holds of every behaviour of the composed system.
THEOREM SignOnInvariantHolds == Spec => []SignOnIInv
<1>1. Init => SignOnIInv
  BY SsoInitIInv DEF Init, SignOnIInv, NoSso
<1>2. SignOnIInv /\ [Next]_vars => SignOnIInv'
  <2> SUFFICES ASSUME SignOnIInv, [Next]_vars PROVE SignOnIInv'
    OBVIOUS
  <2>1. part' = part /\ [SsoNext]_sso
    BY DEF Next, vars
  <2>2. part # "sso" => UNCHANGED sso
    BY DEF Next, vars
  <2> QED
    BY <2>1, <2>2, SsoNextIInv DEF SignOnIInv, sso
<1> QED
  BY <1>1, <1>2, PTL DEF Spec

\* However the configuration, the database and the discovery cache change under it, a
\* session is opened on the word of the provider its visitor was sent to, in answer to
\* this browser's request, and that provider is configured, or was when a discovery
\* document younger than its lifetime was asked for.
THEOREM SessionsAreVouchedFor == Spec => []SessionIsVouchedFor
<1>1. SignOnIInv => SessionIsVouchedFor
  <2>1. CASE part = "sso"
    BY <2>1 DEF SignOnIInv, SsoIInv, SsoTypes, VisitsAreVouched, Vouched, Opened,
                SessionIsVouchedFor
  <2>2. CASE part # "sso"
    BY <2>2 DEF SignOnIInv, Opened, SessionIsVouchedFor
  <2> QED
    BY <2>1, <2>2
<1> QED
  BY <1>1, SignOnInvariantHolds, PTL

\* An account stays one person's through any number of sign-ins at once, unless several
\* found it without a subject.
THEOREM AccountsHaveOnePerson == Spec => []AccountHasOnePerson
<1>1. SignOnIInv => AccountHasOnePerson
  <2>1. CASE part = "sso"
    BY <2>1 DEF SignOnIInv, SsoIInv, SsoTypes, AccountIsBound, OnePerson, Rebound, Opened,
                AccountHasOnePerson
  <2>2. CASE part # "sso"
    BY <2>2 DEF SignOnIInv, Opened, AccountHasOnePerson
  <2> QED
    BY <2>1, <2>2
<1> QED
  BY <1>1, SignOnInvariantHolds, PTL
=============================================================================
