# k8boss-admin in TLA+

k8boss-admin is an administration console for Kubernetes clusters: a FastAPI
backend (`src/backend/app`) and a browser frontend (`src/frontend`). The backend
keeps no copy of the clusters' state. What it does keep, in a SQL database
shared by all its replicas, is the audit trail, the accounts and their sessions,
the registered clusters and the identity provider settings; and in each process
it keeps a cache of API clients and the live log and exec sessions.

Requests run in a thread pool, on any number of replicas, so every handler's
database statements and API server calls interleave with those of every other.
That is what these specifications are about: not what one request computes, but
what several, and crashes, failures and other people's `kubectl`, can make of it.

## Inventory

| Component (under `src/backend/app`) | State | Operations | Talks to | What is hard |
|---|---|---|---|---|
| audit, write path (`audit/recorder.py`, `audit/integrity.py`) | `audit_events`: id, content, `prev_hash`, `event_hash` | `record` and its insert loop, `chain_tip`, the `before_flush` listener | called by every write, sign-in and exec | concurrent writers of one hash chain; id order; a COMMIT whose fate is unknown; a retry budget |
| audit, verification (`audit/integrity.py`) | none | `verify`, from GENESIS or over a window, and its diagnosis | reads the table while it grows | several SELECTs that see different tables; alterations made behind the console |
| audit, listing and export (`api/audit.py`) | none | query, stream, NDJSON/CSV | reads the table | cursors over a growing table |
| write funnel (`admin/mutate.py`, `admin/preflight.py`) | none of its own | gate, access reviews, apply, diff, record | API server, audit | each way of ending must leave the right row and answer |
| writers (`admin/apply.py`, `hpa.py`, `scale.py`, `routes.py`, `node_debug.py`, ...) | none | one funnel call per change | write funnel | the object changes between the read and the write |
| drain and node writes (`admin/nodes.py`) | none | plan, cordon, one eviction per pod | API server, funnel | pods scheduled meanwhile, budgets |
| installers (`admin/olm.py`, `router.py`, `projects.py`) | none | phases of many objects | API server, funnel | partial failure, re-runs, objects of others |
| consequential writers (`admin/pvc.py`, `csr.py`, `node_scheduling.py`, `rbac_grants.py`, `namespace_delete.py`, `portal.py`, ...) | none | plan, then write with the codes accepted | API server, funnel | everything moves between the plan and the write; what could not be read must not pass for safe |
| sign-in throttle (`identity/throttle.py`, `api/auth.py`) | `login_attempts` | `check`, `reserve`, `release` | sign-in | simultaneous bursts, releases racing reservations, clocks |
| accounts and sessions (`identity/service.py`, `identity/dependencies.py`, `api/auth.py`) | `users`, `auth_sessions` | sign-in, load, revoke, user changes | all requests | check-then-act on two tables, the last administrator |
| single sign-on, provider settings (`identity/`, `api/auth.py`, `api/identity_providers.py`) | one row per provider kind, a handshake cookie per browser, a process-wide discovery cache | start, callback, provisioning, save, delete | external providers, accounts | the configuration, the cache and the cookie change while the visitor is at the provider |
| client cache, impersonation, cluster registry (`k8s/client.py`, ...) | per-process dictionary of clients and temporary credential files; `clusters` table | get, invalidate, close, hijack for websockets | API server | unlocked shared state, files deleted under a user |
| log streaming (`api/logs.py`) | per-connection threads, queue, credit window | relay, watch, end | API server, websocket | thread and event loop, one terminal frame, back-pressure |
| exec (`api/exec_ws.py`) | per-connection channel, two pumps | open, pump, resize, close, audit rows | API server, websocket, audit | cancellation at every await |
| startup, adoption and key file (`main.py`, `schema_upgrade.py`, `crypto.py`, `k8s/adoption.py`) | schema, key file | create, upgrade, load or generate the key | database, volume | replicas starting together, crashes |
| discovery (`resources/catalog.py`) | a per-process catalogue of what each cluster serves, kept a minute | enumerate, invalidate | API server | a group that failed to enumerate is not a group that is absent; a shared, ageing answer |
| pages of several reads (`services/portal.py`, `services/routes.py`, overview, ...) | none | one page made of several reads | discovery, API server | "we do not know" must never read as "there is none" |
| other read services, HTTP plumbing, frontend | none that matters here | shaping of one answer into another | API server | nothing a state machine would show |

What makes each correct:

* **audit** - the trail is one line that only grows at its end; a call is in it
  at most once; an id that was answered is durable; nobody who looks at it ever
  sees an unaltered trail as broken, and alterations are seen.
* **write funnel** - every ending mutate knows of has exactly one row; that row and
  the response agree with what happened on the cluster; a write that names a version never
  replaces another one.
* **throttle** - a burst of simultaneous guesses is bounded like a sequence, and
  a working account is not locked out by its own successes.
* **accounts** - a session that was ended stays ended; only active accounts
  change anything; an administrator remains.
* **log streaming, exec** - every stream ends with one terminal frame after its
  last line; every opened channel is closed and has its open and close rows.
* **client cache** - no credential file disappears under a request that uses it,
  and none is left behind.
* **single sign-on** - a session is opened on the word of the configured provider,
  in answer to this browser's request, for the person the account belongs to.
* **startup, key file** - replicas that start together all serve in the end, and
  a stored credential stays readable.
* **writers** - what lands is what was read and accepted; what was not read is
  never passed off as safe.
* **drain, installers** - "drained", "installed" and "uninstalled" mean it.
* **discovery, pages** - a page denies nothing it has not looked for, and says
  what it could not read.

`PROJECT.json` lists the components with the share of each that is modelled, and
under `hazards` the places in the code these properties are aimed at.

## Modules

```
AuditTrail          what the trail promises            (abstract)
   ^ implemented by
AuditChain          record(), chain_tip, the listener
   ^ extended by
AuditVerify         verify() beside the writers and an alteration
                                                       <- AuditProofs (theorems on both)

WriteFunnel         mutate() and six kinds of writers on one object
                                                       <- WriteFunnelProofs
Identity            one of
   LoginThrottle        login() and its rate limit     <- LoginThrottleProofs
   Accounts             user changes, sign-ins, sessions
                                                       <- AccountsProofs
   SingleSignOn         start, provider, callback; the configuration
                                                       <- SingleSignOnProofs
LiveStreams         one websocket of either endpoint   <- LiveStreamsProofs
   LogStream            WS .../logs     \
   ExecSession          WS .../exec      > StreamPlumbing: handler, reader, watcher, credits

Console             replicas from their startup to the requests they serve
                                                       <- ConsoleProofs
   ClientCache > Startup > KeyFile

Operations          one operation on a cluster that others change, one of
                                                       <- OperationsProofs
   Acknowledged         plan, acknowledge, write; parameters from Writers:
                        ClaimWriters, AccessWriters, NodeScheduling, PolicyWriters,
                        NamespaceDelete, Subscriptions
   Drain                plan, cordon, evictions
   RouteForm            a route compiled from the form
   Installers           router, OLM, project
   Pages > Discovery    nine pages and the catalogue they share
```

`Null` declares NULL, `Facts` the value UNREAD of a read that failed. Each run's
`MC` module adds what TLC needs (symmetry, pod sets, principals); there is one
`.cfg` per question. Definitions whose comment starts with "Fault:" are wrong on
purpose and unused: each is a plausible defect of the definition it resembles,
and `PROJECT.json`, under `mutants`, says which property notices it.

In `Identity` and `Operations` a constant, `Parts`, and a variable, `part`,
choose the component; its variables are the only ones that move. The parts share
an environment, not state, so taking them one at a time loses nothing.

### AuditTrail and AuditChain

`AuditTrail` is the atomic trail: a call appends its event to the line, or keeps
it beside the line, or gives up, once. It may be told nothing although its event
is durable. That is the outcome a lost COMMIT acknowledgement has.

`AuditChain` is the code. A `record()` call (`Record`) goes through attempts;
each attempt is a transaction of a new session: the listener reads the tip and
stamps the row (`Stamp`), the INSERT draws an id (`Insert`), waits on
`UNIQUE(prev_hash)` (`UniqueGranted`, `UniqueRefused`), and commits (`Commit`).
An `IntegrityError` goes round the loop; the last attempt is written unchained;
any other exception ends the call with `None` (`Fail`), and a COMMIT may take
effect unheard (`CommitUnacknowledged`). `rows` is the committed table, `seq` the
id sequence, `attempt`, `tip` and `rowid` the loop's locals, `result` the
answer. `began` is a history variable. SHA-256 is taken to be injective, so a
hash is the sequence of events it commits to.

Transactions are READ COMMITTED as on PostgreSQL, the more permissive of the two
supported databases: SQLite has one writer at a time and draws ids in commit
order, a subset of these behaviours.

### AuditVerify

`verify()` one SELECT at a time, in the order of `Statements`: the two counts,
the search for half links, the walk (one streamed statement, so one snapshot),
and, after a break, the query of the diagnosis on the table as it is by then.
`Outsider` alters one row, at any time, the way a database shell could: edits
it, deletes it, gives it another id, clears one or both halves of its link.
The database's own constraints still hold. An edit leaves the row's hash as it was.
Whoever edits a row and writes the hash that fits, which takes no secret, breaks the
link of the row behind it; of the newest row there is none, and that change is
outside what `AlterationIsReported` and `EditedRecordIsNotVouchedFor` say.

### WriteFunnel

One object of one cluster and several requests, each in its own thread:
`ReadLive` (with HPA's own conflict before the funnel), the gate, one access
review per requirement with its three answers, apply with everything the API
server may do (refuse, fail, report a conflict, carry it out, or carry it out
and have the answer lost), then the audit row and the response. `SomebodyElse`
is every other client of the cluster. The process may crash anywhere.

What a lost answer turns into is decided below the funnel, in the transport
(`k8s/client.py:173-204`), and depends on the method. `configuration.retries` is
never set, so urllib3's default applies: a PUT or DELETE is sent again, up to
three times, and what is said to the second request is what the funnel hears
(`Resend`): a replace is then in conflict with itself, a delete finds nothing. A
POST or PATCH is not sent again; at the read deadline it becomes
`cluster_unreachable` (`ApplyAnswerLost`, a row), and when its connection is
reset urllib3's `ProtocolError` reaches neither of the transport's two `except`
clauses nor mutate's (`ApplyEscapes`, and `ReviewEscapes` for the access review,
itself a POST): the request ends in a 500 and leaves no row.

The six
kinds of write are those that differ in what the funnel sees: whether they read
first, carry a version, need two permissions, or have a gate that withholds the
dry run. `audit.record` is used as `AuditTrail` promises it: one row or none,
and an id only with a row.

### LoginThrottle

One committed statement per step: the reservation, the count, the refusal or
passage with the occasional pruning, the password check whose outcome is left
open, and the two releases (submitted name, account name). Each database step
may fail, and then the code goes on. Time is a counter that moves between any
two steps. `BurstIsBounded` counts the attempts whose reservation still stands:
one that was released with a success no longer counts, so what is bounded are the
failures of a window and not the passwords checked in it.

### Accounts

A user change is its statements: the cookie's session row, its account, the
target row, the count of administrators, the write. A sign-in is two
transactions, the account and the session. The UPDATE of the user and the DELETE
of its sessions are one transaction and are taken as one step: a session
inserted between the two statements is not distinguishable from one inserted
just after, except that the DELETE may also end it, which is the same as its
being ended at once. The identity provider decides the role of `Federated`
accounts at each sign-in.

### SingleSignOn

A visit goes through `/start` (the settings as they resolve now, the discovery
document, the sealed cookie), the provider, and `/callback` (the cookie of the
browser it returns to, the settings as they resolve then, the verified identity,
the account read, the account written). Between any two of these the
administrator may save or delete the provider's row, the database may go away
and come back (`provider_config` then falls back to the environment), the clock
may tick, and the other visit may go on, in the same browser or in another.
The four kinds of provider differ in what binds an assertion to a request and
where the issuer is checked: a discovery document kept in a module global for
OpenID Connect, the stored settings for SAML, a user-info call for OAuth and
OpenShift. A discovery document takes two steps: `FetchBegins` reads the
configuration and asks the issuer, and the step that uses the answer caches it
with the time it arrived, so saves, ticks and the other visit's fetch fall
between. `who` carries history: the issuers configured when the identity was
verified (`current`), those configured at some time since the document it went by
was asked for (`since`), and how long that document had been cached (`age`).

A token request, the request for signing keys and the user-info call are each one
step, taken when the settings for it are read; the last two are also one step with
the reading of the account that follows. What is lost is a configuration and an
account that both change during that call. "Configured when its word is verified"
therefore means when the provider was asked for it. The signing keys are cached
under the URL the document names, so they are the document's.

Signatures, validity windows and group lists are a choice: an assertion may
always be refused. Subjects are unique within a run, as the code takes them to
be; it compares them without their issuer (`service.py:402`). A save is one
step; two overlapping saves are not modelled. The `UNIQUE` violation of two
first sign-ins of one name ends the slower one in a 500, which is a step of the
model. Audit rows of failures are left out.

### StreamPlumbing, LogStream, ExecSession, LiveStreams

The handler coroutine (`pc`), the reader thread (`reader`) that takes a credit
for each line it posts, the watcher task that posts the viewer's frames and its
disconnect, the queue, the terminator that lets one terminal frame out, and the
API server's side of the channel. Once the viewer has gone the handler may be
cancelled at any await; a worker thread it was waiting for goes on as an
`orphan` whose result nobody takes. The pod may be replaced by another of the
same name at any moment (`PodReplaced`).

`ExecSession` has the refusals in the code's order, each with its row, the
opening in a thread, the open row, input and resizing, and the finally clause
with the close row. A frame stays at the head of the queue while its thread writes
it; a handler cancelled then leaves the thread writing (`ExecOrphanWrites`), and the
input may reach the shell after its closing row. A row may be lost (`record()` answers None) and a row
written by a thread is written although the handler has been cancelled. Errors
that `_open_exec` and `resolve_container` raise as `AdminError` are told to the
viewer and not recorded, as in the code.

### KeyFile, Startup, ClientCache, Console

`KeyFile` is `_get_fernet`, one file-system call at a time, by any thread of any
replica on one volume: the memo, reading, generating, the truncating open,
the write, what a crash leaves of it, and a volume that is read-only or does not
let itself be read. `Startup` is the lifespan: tables, the additive columns in
one transaction, the bootstrap administrator, the adoption of the single local
context of the kubeconfig; a startup that fails ends its process and the
platform starts it again. `ClientCache` is the unlocked dictionary of bundles
with their temporary credential files, the request that looks up, builds and
uses one, and the endpoints that register, update, delete and test a cluster;
`Identity(...)` is the decision per request as whom the cluster is called.
`Console` puts them together and adds what kills a replica.

What the model has on purpose, because the code has it: overlapping first uses
of the key generate two (`raced`, the one exception `CredentialsStayReadable`
makes); two threads that build one cluster's bundle leave the overwritten one's
files on the disk; a thread with an older row closes the newer bundle, whose
user then gets `cluster_unreachable`; the bundle of a deleted cluster may stay
cached; a `_write_temp` that fails, for the first file or a later one, ends the
build with whatever it has written (`BuildSpills`, and `TransientSpills` in the
connection test), and like a killed process leaves files nobody will delete; the
connection test records its result on whatever row has the id by then.
Adoption counts and then inserts, without a lock.

### Acknowledged and the writers

The handshake every consequential writer follows: a plan reads and answers what
the change would do and the codes to accept; the write reads everything again,
refuses, asks for the codes it does not find in the request, and writes, with
the version it read where the writer sends one. Others move the object or its
surroundings between any two requests. A writer is a set of parameters: what it
can find (`Objects`, `Surroundings`), what a read may give of it, some of it
UNREAD (`Readings`), what can be asked for, what is invalid, what is refused,
which codes are due (`Codes`), and what it writes. `Dangers` is not from a
writer's code list: it says, from the true surroundings, which consequences must
have been accepted under one of which codes. `Writers` gives the parameters of
ten: growing a claim, snapshotting one, deciding a certificate request, taints,
labels, Pod Security, HPA bounds, granting a role, deleting a namespace,
subscribing to an operator.

A plan's reads are one atomic step, as are a write's: what lies between them is
the interesting gap, and each read may fail on its own. A listing that was cut
short is UNREAD where the writer treats it so and bounded away where it ignores
the cut (`_existing_subscriptions` and `_operator_groups` of the portal do). The
dry run of each is the funnel's. `Gaps` lets discovery of the core group fail
under a namespace deletion, which is the case of the violated run, and one of the
two webhook listings alone, which `webhook_backends` passes over
(`namespace_delete.py:351-353`): what the other listing has is then taken for all.
A cluster has at most one default snapshot class here; with one for each driver the
code takes the first it finds (`snapshot.py:243`), the snapshot controller the
driver's.

### Drain

Plan (each pod skipped, evicted or blocked, with the reason), the refusal over
blocked pods, cordon, one eviction per pod of the plan with every answer
including a budget's 429 (but not a reset connection, which ends the request
without an answer, as in the funnel), the answer and the row; the pods terminate, finish and
arrive meanwhile. A pod is evicted by name without its UID, so a pod of the same
name counts.

### RouteForm

The exposure an operator describes, compiled for an OpenShift Route, an Ingress
or an HTTPRoute into a document, or a document taken verbatim. `render` shows the
result and names what the API has no field for (`lossy`); the form may be changed
after that was accepted (`Edit`); the write compiles again, from the form and the
document the request brings, and refuses until every loss of the form as it is now
is accepted by name. A document has the features it uses, a port per target and the
parts the form has no control for (`Unshown`); `Replaced` is which of them a
compiler overwrites as a whole, `CompiledPorts` which port each target gets. A
target has no port, one of two numbers or a name; two targets stand for up to four.
Left out: the ingress class and the parent gateways, which one API each has, and
the weights themselves.

### Installers

One request writes one object after the other through the funnel and rolls
nothing back: the router (with ownership checked by label first, and its
uninstall, which reads each object, finds it ours and deletes it by name), OLM's
definitions, the wait until they are established, and the operators after them,
and a project with its quota and bindings. The operator may call again, with a
dry run or for another namespace; others create, take over and delete objects
between the calls' steps. A bundle is three or four objects, one for each role
an object plays.

### Discovery and Pages

`Discovery` is the catalogue: enumerated when asked for, one group failing or
the index itself, kept for a while, shared, invalidated. An enumeration is one
step, stored in a later one, so a catalogue from before an invalidation may be
stored after it, as in the code. `Pages` is nine pages (operator catalogue,
installed operators, one package, routes, one route, what routes can express,
the router, OLM, the overview) as the reads they make, in order; each read gives
a listing, a part of it, a refusal, or nothing because its API is unsupported or
a blind spot. `Verdict` is what the page says of a thing: there, not there,
unknown. `moments` collects the cluster's states during the request and `relied`
what the catalogue it used was taken from, so that a denial is compared with
some moment of the request.

## Runs

| Run | Bounds | What it shows |
|---|---|---|
| `audit_chain` | 3 calls, 2 chaining attempts | the table passes the walk in every state; no event twice; an unchained row was earned by losses; chained rows become visible in id order; the loop implements `AuditTrail`; every call returns |
| `audit_verify` | 3 calls, 1 chaining attempt, 1 alteration, full walk or window of 2 | no false alarm; an unbroken walk attests the listing; which alterations are always reported, and how; a renumbering does not close the trail |
| `write_funnel` | 2 requests, 4 versions, 3 resends | every ending mutate knows of has its row; rows and answers tell what happened, or leave open what the transport leaves open; versioned writes lose nothing; recorded diffs are true |
| `write_funnel_scale` | 2 requests, 4 versions | (violated) scale's "replaced" number |
| `sign_in` | throttle: 3 sign-ins, 2 names of one account, limit 1, window 1, 2 ticks; accounts: 2 (one federated), 2 changes, 2 sign-ins; single sign-on: 2 visits in 1 or 2 browsers, 2 persons, 4 provider kinds, 2 events | bursts are bounded and refusals earned; ended sessions stay ended and changes come from active accounts; the administrator guard's exact strength; a session is vouched for by the right provider, in answer to this browser's request; an account is one person's |
| `sso_replaced_issuer` | OpenID Connect as above | (violated) a replaced issuer signs somebody in |
| `live_streams` | 1 websocket, 1 credit, 2 lines, 2 inputs, a pod that is replaced | one terminal frame, last; an end frame is the truth and the whole output; no container is guessed; shells have their rows; nothing is left behind |
| `live_streams_exec` | 1 exec websocket | (violated) a shell nobody records |
| `console` | 2 replicas, 2 threads in one or two of them, 2 operations, 1 death, 3 principals, 2 columns | credentials stay readable; the cluster is called as the operator; answers come from the row's cluster; credential files are accounted for; every replica serves |
| `operations` | handshake: 10 writers, 2 moves; drain: 3 sets of 3 pods, 1 newcomer; all exposures of a route with one or two targets and 4 ports, 1 edit; installs: 2 events; pages: 1 or 2 changes each | what lands was accepted; unread is never safe; drained, installed mean it; a route says what was asked or names what it drops; pages tell the truth |
| `operations_namespace` | namespace deletion, discovery fails | (violated) a volume's data goes without a word |
| `operations_uninstall` | the router, 1 event | (violated) uninstalled, and still running |

Why these bounds are enough to be interesting:

* `audit_chain`: with two chaining attempts a call can lose one and win the
  next, or lose both and land unchained; two other calls can take both links it
  wanted. No symmetry, because the run checks liveness and a refinement.
  `audit_verify` uses one attempt, so that an unchained row needs only one loss,
  and three calls still leave a chained row with a neighbour on each side, which
  is what an alteration in the middle takes.
* `write_funnel`: version 1 is the initial object; three further changes let
  both requests and somebody else write, in any order. All properties speak of
  one write and whatever came between its steps. `Resends` is urllib3's three;
  with one or two the run finds nothing else.
* `sign_in`: a limit of one makes two requests a burst, and the third is the one
  whose success releases; `MaxTime` is two windows, so a reservation can age out
  while its own request is in flight. Two administrators are the fewest of which
  both can be removed by changes that each saw the other. Two visits of two
  persons are what one browser's cookie and one username can confuse; lifetimes
  of one tick and two events let a cookie or a discovery document expire, or a
  configuration be replaced and the database fail, under a visit. `MaxTime` and
  `MaxEvents` bound the model, the code has no such bounds.
* `live_streams`: with one credit the second line waits for the first to be
  sent, and a reader is blocked when the viewer leaves. Two lines and two inputs
  make order visible. The replacing pod has a sidecar and a debug container.
* `console`: the initial states are a start on any condition of database, key
  file and volume with one operation to come (`StartupOps`), or replicas that
  serve already, one of them with a cached bundle, with two. Two overlapping
  operations are what every hazard of the cache takes: a use and a change, or
  two builds. A replica dies only while the others' threads are idle
  (`OthersIdle`), which costs no case, as processes share only the volume and
  the database. Two additive columns let one replica be between them.
* `operations`: two moves let the world change between plan and write and once
  more, for instance away and back. Pod sets mix every kind a plan tells apart,
  three at a time. Two events around an installer are a second call, a change by
  others during it, or both. `MaxDrift` is one change during the pages with most
  reads and two during the others; a change before, between and after the reads
  of a contradiction is what one suffices for.

Deadlock checking is off in all runs: the requests are finitely many, and when
all have been answered the system is at rest. That nothing *waits* for ever is a
property of its own: `EveryCallReturns`, `NothingLeftBehind`,
`EveryReplicaServes`.

Each module keeps a type invariant where its proofs need one; the runs spend
their properties on what could be wrong.

**Fairness.**

* `AuditChain`'s `FairSpec`: weak fairness of the steps a call that has started
  takes by itself, `Stamp`, `Insert`, `UniqueGranted`, `UniqueRefused`,
  `Commit`. The thread waits for nothing but the database, and a database that
  is up executes the statement it was given and releases an index entry when its
  transaction ends. Nothing is assumed about `Record` (nobody need call), `Fail`
  or `CommitUnacknowledged`: the loop ends even if no fault comes to its aid.
* `LiveStreams`' `FairSpec`: weak fairness of the handler, of the reader thread
  when it is not waiting for output or has been told to stop, of a cancelled
  handler's threads, of `_close_quietly`'s thread and of the watcher's notice of a
  disconnect. The event loop and the threads run, the database answers, and
  ordinary requests and log streams have read deadlines (`k8s/client.py:166`).
  Nothing is assumed of the calls of the exec channel: the handshake has "no timeout
  at all" (`exec_ws.py:262`), nor has the write of a frame. `OnTheChannel` says that
  a thread is in one of these, no step out of it is fair, and `NothingLeftBehind`
  is excused by one that never returns: a peer that accepts and then says nothing
  keeps the thread, and the handler too if the server does not cancel it.
  The viewer need not leave, type or read, nor the container write.
* `Console`'s `FairSpec`: weak fairness of each replica's startup, `Boots`,
  which includes being started again: the platform restarts a process that
  ended. Deaths are bounded, requests are not assumed.

The other modules claim no liveness: their steps are straight-line code.

## Proofs

Each proof module states its theorems of the specification that the runs check,
with nothing bounded: any sets of calls, requests, visits, replicas, threads,
pods, groups and writers (infinite ones where the code sets no limit), any
retries, limits, windows, lifetimes and credits. The bounds of the models
(`MaxVersion`, `MaxTime`, `MaxEvents`, `MaxDrift`, ...) are arbitrary too.

| Module | Theorem | States |
|---|---|---|
| `AuditProofs` | `TypeCorrect`, `InvariantHolds` | `TypeOK`, the inductive invariant `IInv` |
| | `NoFalseBreak` | `WalkFindsNoBreak` |
| | `ChainedRowsVisibleInIdOrder` | the action property `VisibleInIdOrder` |
| | `RecordedAtMostOnce` | `OneRowPerCall`, `AnsweredIdIsDurable` |
| | `LossesAreProgress` | `LostAttemptIsProgress`, `UnchainedOnlyUnderContention` |
| | `RefinesTrail` | `Spec => ImplementsTrail`, the refinement of `AuditTrail` |
| | `VerificationInvariant` | `VIInv`, of `VSpec` |
| | `VerifyNeverCriesWolf`, `EveryRowIsAccountedFor` | `NoFalseAlarm`, `ReportAccountsForEveryRow` |
| | `PassMeansTheListing`, `RenumberingKeepsItsName` | `PassAttestsListing`, `RenumberingIsNamed` |
| | `TamperingIsReported`, `EditsAreNotVouchedFor` | `AlterationIsReported`, `EditedRecordIsNotVouchedFor` |
| | `TrailCanAlwaysGrow` | `TrailStaysOpen` |
| `WriteFunnelProofs` | `TypeCorrect`, `InvariantHolds` | `TypeOK`, `IInv` |
| | `WritesReplaceWhatWasSeen`, `DiffsAreTrue` | `NoLostUpdate`, `AppliedDiffIsTrue` |
| | `TrailIsTrue`, `OneRowForEveryEnd` | `TrailTellsTheTruth`, `EveryEndIsRecorded` |
| `LoginThrottleProofs` | `ThrottleInvariantHolds` | `ThrottleIInv` |
| | `BurstsAreBounded`, `RefusalsAreAlwaysEarned` | `BurstIsBounded`, `RefusalIsEarned` |
| `AccountsProofs` | `AccountsInvariantHolds` | `AccountsIInv` |
| | `EndedSessionsNeverReturn`, `OnlyActiveAccountsChange` | `EndedSessionsStayEnded`, `ChangesComeFromActiveAccounts` |
| | `AnAdministratorRemains` | `GuardKeepsAnAdministrator` |
| `SingleSignOnProofs` | `SignOnInvariantHolds` | `SignOnIInv` |
| | `SessionsAreVouchedFor`, `AccountsHaveOnePerson` | `SessionIsVouchedFor`, `AccountHasOnePerson` |
| `LiveStreamsProofs` | `StoryHolds` | `StoryIInv`, the order of wire, queue and reader |
| | `ToldOnce`, `EndsAreTrue` | `OneTerminalFrame`, `EndIsTheTruth` |
| | `NothingIsGuessed`, `ShellsAreRecorded` | `NeverGuesses`, `ShellsAreAccountedFor` |
| `ConsoleProofs` | `ConsoleInvariantHolds` | `ConsoleIInv` |
| | `StoredCredentialsStayReadable`, `CallsAreMadeAsTheOperator` | `CredentialsStayReadable`, `ActsAsTheOperator` |
| | `AnswersComeFromTheRow`, `FilesAreNeverForgotten` | `AnswersDescribeTheRow`, `FilesAreAccountedFor` |
| `OperationsProofs` | `HandshakeInvariantHolds` | `HandshakeInvariant` |
| | `AcceptedBeforeItLands`, `UnreadFactsAreAnnounced` | `WhatLandsWasAccepted`, `UnreadIsNeverSafe` |
| | `DrainsTellTheTruth`, `InstallsTellTheTruth` | `DrainTellsTheTruth`, `InstallTellsTheTruth` |
| | `ExposuresAreExpressedOrNamed` | `ExposureIsExpressedOrNamed` |
| | `PagesAlwaysTellTheTruth` | `PagesTellTheTruth` |

The theorems about parts of `Identity` and `Operations` are theorems of the
composed specifications.

### Assumptions

The constants' assumptions are `ASSUME`s of the modules that declare them, and
TLC evaluates them in the runs. They are of three kinds. `NULL` and `UNREAD` are
no value the code also has (`None` is neither a number, nor a name, nor an
answer). Numbers are natural numbers, and those for which the code has a positive
default and no meaning at zero are positive (`ChainRetries`, `Credits`). What is a
choice among things the code names is a subset of them (`Writers`, `Page`,
`Installs`, `Operation`, `Kinds`). Beyond these: there is a user, and finitely
many (`UserAssumption`: they are rows of a table); the containers of a pod are
finitely many; a thread has one process (`HomesAssumption`); and `AuditVerify`'s
calls are finitely many, as what verify counts and lists is a table
(`CallsAssumption`). The models add READ
COMMITTED with a unique index, and a hash that is injective.

`UnreadFactsAreAnnounced` is proved for `~Gaps`, where discovery of the core group
answers and the webhook listings fail together; with `Gaps` it is false, as `operations_namespace` shows.

### The inductive invariants

**AuditChain.** `WalkFindsNoBreak` speaks of committed rows only and is not
inductive: a transaction that holds a stale link, or an id smaller than the
newest chained row's, would break it at its COMMIT. `IInv` adds what the open
transactions know. Committed chained rows form one line whose end has the
highest id; no id is held twice; each transaction past the unique check holds a
link that no committed row and no other such transaction claims, and it is the
current tip; and its id was drawn after it read the tip, so it exceeds every
chained id. `GrantedRowIsNext` is the centre: the unique index and "the tip is
read before the id is drawn" together make the row that commits exactly the next
of the line. `ProgressInv` bounds a call's lost attempts by the growth of the line
since it began, relative to `IInv`; `TrailInv` says that everything a hash commits
to belongs to calls that have returned, which is what makes a COMMIT the abstract
`Link`, and every other step of an attempt a stutter.

**AuditVerify.** `IInv` does not survive an outsider, so `VIInv` has three parts.
`TableInv` is what each kind of alteration leaves of `IInv`. Always: ids are
distinct, at most one beyond the counter, and no hash commits to more events than
ids were drawn (`LengthsFit`), which is enough for the writers' types. Unless half a
link was cleared, each hash is one event longer than its `prev_hash`: the longest
row is a tip, hence `TrailStaysOpen`. While the table is unaltered or one id was
changed, the rows are one line by their links, whatever their ids (`OneLineIn`).
`AlteredInv` is the trace an alteration leaves, and that no writer removes, since
rows are only added and no event is written twice: a deleted row's hash stays
absent while its successor names it, a renumbering that moved its row leaves the
ids out of the order of the links. `VerifierInv` says what each statement of verify
has read, and relates the counts of the earlier ones to the rows present now, which
may be more.

What a walk attests is a fact about listings of any length. It is proved without
an induction schema, by least counterexample (`WFMin`): among the positions where
the stored hash is not the events so far, the first one has a predecessor where it
is, and passed the check that makes the two agree (`PassingPrefix`). The same
argument shows that the only listing of a line that passes is the one in the order
of its links (`InLineOrderIsUnbroken`, `OrderKept`, `PassingIsInLineOrder`), that a
line that stops passing at a row still holds a successor for what was expected
there (`LineContinues`), which is what the diagnosis looks for, and that rows in a
given order are listed in one way.

**WriteFunnel.** The row is written one step after the write took effect, or did
not. So the invariant says of the row that is `due` what the properties say of
the rows in the trail, and of a request before its call that it has neither
changed nor been refused anything, unless the call is one that took effect
unheard and was sent again. A version stands for one object
(`ReadIsHeld`), which is why a write that names one replaces what its caller saw.

**LoginThrottle.** A bound on those who passed is not inductive, as nobody knows
yet who of those about to pass was counted by whom. `PassingIsBounded` counts
both: the recent reservations of requests that have passed or hold a count that
will let them. As each reserves before it counts, the one that counts last has
seen all the rows that still stand, and its count is the bound.

**Accounts.** What carries the guard from its count to its write is `CountHolds`:
a removal that may be written, and whose count is not stale, still leaves
another administrator. `stale` is set by every other removal that commits in
between, which is the gap the code leaves and the property concedes.

**SingleSignOn.** `CacheIsRecent` and `FetchesAreRecent` say that the issuer of the
cached document, and of every fetch under way, was configured when the document
was asked for or later; `Vouched` ties a visit's pending request, its
code and its identity to one issuer and one browser at each step. Proving
`AccountHasOnePerson` showed it false with three visitors, of whom two find an
account without a subject and the third has signed in between their writes. The
property now says what the code keeps: an account changes persons only through
callbacks that read it before it was bound (`Binders`), whose writes are not
conditional on what they read (`service.py`, "adopted once").

**LiveStreams.** The wire, the queue and what the reader still posts are one
order (`QueueIsInOrder`): the head of the queue, if it is a line, is the next for
the wire, and the end is behind every line. The terminator has been used by the
time the handler cleans up (`TerminatedLast`), so the default end frame of the
`finally` clause never reaches a viewer that is there. `ShellIInv` follows the
handler and the orphaned worker thread separately to the rows each writes.

**Console.** `KeysAgree`: unless two callers generate at once, whoever has
resolved, kept or used a key has the file's. `Hand` says what a thread holds at
each place of its code: a row it read, a bundle of that version of the row, the
identity of the request at hand. `OneContentPerStamp` makes the cache key,
`updated_at`, stand for one content; `LetsGo` says that a thread leaves a bundle
closed or cached (`OpenFilesAreHeld`), which makes the forgotten files exactly the
overwritten, the killed and the half-written ones.

**Acknowledged.** `HandshakeInvariant` has one centre for all writers: what a
write saw is what is there as long as the version is the same. That no danger
goes unannounced is then a fact about each writer's codes, one lemma per writer
(`...NamesItsDangers`): whatever it reads, whichever reads fail, it refuses,
names the danger, or names the read.

**Drain, RouteForm, Installers.** A pod that is gone or going stays gone under
its name unless a newcomer has it, and every listed pod that is up was skipped,
or its eviction failed and is told. `CompiledOrLossy` goes through the three
compilers field by field and `PortsAsAskedOrLost` port by port; that the acceptance
is of the form that is written is `WrittenWasRendered`. An installer's report is true because a write names the
version its survey found ours (`PriorWasLive`) and a report entry is written with
its write (`ReportsTellOfWrites`).

**Pages.** An answer is true of some moment, not of the present one, so the
invariant keeps the moments. Every value a page holds was there at one of them
(`GotIsWarranted`), every resolution came from a catalogue that was true when it
was enumerated (`StatesAreRelied`), and every step behind the request either has
its answer or left word (`AllAccountedFor`). `WellOrdered` is what is used of the
nine programs: a source is resolved before it is listed, a read is the last step
about its object, and the router's namespace is settled before the router is
looked for.

Two proofs stopped at a `CASE` whose arms overlapped, where TLC takes the first
and the logic leaves the choice open: the codes of a subscription
(`SubscribeCodes`) and the verdict of a page. Their arms are disjoint now, in the
order of the code's tests.

### Model-checked only

Liveness, which is out of the prover's reach: `EveryCallReturns`,
`NothingLeftBehind`, `EveryReplicaServes`. Every other property of a passing run is a
theorem.

## What the checks found

* **A replaced issuer** (`sso_replaced_issuer`). The discovery document is one
  module global, not keyed by the issuer, and its reset has no caller. For its
  lifetime, counted from the end of its fetch, after an administrator replaced the issuer, sign-ins are sent to
  and verified against the old one. `SessionIsVouchedFor` is what remains true.
* **A shell without a row** (`live_streams_exec`). A viewer that leaves while the
  channel is being opened in its thread: the command runs, the channel is not
  closed by the console, and neither row is written.
* **A namespace's data** (`operations_namespace`). When discovery of the core
  group fails, claims and services have no row in the inventory, no consequence
  code is asked for, and the delete goes through.
* **Uninstalled, and running** (`operations_uninstall`). The read that finds the
  router's namespace fails into a list nobody looks at, the default namespace is
  searched, and everything is "already gone".
* **Scale** (`write_funnel_scale`). The Scale object is read before the funnel
  and patched without a version, so the recorded "before" need not be what the
  patch replaced. Every other kind of change that records a diff is immune, apart
  from delete, which carries no precondition and claims nothing.

Behaviours the models contain and their properties make room for:

* **An answer lost on the way.** The funnel's docstring promises a row for "Every
  terminal state, not just success" (`admin/mutate.py:31`) and that a mutation "is
  audited - including when it fails" (`:4-6`). A POST or PATCH whose connection
  is reset, possibly after it took effect, ends in a 500 without a row
  (`ApplyEscapes`), as does a reset access review. And a PUT or DELETE that took
  effect unheard is recorded under the answer to its repetition: as a conflict, a
  denial or a failure, although the object was changed. `EveryEndIsRecorded` and
  `TrailTellsTheTruth` say what holds: everything else has its row, a success is
  never claimed falsely, and a refusal of anything sent once changed nothing.
* **A save during a discovery fetch.** `discovery` reads the configuration
  (`oidc.py:237`), fetches, and stamps the cache when it has the answer (`:298`).
  A save in between leaves the issuer it replaces cached for a whole lifetime, and
  a slow fetch replaces a newer document. `SessionIsVouchedFor` counts the age of a
  document from its arrival, and goes back to when it was asked for.
* **A channel call that never returns.** `NothingLeftBehind` is a promise of the code
  (`logs.py:580`, "makes a reader thread notice a closed tab") with
  this one exception, which `exec_ws.py:263` calls "Worth fixing; it is not fixed
  here".
* **What a form forgets.** "What the form does not model, it does not touch"
  (`admin/routes.py:29-30`), and "every requested feature this backend cannot
  express" is reported (`:525`). A named port of an HTTPRoute's target "is left out
  and reported" (`:806-807`) and only left out, and a Route has the first target's
  port for all. `_compile_httproute` replaces all rules and host names (`:790`, `:827`)
  and `_compile_ingress` all TLS entries (`:751-765`); `preserved[]` lists what is
  left, not what went. And the console's own dialog renders with the document and
  writes without it (`RouteDialog.jsx:541` and `:588`), so that an update through
  the form keeps nothing the form does not show, annotations included; the diff of
  the dry run is where an operator can see it. `ExposureIsExpressedOrNamed` promises
  what is left: features, the other ports, and the annotations and other rules of an
  Ingress when the document is sent along.
* **A count that is not known.** `_deployment_state` says of a status of an older
  generation that "how many replicas are ready is not known yet"
  (`olm.py:1121-1122`), and `packageServer` keeps "unknown" apart; `status` counts it
  as not ready (`:1239-1241`): `ready: false` of an Operator Lifecycle Manager that
  may well be working. `PagesTellTheTruth` excepts this one (`CountIsUnknown`).
* **A build that fails from file to file.** `build_configuration` says that "this
  function owns the cleanup contract: everything it spills comes back in the tuple"
  (`client.py:359-361`). When it raises, nothing comes back: a certificate whose key
  cannot be written, or both when the CA cannot (`:363-384`), stay on the disk.
  `FilesAreAccountedFor` names them as one of the three kinds that are left.
* The last administrator can be removed by two concurrent changes that each
  count the other (`api/auth.py:929`); `GuardKeepsAnAdministrator` states what
  the guard does keep.
* A sign-in under way while its account is deactivated leaves a session that is
  listed as one that can act (`api/auth.py:807`) and cannot. One under way while its
  password is changed leaves a session that can: only the sessions there are by then
  are ended (`:948`), and `EndedSessionsStayEnded` speaks of those.
* Two tabs of one browser overwrite each other's sign-in cookie: the first to
  return is refused.
* An enumeration in flight across `invalidate_cache` stores the old catalogue for
  another minute, so OLM's second phase may find the definitions it has just
  established unsupported and report its objects failed (`olm.py:767`). A
  cluster's registration needs no invalidation, as the cache is keyed by
  `updated_at`.
* The operator catalogue says `installed: false` when the listing of
  Subscriptions was cut, and says in `truncated` that it was.
* `delete` sends no precondition anywhere: not for an object, a namespace, a pod
  evicted by name, or a router's object found to be ours a moment before.

## Not modelled, and why

* The services that shape one answer, or two joined, into one response
  (`resources/shaping.py`, `services/workloads.py` and its neighbours), HTTP
  plumbing and the frontend: functions of their inputs, without state or order.
  A model of them would repeat their text.
* The audit listing and export: reads, one SELECT per page. That a cursor by id
  misses no chained row is `VisibleInIdOrder`.
* Signatures, certificates, tokens and group lists of the identity providers,
  passwords, CSRF tokens, the creation of users. Each is a choice of outcome
  where it matters.
* The websocket hijack of `k8s/client.py:257`: one constructor call of a library
  with a `finally` clause, below the grain of `ClientCache`.
* The one-shot download of a log.
* Debug containers, the CLI pod, rollouts, images and access reviews: they use
  the funnel as modelled, with parameters of their own that are not modelled.
* Two overlapping saves of one provider: the later one writes the fields it
  merged, and the code promises nothing else.
* Exceptions of Python code that are neither the API server's nor an
  `AdminError`, except the transport's, in `WriteFunnel`. The other modules that
  write (`Drain`, `Installers`, `Acknowledged`) know a failed and a lost answer,
  not a repeated PUT or DELETE nor an unmapped `ProtocolError`: one in the middle
  of a drain or an install ends the request in a 500 with no aggregate row, and
  nothing is said of what it would have answered.
* The append-only guard of the ORM is the absence of any action that changes a
  row, and `Outsider` is what it cannot stop.

## Plan

1. Theorems that go beyond what the runs check: which of a write's steps may touch
   what (action properties of `Acknowledged`, `Drain` and `Installers`), and an
   abstract handshake that the ten writers implement.
2. The writers that open a workbench (`debug.py`, `node_debug.py`, `cli_pod.py`),
   rollouts and image changes as parameters of `Acknowledged`.
3. Cursors over the growing audit table.
