---------------------------- MODULE ClientCache -----------------------------
(***************************************************************************)
(* k8s/client.py: the per-process cache of a cluster's API clients, as the *)
(* request threads use it (get_clients), and the endpoints of              *)
(* api/clusters.py that change the registered row under it: register,      *)
(* update, delete and the connection test.  Nothing is locked; a bundle is *)
(* shared by every thread of the process, and closing it deletes the       *)
(* credential files its transport reads.                                   *)
(*                                                                         *)
(* k8s/impersonation.py decides, per request, as whom the cluster is       *)
(* called.                                                                 *)
(***************************************************************************)
EXTENDS Startup

CONSTANTS
  Operation,    \* what the threads do, a subset of Operations
  MaxOps,       \* bound: how many operations are begun
  Principals    \* the sessions requests come with, NULL for none

Operations == {"request", "test", "register", "update", "delete"}

ASSUME OperationAssumption == Operation \subseteq Operations /\ MaxOps \in Nat

VARIABLES
  bundles,  \* every bundle ever built or begun, in order
  cache,    \* _cache of each replica: the numbers of its bundles
  op,       \* what each thread does
  who,      \* for whom
  pc,       \* where it is
  saw,      \* the row it has loaded
  acts,     \* the contextvar: as whom its calls are made
  holds,    \* the bundle it uses
  ops,      \* how many operations were begun
  answer    \* history: the last answer that was given

clients == <<bundles, cache>>
thread  == <<op, who, pc, saw, acts, holds>>
startup == <<schema, boot, progress, crashes>>

ThreadInit ==
  /\ op = [t \in Thread |-> NULL]
  /\ who = [t \in Thread |-> NULL]
  /\ pc = [t \in Thread |-> "idle"]
  /\ saw = [t \in Thread |-> NULL]
  /\ acts = [t \in Thread |-> NULL]
  /\ holds = [t \in Thread |-> NULL]
  /\ answer = NULL

Goes(t, to) == pc' = [pc EXCEPT ![t] = to]

Answered(t, what) ==
  /\ Goes(t, "idle")
  /\ op' = [op EXCEPT ![t] = NULL]
  /\ who' = [who EXCEPT ![t] = NULL]
  /\ saw' = [saw EXCEPT ![t] = NULL]
  /\ acts' = [acts EXCEPT ![t] = NULL]
  /\ holds' = [holds EXCEPT ![t] = NULL]
  /\ answer' = what

\* ClusterClients.close: the transport, and the files it reads.
Closed(i) == [bundles EXCEPT ![i].state = "closed"]
ClosedIfAny(i) == IF i = NULL THEN bundles ELSE Closed(i)

-----------------------------------------------------------------------------
(* impersonation.decide *)

\* Only a session that states a name and groups the cluster would derive itself.
Qualifies(principal) ==
  /\ principal # NULL
  /\ principal.source \in {"oidc", "openshift"}
  /\ principal.idp_username # NULL
  /\ principal.idp_groups # NULL

\* It refuses rather than falls back to the console's own identity.
Decided(principal, cluster) == cluster.impersonate => Qualifies(principal)

TheConsole == "the console's ServiceAccount"

Identity(principal, cluster) ==
  IF cluster.impersonate THEN principal.idp_username ELSE TheConsole

\* Fault: the identity is a property of the transport.
HeadersPinned(t, bundle) == bundle.by

\* The headers come from the request, on a transport that may carry them at all.
Headers(t, bundle) == IF bundle.impersonatable THEN acts[t] ELSE TheConsole

-----------------------------------------------------------------------------
(* get_clients *)

Begin(t) ==
  /\ pc[t] = "idle"
  /\ boot[home[t]] = "serving"
  /\ ops < MaxOps
  /\ ops' = ops + 1
  /\ answer' = NULL
  /\ \E o \in Operation :
       /\ op' = [op EXCEPT ![t] = o]
       /\ Goes(t, CASE o = "request" -> "load"
                    [] o = "register" -> "encrypt"
                    [] OTHER -> "row")
  /\ UNCHANGED <<keys, startup, registry, clients, who, saw, acts, holds>>

\* The session of the request is the contextvar's, the row the registry's.
LoadRow(t) ==
  /\ pc[t] = "load"
  /\ row # NULL
  /\ \E principal \in Principals :
       /\ Decided(principal, row)
       /\ who' = [who EXCEPT ![t] = principal]
       /\ acts' = [acts EXCEPT ![t] = Identity(principal, row)]
  /\ saw' = [saw EXCEPT ![t] = row]
  /\ Goes(t, "lookup")
  /\ UNCHANGED <<keys, startup, registry, clients, op, holds, ops, answer>>

\* NotFound, or ImpersonationUnavailable.
LoadRefused(t) ==
  /\ pc[t] = "load"
  /\ IF row = NULL
     THEN Answered(t, [refused |-> "not_found"])
     ELSE /\ \E principal \in Principals : ~Decided(principal, row)
          /\ Answered(t, [refused |-> "impersonation_unavailable"])
  /\ UNCHANGED <<keys, startup, registry, clients, ops>>

\* Fault: the cache is keyed by the cluster alone.
SameCluster(bundle, cluster) == TRUE

\* _cache_key: by updated_at, which every change of the row sets.
SameKey(bundle, cluster) == bundle.stamp = cluster.stamp

\* _cache.get(cluster.id), or NULL.
Cached(t) ==
  LET found == {i \in cache[home[t]] : bundles[i].id = saw[t].id} IN
  IF found = {} THEN NULL ELSE CHOOSE i \in found : TRUE

Usable(t) == Cached(t) # NULL /\ SameKey(bundles[Cached(t)], saw[t])

LookupHit(t) ==
  /\ pc[t] = "lookup"
  /\ Usable(t)
  /\ holds' = [holds EXCEPT ![t] = Cached(t)]
  /\ Goes(t, "call")
  /\ UNCHANGED <<keys, startup, registry, clients, op, who, saw, acts, ops, answer>>

\* A bundle with another key is closed, whoever may be using it.
LookupMiss(t) ==
  /\ pc[t] = "lookup"
  /\ ~Usable(t)
  /\ bundles' = ClosedIfAny(Cached(t))
  /\ holds' = [holds EXCEPT ![t] = Cached(t)]
  /\ Goes(t, "build")
  /\ UNCHANGED <<keys, startup, registry, cache, op, who, saw, acts, ops, answer>>

\* The key that reads, or fails to read, what the row holds.
NeedsKey(t) ==
  /\ pc[t] \in {"build", "transient", "encrypt"}
  /\ KeyStep(t)
  /\ UNCHANGED <<startup, registry, clients, thread, ops, answer>>

CanDecrypt(t) == keyPc[t] = "ready" /\ key[t] = saw[t].key

Bundle(cluster, p, impersonatable, by, after) ==
  [id |-> cluster.id, stamp |-> cluster.stamp, content |-> cluster.content, home |-> p,
   impersonatable |-> impersonatable, by |-> by, after |-> after, state |-> "open"]

Build(t, next) ==
  /\ CanDecrypt(t)
  /\ bundles' = Append(bundles, Bundle(saw[t], home[t], next = "store", acts[t], holds[t]))
  /\ holds' = [holds EXCEPT ![t] = Len(bundles) + 1]
  /\ KeyDone(t)
  /\ Goes(t, next)
  /\ UNCHANGED <<startup, registry, cache, op, who, saw, acts, ops, answer>>

\* create_client decrypts, writes the files and builds the transport.
BuildClients(t) == pc[t] = "build" /\ Build(t, "store")

BuildFails(t) ==
  /\ pc[t] = "build"
  /\ keyPc[t] \in {"ready", "failed"} /\ ~CanDecrypt(t)
  /\ KeyDone(t)
  /\ Answered(t, [refused |-> "undecryptable"])
  /\ UNCHANGED <<startup, registry, clients, ops>>

\* _write_temp fails, for the first file or a later one.  Nobody has the paths of the
\* files that are there by then.
HalfBuilt(t) == [Bundle(saw[t], home[t], FALSE, NULL, NULL) EXCEPT !.state = "unfinished"]

SpillFails(t) ==
  /\ CanDecrypt(t)
  /\ bundles' = Append(bundles, HalfBuilt(t)) \/ UNCHANGED bundles
  /\ KeyDone(t)

BuildSpills(t) ==
  /\ pc[t] = "build"
  /\ SpillFails(t)
  /\ Answered(t, [refused |-> "internal_error"])
  /\ UNCHANGED <<startup, registry, cache, ops>>

\* A bundle cached since the lookup is overwritten, and nobody will close it.
Store(t) ==
  LET other == Cached(t) IN
  /\ pc[t] = "store"
  /\ cache' = [cache EXCEPT ![home[t]] = (@ \ {other}) \union {holds[t]}]
  /\ bundles' = IF other \notin {NULL, bundles[holds[t]].after}
                THEN [bundles EXCEPT ![other].state = IF @ = "open" THEN "overwritten" ELSE @]
                ELSE bundles
  /\ Goes(t, "call")
  /\ UNCHANGED <<keys, startup, registry, op, who, saw, acts, holds, ops, answer>>

\* The API server answers.  A bundle closed meanwhile may have no credential files
\* to connect with.
Call(t) ==
  LET bundle == bundles[holds[t]] IN
  /\ pc[t] = "call"
  /\ \/ Answered(t, [content |-> bundle.content, asked |-> saw[t].content,
                     as |-> Headers(t, bundle), expected |-> Identity(who[t], saw[t])])
     \/ bundle.state = "closed" /\ Answered(t, [refused |-> "cluster_unreachable"])
  /\ UNCHANGED <<keys, startup, registry, clients, ops>>

-----------------------------------------------------------------------------
(* api/clusters.py *)

\* Fault: popped, and not closed.
Popped(p, id) ==
  /\ cache' = [cache EXCEPT ![p] = {i \in @ : bundles[i].id # id}]
  /\ UNCHANGED bundles

\* manager.invalidate: popped, and closed.
Invalidated(p, id) ==
  /\ cache' = [cache EXCEPT ![p] = {i \in @ : bundles[i].id # id}]
  /\ bundles' = [i \in DOMAIN bundles |->
       IF i \in cache[p] /\ bundles[i].id = id THEN [bundles[i] EXCEPT !.state = "closed"]
                                               ELSE bundles[i]]

\* The endpoints that work on a row load it first.
LoadForChange(t) ==
  /\ pc[t] = "row"
  /\ IF row # NULL
     THEN /\ saw' = [saw EXCEPT ![t] = row]
          /\ Goes(t, CASE op[t] = "test" -> "drop"
                       [] op[t] = "update" -> "encrypt"
                       [] op[t] = "delete" -> "delete")
          /\ UNCHANGED <<op, who, acts, holds, answer>>
     ELSE Answered(t, [refused |-> "not_found"])
  /\ UNCHANGED <<keys, startup, registry, clients, ops>>

\* The credential of the form is encrypted before anything is saved.
EncryptFails(t) ==
  /\ pc[t] = "encrypt"
  /\ keyPc[t] = "failed"
  /\ KeyDone(t)
  /\ Answered(t, [refused |-> "internal_error"])
  /\ UNCHANGED <<startup, registry, clients, ops>>

StillThere(t) == row # NULL /\ row.id = saw[t].id

\* create_cluster, import_cluster: the UNIQUE name decides.
Register(t) ==
  /\ pc[t] = "encrypt"
  /\ op[t] = "register"
  /\ keyPc[t] = "ready"
  /\ IF row = NULL
     THEN \E impersonate \in BOOLEAN :
            /\ row' = Row(stamp + 1, key[t], "manual", impersonate)
            /\ stamp' = stamp + 1
            /\ Answered(t, NULL)
     ELSE Answered(t, [refused |-> "conflict"]) /\ UNCHANGED registry
  /\ KeyDone(t)
  /\ UNCHANGED <<startup, clients, ops>>

\* update_cluster: an omitted credential keeps the stored one.  It drops the
\* transport of its own process after the COMMIT.
Update(t) ==
  /\ pc[t] = "encrypt"
  /\ op[t] = "update"
  /\ keyPc[t] \in {"idle", "ready"}
  /\ IF StillThere(t)
     THEN /\ \E impersonate \in BOOLEAN :
               row' = [Row(stamp + 1, IF keyPc[t] = "ready" THEN key[t] ELSE row.key,
                           row.origin, impersonate) EXCEPT !.id = row.id]
          /\ stamp' = stamp + 1
          /\ Goes(t, "invalidate")
          /\ UNCHANGED <<op, who, saw, acts, holds, answer>>
     ELSE Answered(t, [refused |-> "internal_error"]) /\ UNCHANGED registry
  /\ IF keyPc[t] = "ready" THEN KeyDone(t) ELSE UNCHANGED keys
  /\ UNCHANGED <<startup, clients, ops>>

Delete(t) ==
  /\ pc[t] = "delete"
  /\ row' = IF StillThere(t) THEN NULL ELSE row
  /\ Goes(t, "invalidate")
  /\ UNCHANGED <<keys, startup, stamp, clients, op, who, saw, acts, holds, ops, answer>>

Invalidate(t) ==
  /\ pc[t] = "invalidate"
  /\ Invalidated(home[t], saw[t].id)
  /\ Answered(t, NULL)
  /\ UNCHANGED <<keys, startup, registry, ops>>

\* test_cluster drops the cached transport.
Drop(t) ==
  /\ pc[t] = "drop"
  /\ Invalidated(home[t], saw[t].id)
  /\ Goes(t, "transient")
  /\ UNCHANGED <<keys, startup, registry, op, who, saw, acts, holds, ops, answer>>

\* An uncached bundle, as the console.
BuildTransient(t) == pc[t] = "transient" /\ Build(t, "try")

\* A credential that cannot be read is a result of the test as well.
TransientFails(t) ==
  /\ pc[t] = "transient"
  /\ keyPc[t] \in {"ready", "failed"} /\ ~CanDecrypt(t)
  /\ KeyDone(t)
  /\ Goes(t, "unreachable")
  /\ UNCHANGED <<startup, registry, clients, op, who, saw, acts, holds, ops, answer>>

TransientSpills(t) ==
  /\ pc[t] = "transient"
  /\ SpillFails(t)
  /\ Goes(t, "unreachable")
  /\ UNCHANGED <<startup, registry, cache, op, who, saw, acts, holds, ops, answer>>

\* The cluster answers or does not; the bundle is closed either way.
Try(t) ==
  /\ pc[t] = "try"
  /\ bundles' = Closed(holds[t])
  /\ holds' = [holds EXCEPT ![t] = NULL]
  /\ \E result \in {"reachable", "unreachable"} : Goes(t, result)
  /\ UNCHANGED <<keys, startup, registry, cache, op, who, saw, acts, ops, answer>>

\* The result is written to the row as it is by now, if it still is: a new
\* updated_at.  The preflight that follows goes through get_clients.
WriteResult(t) ==
  /\ pc[t] \in {"reachable", "unreachable"}
  /\ row' = IF StillThere(t) THEN [row EXCEPT !.stamp = stamp + 1] ELSE row
  /\ stamp' = IF StillThere(t) THEN stamp + 1 ELSE stamp
  /\ IF pc[t] = "reachable"
     THEN Goes(t, "load") /\ UNCHANGED <<op, who, saw, acts, holds, answer>>
     ELSE Answered(t, [refused |-> "unreachable"])
  /\ UNCHANGED <<keys, startup, clients, ops>>

GetClients(t) ==
  \/ LoadRow(t) \/ LoadRefused(t) \/ LookupHit(t) \/ LookupMiss(t)
  \/ NeedsKey(t) \/ BuildClients(t) \/ BuildFails(t) \/ BuildSpills(t) \/ Store(t) \/ Call(t)

ThreadStep(t) ==
  \/ GetClients(t) \/ LoadForChange(t) \/ EncryptFails(t) \/ Register(t) \/ Update(t)
  \/ Delete(t) \/ Invalidate(t) \/ Drop(t) \/ BuildTransient(t) \/ TransientFails(t)
  \/ TransientSpills(t) \/ Try(t) \/ WriteResult(t)
=============================================================================
