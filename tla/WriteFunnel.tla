---------------------------- MODULE WriteFunnel -----------------------------
(***************************************************************************)
(* The write funnel, app/admin/mutate.py, with the preflight in front of   *)
(* it, the writers that go through it (apply.py's replace, delete and      *)
(* create, hpa.py's bounds, scale.py's scale, routes.py's create and       *)
(* node_debug.py's pod) and the audit row at its end.                      *)
(*                                                                         *)
(* Several requests, each in its own thread, work on one object of one     *)
(* cluster, which others (controllers, kubectl) change too.  The API       *)
(* server is external: a call to it is atomic there, it may refuse, fail,  *)
(* or succeed while the answer is lost.  What becomes of a lost answer is  *)
(* the transport's doing (k8s/client.py): urllib3 sends a PUT or a DELETE  *)
(* again, a POST or PATCH that ran into the read deadline is translated to *)
(* ClusterUnreachable, and one whose connection was reset is not.          *)
(* audit.recorder.record is taken as AuditTrail specifies it: at most one  *)
(* row, and an id only for a row.                                          *)
(***************************************************************************)
EXTENDS Naturals, Sequences, FiniteSets

CONSTANTS
  Write,          \* the requests
  MaxVersion,     \* bound: how many resourceVersions the object goes through
  Resends,        \* how often urllib3 sends an unanswered PUT or DELETE again
  NULL

ASSUME MaxVersionAssumption == MaxVersion \in Nat
ASSUME ResendsAssumption == Resends \in Nat

Kind == {"replace", "bounds", "scale", "delete", "route", "pod"}
Creates == {"route", "pod"}
\* Sent as PUT and DELETE, methods urllib3 may repeat; the others are PATCH and POST.
Resendable == {"replace", "delete"}
Permission == {"object", "scale", "custom-host"}
Outcome == {"applied", "dry_run", "denied", "conflict", "failed"}

\* What the variables below hold, NULL where there is none yet.
Objects == [version : Nat, by : Write \union {"initial", "other"}]
Live == Objects \union {NULL}
Requests == [kind : Kind, dry : BOOLEAN, seen : Nat \union {NULL}]
Effects == [replaced : Live, stored : Live]
Diffs == [before : Live, after : Live]
AuditRows ==
  [write : Write, outcome : Outcome, target : Permission, diff : Diffs \union {NULL}]
Refusals == [by : {"gate", "review", "server", "nobody"}, target : Permission]
Answers ==
  [error : Outcome \union {"not_found", "unread", "internal"}] \union [applied : BOOLEAN, auditId : {"id", NULL}]

ASSUME NullAssumption ==
  /\ NULL \notin Nat \union {"id"}
  /\ NULL \notin Objects \union Requests \union Effects \union Diffs
  /\ NULL \notin AuditRows \union Refusals \union Answers

VARIABLES
  object,     \* the object on the API server, or NULL
  version,    \* the newest resourceVersion the API server has given out
  closed,     \* the deployment's switches that are off
  pc,         \* where each request is
  req,        \* what each request asks for
  before,     \* the live object the handler read
  need,       \* how many of the request's requirements have been reviewed
  due,        \* the audit row to be written, and the error to be raised
  trail,      \* the audit rows
  answer,     \* the HTTP response
  resent,     \* how often its call took effect unheard and was sent again
  effect,     \* history: what the request replaced on the cluster, and by what
  refusal,    \* history: who refused it, and what was refused
  unrecorded  \* history: the requests whose record() failed

vars == <<object, version, closed, pc, req, before, need, due, trail, answer, resent, effect,
          refusal, unrecorded>>
quiet == <<object, version, closed, req, trail, answer, resent, effect, unrecorded>>

\* Each feature's switches, console-wide one first, and whether a closed one
\* withholds the dry run too.
Gate(kind) ==
  IF kind = "pod"
  THEN {[setting |-> "mutations", withholds |-> TRUE],
        [setting |-> "feature",   withholds |-> TRUE]}
  ELSE {[setting |-> "mutations", withholds |-> FALSE]}

\* FeatureGate.closed
Closed(w) ==
  \E s \in Gate(req[w].kind) :
    s.setting \in closed /\ (req[w].dry => s.withholds)

\* What preflight reviews, in order: the verb on the object or the subresource the
\* write uses, then also_requires.
Requirements(kind) ==
  CASE kind = "scale" -> <<"scale">>
    [] kind = "route" -> <<"object", "custom-host">>
    [] OTHER          -> <<"object">>

Target(kind) == Requirements(kind)[1]

\* Fault: the versions are only compared locally.
SendsNoVersion(w) == NULL

\* The resourceVersion the request to the API server carries: the caller's, so
\* that the API server repeats the comparison when it matters.
SentVersion(w) ==
  CASE req[w].kind = "replace" -> req[w].seen
    [] req[w].kind = "bounds"  -> IF req[w].seen # NULL THEN req[w].seen
                                                        ELSE before[w].version
    [] OTHER -> NULL

Object(v, by) == [version |-> v, by |-> by]

\* The object w's call leaves behind, or is projected to.
Stored(w) == IF req[w].kind = "delete" THEN NULL ELSE Object(version + 1, w)

\* Only a success has a diff: the object read before, and what it became.
Row(w, outcome, target, diff) ==
  [write |-> w, outcome |-> outcome, target |-> target, diff |-> diff]

Diff(w) == [before |-> before[w], after |-> Stored(w)]

-----------------------------------------------------------------------------
Init ==
  /\ object \in {NULL, Object(1, "initial")}
  /\ version = 1
  /\ closed \in SUBSET {"mutations", "feature"}
  /\ pc = [w \in Write |-> "idle"]
  /\ req = [w \in Write |-> NULL]
  /\ before = [w \in Write |-> NULL]
  /\ need = [w \in Write |-> 0]
  /\ due = [w \in Write |-> NULL]
  /\ trail = {}
  /\ answer = [w \in Write |-> NULL]
  /\ resent = [w \in Write |-> 0]
  /\ effect = [w \in Write |-> NULL]
  /\ refusal = [w \in Write |-> NULL]
  /\ unrecorded = {}

\* The operator fills in a form about the object as it is on the screen then.  A
\* replace must carry the version shown, new bounds may.
Submit(w) ==
  /\ pc[w] = "idle"
  /\ \E kind \in Kind, dry \in BOOLEAN, seen \in {NULL, IF object = NULL THEN NULL ELSE object.version} :
       /\ object # NULL \/ kind \in Creates
       /\ kind = "replace" => seen # NULL
       /\ kind \notin {"replace", "bounds"} => seen = NULL
       /\ req' = [req EXCEPT ![w] = [kind |-> kind, dry |-> dry, seen |-> seen]]
  /\ pc' = [pc EXCEPT ![w] = "read"]
  /\ UNCHANGED <<object, version, closed, before, need, due, trail, answer, resent, effect,
                 refusal, unrecorded>>

\* What ends the request: this row, then this error (or the response).
Conclude(w, outcome, target, diff) ==
  /\ due' = [due EXCEPT ![w] = Row(w, outcome, target, diff)]
  /\ pc' = [pc EXCEPT ![w] = "audit"]

\* The request is over and the handler's locals are gone.
Ends(w, how) ==
  /\ pc' = [pc EXCEPT ![w] = how]
  /\ before' = [before EXCEPT ![w] = NULL]
  /\ need' = [need EXCEPT ![w] = 0]
  /\ due' = [due EXCEPT ![w] = NULL]

Refused(w, by, target) == refusal' = [refusal EXCEPT ![w] = [by |-> by, target |-> target]]

\* The handler reads the live object (a create has none to read).  hpa.set_bounds
\* compares versions here, before the funnel, and records the conflict itself
\* (audit_conflict).
StaleBounds(w) == req[w].kind = "bounds" /\ req[w].seen \notin {NULL, object.version}

ReadLive(w) ==
  /\ pc[w] = "read"
  /\ IF req[w].kind \in Creates
     THEN UNCHANGED before
     ELSE /\ object # NULL
          /\ ~StaleBounds(w)
          /\ before' = [before EXCEPT ![w] = object]
  /\ pc' = [pc EXCEPT ![w] = "gate"]
  /\ UNCHANGED quiet /\ UNCHANGED <<need, due, refusal>>

ReadConflict(w) ==
  /\ pc[w] = "read"
  /\ object # NULL
  /\ StaleBounds(w)
  /\ Conclude(w, "conflict", "object", NULL)
  /\ UNCHANGED quiet /\ UNCHANGED <<before, need, refusal>>

\* The request ends in this error, without a row.
EndsUnrecorded(w, error) ==
  /\ answer' = [answer EXCEPT ![w] = [error |-> error]]
  /\ Ends(w, "done")
  /\ UNCHANGED <<closed, req, trail, resent, refusal, unrecorded>>

\* No object, or no answer about it, and no write: an error before the funnel.
ReadFails(w) ==
  /\ pc[w] = "read"
  /\ req[w].kind \notin Creates
  /\ \E error \in {"not_found", "unread"} :
       /\ error = "not_found" => object = NULL
       /\ EndsUnrecorded(w, error)
  /\ UNCHANGED <<object, version, effect>>

\* 1. The gate.
GateOpen(w) ==
  /\ pc[w] = "gate"
  /\ ~Closed(w)
  /\ need' = [need EXCEPT ![w] = 1]
  /\ pc' = [pc EXCEPT ![w] = "review"]
  /\ UNCHANGED quiet /\ UNCHANGED <<before, due, refusal>>

GateClosed(w) ==
  /\ pc[w] = "gate"
  /\ Closed(w)
  /\ Conclude(w, "denied", Target(req[w].kind), NULL)
  /\ Refused(w, "gate", Target(req[w].kind))
  /\ UNCHANGED quiet /\ UNCHANGED <<before, need>>

\* 2. Preflight: one SelfSubjectAccessReview per requirement.
Required(w) == Requirements(req[w].kind)[need[w]]

ReviewAllowed(w) ==
  /\ pc[w] = "review"
  /\ IF need[w] = Len(Requirements(req[w].kind))
     THEN pc' = [pc EXCEPT ![w] = "apply"] /\ UNCHANGED need
     ELSE need' = [need EXCEPT ![w] = @ + 1] /\ UNCHANGED pc
  /\ UNCHANGED quiet /\ UNCHANGED <<before, due, refusal>>

\* Fault: every refused review is recorded against the object.
DeniedObject(w) ==
  /\ pc[w] = "review"
  /\ Conclude(w, "denied", Target(req[w].kind), NULL)
  /\ Refused(w, "review", Required(w))
  /\ UNCHANGED quiet /\ UNCHANGED <<before, need>>

ReviewDenied(w) ==
  /\ pc[w] = "review"
  /\ Conclude(w, "denied", Required(w), NULL)
  /\ Refused(w, "review", Required(w))
  /\ UNCHANGED quiet /\ UNCHANGED <<before, need>>

\* The review could not be issued, or the authorizer failed while denying.
ReviewUndecided(w) ==
  /\ pc[w] = "review"
  /\ Conclude(w, "failed", Required(w), NULL)
  /\ Refused(w, "nobody", Required(w))
  /\ UNCHANGED quiet /\ UNCHANGED <<before, need>>

\* The review is a POST whose connection was reset: neither the transport nor require
\* knows the exception, and the request ends in a 500.
ReviewEscapes(w) ==
  /\ pc[w] = "review"
  /\ EndsUnrecorded(w, "internal")
  /\ UNCHANGED <<object, version, effect>>

\* 3. Apply.  update_from_yaml compares the versions inside the closure.
StaleLocally(w) == req[w].kind = "replace" /\ req[w].seen # before[w].version

ApplyStale(w) ==
  /\ pc[w] = "apply"
  /\ StaleLocally(w)
  /\ Conclude(w, "conflict", Target(req[w].kind), NULL)
  /\ UNCHANGED quiet /\ UNCHANGED <<before, need, refusal>>

\* The API server refuses (403), or fails, before it does anything.
ApplyForbidden(w) ==
  /\ pc[w] = "apply"
  /\ ~StaleLocally(w)
  /\ Conclude(w, "denied", Target(req[w].kind), NULL)
  /\ Refused(w, "server", Target(req[w].kind))
  /\ UNCHANGED quiet /\ UNCHANGED <<before, need>>

ApplyFailed(w) ==
  /\ pc[w] = "apply"
  /\ ~StaleLocally(w)
  /\ Conclude(w, "failed", Target(req[w].kind), NULL)
  /\ UNCHANGED quiet /\ UNCHANGED <<before, need, refusal>>

\* 409: the object exists already, or is not the version the request names.
Collides(w) ==
  /\ object # NULL
  /\ \/ req[w].kind \in Creates
     \/ SentVersion(w) # NULL /\ SentVersion(w) # object.version

ApplyConflict(w) ==
  /\ pc[w] = "apply"
  /\ ~StaleLocally(w)
  /\ Collides(w)
  /\ Conclude(w, "conflict", Target(req[w].kind), NULL)
  /\ UNCHANGED quiet /\ UNCHANGED <<before, need, refusal>>

\* The API server carries the call out.
Accepts(w) ==
  /\ ~StaleLocally(w)
  /\ ~Collides(w)
  /\ object # NULL \/ req[w].kind \in Creates

TakesEffect(w) ==
  /\ version < MaxVersion
  /\ object' = Stored(w)
  /\ version' = version + 1
  /\ effect' = [effect EXCEPT ![w] = [replaced |-> object, stored |-> Stored(w)]]

\* Fault: ?dryRun=All is forgotten on this path.
DryRunApplies(w) ==
  /\ pc[w] = "apply"
  /\ req[w].dry
  /\ Accepts(w)
  /\ TakesEffect(w)
  /\ Conclude(w, "dry_run", Target(req[w].kind), Diff(w))
  /\ UNCHANGED <<closed, req, trail, answer, resent, unrecorded, before, need, refusal>>

\* 4. The diff is between what was read before and what the API server answers.
ApplyProjected(w) ==
  /\ pc[w] = "apply"
  /\ req[w].dry
  /\ Accepts(w)
  /\ Conclude(w, "dry_run", Target(req[w].kind), Diff(w))
  /\ UNCHANGED quiet /\ UNCHANGED <<before, need, refusal>>

ApplyDone(w) ==
  /\ pc[w] = "apply"
  /\ ~req[w].dry
  /\ Accepts(w)
  /\ TakesEffect(w)
  /\ Conclude(w, "applied", Target(req[w].kind), Diff(w))
  /\ UNCHANGED <<closed, req, trail, answer, resent, unrecorded, before, need, refusal>>

\* The call took effect, no answer arrived, and the transport sends it again: whatever
\* the API server says to the second request is what the funnel hears.
Resend(w) ==
  /\ pc[w] = "apply"
  /\ ~req[w].dry
  /\ req[w].kind \in Resendable
  /\ resent[w] < Resends
  /\ Accepts(w)
  /\ TakesEffect(w)
  /\ resent' = [resent EXCEPT ![w] = @ + 1]
  /\ UNCHANGED <<closed, pc, req, before, need, due, trail, answer, refusal, unrecorded>>

\* Fault: mutate's except clause has no AdminError, such as cluster_unreachable.
UnreachableEscapes(w) ==
  /\ pc[w] = "apply"
  /\ ~req[w].dry
  /\ Accepts(w)
  /\ TakesEffect(w)
  /\ EndsUnrecorded(w, "failed")

\* The call took effect but no answer arrived, at the read deadline of a POST or PATCH
\* or to the last of the requests sent: cluster_unreachable to the caller.
ApplyAnswerLost(w) ==
  /\ pc[w] = "apply"
  /\ ~req[w].dry
  /\ Accepts(w)
  /\ TakesEffect(w)
  /\ Conclude(w, "failed", Target(req[w].kind), NULL)
  /\ UNCHANGED <<closed, req, trail, answer, resent, unrecorded, before, need, refusal>>

\* The connection of a POST or PATCH is reset, before or after the API server carried it
\* out: urllib3's ProtocolError is no ApiException and no AdminError, passes mutate
\* by, and becomes a 500.
ApplyEscapes(w) ==
  /\ pc[w] = "apply"
  /\ req[w].kind \notin Resendable
  /\ EndsUnrecorded(w, "internal")
  /\ \/ UNCHANGED <<object, version, effect>>
     \/ ~req[w].dry /\ Accepts(w) /\ TakesEffect(w)

\* 5. The row, then the answer.
Respond(w, auditId) ==
  /\ answer' = [answer EXCEPT ![w] =
       IF due[w].outcome \in {"applied", "dry_run"}
       THEN [applied |-> ~req[w].dry, auditId |-> auditId]
       ELSE [error |-> due[w].outcome]]
  /\ Ends(w, "done")
  /\ UNCHANGED <<object, version, closed, req, resent, effect, refusal>>

AuditWritten(w) ==
  /\ pc[w] = "audit"
  /\ trail' = trail \union {due[w]}
  /\ UNCHANGED unrecorded
  /\ \E auditId \in {"id", NULL} : Respond(w, auditId)

\* A failed INSERT never fails the write.
AuditFailed(w) ==
  /\ pc[w] = "audit"
  /\ unrecorded' = unrecorded \union {w}
  /\ UNCHANGED trail
  /\ Respond(w, NULL)

\* The process serving the request dies.
Crash(w) ==
  /\ pc[w] \notin {"idle", "done", "crashed"}
  /\ Ends(w, "crashed")
  /\ UNCHANGED quiet /\ UNCHANGED refusal

\* A controller, or somebody with kubectl, changes, deletes or creates the object.
SomebodyElse ==
  /\ version < MaxVersion
  /\ object' \in {NULL, Object(version + 1, "other")}
  /\ object # object'
  /\ version' = version + 1
  /\ UNCHANGED <<closed, pc, req, before, need, due, trail, answer, resent, effect, refusal,
                 unrecorded>>

Next ==
  \/ \E w \in Write :
       \/ Submit(w) \/ ReadLive(w) \/ ReadConflict(w) \/ ReadFails(w)
       \/ GateOpen(w) \/ GateClosed(w)
       \/ ReviewAllowed(w) \/ ReviewDenied(w) \/ ReviewUndecided(w) \/ ReviewEscapes(w)
       \/ ApplyStale(w) \/ ApplyForbidden(w) \/ ApplyFailed(w) \/ ApplyConflict(w)
       \/ ApplyProjected(w) \/ ApplyDone(w) \/ Resend(w) \/ ApplyAnswerLost(w)
       \/ ApplyEscapes(w)
       \/ AuditWritten(w) \/ AuditFailed(w) \/ Crash(w)
  \/ SomebodyElse

Spec == Init /\ [][Next]_vars

-----------------------------------------------------------------------------
\* The locals, the rows and the responses have their types, and are there when the
\* stage of the request says so.
TypeOK ==
  /\ version \in Nat
  /\ object \in Live
  /\ object # NULL => object.version <= version
  /\ closed \subseteq {"mutations", "feature"}
  /\ pc \in [Write -> {"idle", "read", "gate", "review", "apply", "audit", "done", "crashed"}]
  /\ req \in [Write -> Requests \union {NULL}]
  /\ before \in [Write -> Live]
  /\ need \in [Write -> Nat]
  /\ due \in [Write -> AuditRows \union {NULL}]
  /\ trail \subseteq AuditRows
  /\ answer \in [Write -> Answers \union {NULL}]
  /\ resent \in [Write -> Nat]
  /\ effect \in [Write -> Effects \union {NULL}]
  /\ refusal \in [Write -> Refusals \union {NULL}]
  /\ unrecorded \subseteq Write
  /\ \A w \in Write :
       /\ pc[w] = "idle" <=> req[w] = NULL
       /\ pc[w] = "audit" <=> due[w] # NULL
       /\ pc[w] = "done" <=> answer[w] # NULL
       /\ pc[w] = "review" => need[w] \in DOMAIN Requirements(req[w].kind)

Rows(w) == {r \in trail : r.write = w}

\* Every request that reached the funnel and was answered, whichever of the nine
\* ways it ended, has exactly one row; a failed record() leaves none, and nor does an
\* exception mutate does not catch.  A replace or a delete that changed anything is
\* never such an exception: its PUT or DELETE is sent again until somebody answers.
EveryEndIsRecorded ==
  \A w \in Write :
    pc[w] = "done" /\ answer[w] \notin {[error |-> "not_found"], [error |-> "unread"]} =>
      /\ Cardinality(Rows(w)) =
           IF w \in unrecorded \/ answer[w] = [error |-> "internal"] THEN 0 ELSE 1
      /\ answer[w] = [error |-> "internal"] /\ effect[w] # NULL =>
           req[w].kind \notin Resendable

\* A denial in the trail names exactly the permission (or subresource) that was
\* refused, and a question nobody answered is never filed as a denial.
DenialNamesWhatWasRefused ==
  \A r \in trail :
    /\ r.outcome = "denied" =>
         /\ refusal[r.write] # NULL
         /\ refusal[r.write].by \in {"gate", "review", "server"}
         /\ refusal[r.write].target = r.target
    /\ refusal[r.write] # NULL => (refusal[r.write].by = "nobody" <=> r.outcome = "failed")

\* What the trail says happened is what happened on the cluster.  "failed" leaves it
\* open, as a call whose answer was lost may have taken effect; and so does any refusal
\* of a PUT or DELETE that took effect unheard before it was sent again, and is then
\* a conflict with itself, or finds nothing.  A response never claims more than is
\* true either, and an error never hides a change unless it is one of these, or the
\* 500 of a POST or PATCH.  What is filed as a denial was one.
TrailTellsTheTruth ==
  /\ DenialNamesWhatWasRefused
  /\ \A r \in trail :
       /\ r.outcome \in {"denied", "conflict"} /\ resent[r.write] = 0 => effect[r.write] = NULL
       /\ r.outcome = "dry_run" => effect[r.write] = NULL
       /\ r.outcome = "applied" => effect[r.write] # NULL /\ ~req[r.write].dry
  /\ \A w \in Write :
       pc[w] = "done" =>
         IF "error" \in DOMAIN answer[w]
         THEN effect[w] # NULL /\ resent[w] = 0 => answer[w].error \in {"failed", "internal"}
         ELSE /\ answer[w].applied <=> effect[w] # NULL
              /\ answer[w].auditId = "id" => Rows(w) # {}

\* Optimistic concurrency: a write that carries the version its author was looking
\* at only ever replaces that very version.  The comparison the handler makes on
\* its own read cannot ensure it, the object may change until the call arrives.
NoLostUpdate ==
  \A w \in Write :
    effect[w] # NULL /\ req[w].seen # NULL =>
      effect[w].replaced # NULL /\ effect[w].replaced.version = req[w].seen

\* The diff recorded with an applied create, replace or bounds change is the change
\* that was made: no other write slipped in between the read and the call.
AppliedDiffIsTrue ==
  \A r \in trail :
    r.outcome = "applied" /\ req[r.write].kind \notin {"scale", "delete"} =>
      r.diff = [before |-> effect[r.write].replaced, after |-> effect[r.write].stored]

\* scale.py of the audit detail "replicas 3 -> 5": "the number it replaced is only
\* knowable from the cluster", read "straight off the live Scale object".
ScaleRecordsWhatItReplaced ==
  \A r \in trail :
    r.outcome = "applied" /\ req[r.write].kind = "scale" =>
      r.diff.before = effect[r.write].replaced
=============================================================================
