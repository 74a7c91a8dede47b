-------------------------- MODULE WriteFunnelProofs --------------------------
(***************************************************************************)
(* Proofs about WriteFunnel, for any set of requests and any number of      *)
(* versions of the object.                                                  *)
(*                                                                         *)
(* The trail is written one step after the write.  IInv therefore says of   *)
(* the row that is due what the properties say of the rows that are there,  *)
(* and that a request whose call has not been answered yet has left nothing  *)
(* anywhere, unless the call is being sent again.                           *)
(***************************************************************************)
EXTENDS WriteFunnel, FiniteSetTheorems, TLAPS

\* A request before its call to the API server is answered: nothing has been said of it,
\* and it has changed nothing unless the call is a PUT or DELETE sent again.
InProgress(w) == pc[w] \in {"idle", "read", "gate", "review", "apply"}

NothingYet ==
  \A w \in Write :
    /\ InProgress(w) =>
         /\ effect[w] = NULL \/ resent[w] > 0
         /\ refusal[w] = NULL
         /\ w \notin unrecorded
    /\ resent[w] > 0 =>
         /\ pc[w] \notin {"idle", "read", "gate", "review"}
         /\ req[w].kind \in Resendable /\ ~req[w].dry

\* The ends without a row of those that are not recorded.
Escaped(w) ==
  answer[w] \in {[error |-> "not_found"], [error |-> "unread"], [error |-> "internal"]}

\* Rows are written in the last step, one for each request that record() did not fail.
RowsAtTheEnd ==
  /\ \A r \in trail :
       pc[r.write] = "done" /\ r.write \notin unrecorded /\ ~Escaped(r.write)
  /\ \A r, s \in trail : r.write = s.write => r = s
  /\ \A w \in Write :
       /\ w \in unrecorded => pc[w] = "done"
       /\ pc[w] = "done" /\ w \notin unrecorded /\ ~Escaped(w) =>
            \E r \in trail : r.write = w
       /\ pc[w] = "done" /\ answer[w] = [error |-> "internal"] /\ effect[w] # NULL =>
            req[w].kind \notin Resendable

\* Past the read, a request that is not a create holds the object it read, which is the
\* one new bounds were meant for; a version stands for one object.
ReadIsHeld ==
  \A w \in Write :
    /\ pc[w] \in {"idle", "read"} => before[w] = NULL
    /\ pc[w] \in {"gate", "review", "apply"} =>
         /\ before[w] = NULL <=> req[w].kind \in Creates
         /\ req[w].kind = "bounds" => req[w].seen \in {NULL, before[w].version}
    /\ before[w] # NULL =>
         /\ before[w].version <= version
         /\ object # NULL /\ object.version = before[w].version => object = before[w]

\* Only a replace and new bounds carry a version; a replace always does.
SeenIsSent ==
  \A w \in Write :
    req[w] # NULL =>
      /\ req[w].kind = "replace" => req[w].seen # NULL
      /\ req[w].seen # NULL => req[w].kind \in {"replace", "bounds"}

\* What TrailTellsTheTruth and AppliedDiffIsTrue say of one row.
RowIsTrue(r) ==
  /\ r.outcome = "denied" =>
       /\ refusal[r.write] # NULL
       /\ refusal[r.write].by \in {"gate", "review", "server"}
       /\ refusal[r.write].target = r.target
  /\ refusal[r.write] # NULL => (refusal[r.write].by = "nobody" <=> r.outcome = "failed")
  /\ r.outcome \in {"denied", "conflict"} /\ resent[r.write] = 0 => effect[r.write] = NULL
  /\ r.outcome = "dry_run" => effect[r.write] = NULL
  /\ r.outcome = "applied" => effect[r.write] # NULL /\ ~req[r.write].dry
  /\ r.outcome = "applied" /\ req[r.write].kind \notin {"scale", "delete"} =>
       r.diff = [before |-> effect[r.write].replaced, after |-> effect[r.write].stored]

\* The row that is due is the request's own, and already true.
DueIsTrue ==
  \A w \in Write :
    due[w] # NULL =>
      /\ due[w].write = w
      /\ due[w].outcome = "dry_run" => req[w].dry
      /\ RowIsTrue(due[w])

RowsAreTrue == \A r \in trail : RowIsTrue(r)

AnswersAreTrue ==
  \A w \in Write :
    pc[w] = "done" =>
      IF "error" \in DOMAIN answer[w]
      THEN effect[w] # NULL /\ resent[w] = 0 => answer[w].error \in {"failed", "internal"}
      ELSE /\ answer[w].applied <=> effect[w] # NULL
           /\ answer[w].auditId = "id" => \E r \in trail : r.write = w

\* The inductive invariant.
IInv ==
  /\ TypeOK
  /\ NothingYet
  /\ RowsAtTheEnd
  /\ ReadIsHeld
  /\ SeenIsSent
  /\ DueIsTrue
  /\ RowsAreTrue
  /\ AnswersAreTrue
  /\ NoLostUpdate

-----------------------------------------------------------------------------
\* There is a first requirement, and every requirement is a permission.
LEMMA RequirementsAreThere ==
  ASSUME NEW kind \in Kind
  PROVE  /\ Len(Requirements(kind)) \in Nat
         /\ DOMAIN Requirements(kind) = 1..Len(Requirements(kind))
         /\ 1 \in DOMAIN Requirements(kind)
         /\ \A i \in DOMAIN Requirements(kind) : Requirements(kind)[i] \in Permission
         /\ Target(kind) \in Permission
<1>1. CASE kind = "scale"
  BY <1>1 DEF Requirements, Target, Permission
<1>2. CASE kind = "route"
  BY <1>2 DEF Requirements, Target, Permission
<1>3. CASE kind \notin {"scale", "route"}
  <2>1. Requirements(kind) = <<"object">>
    BY <1>3 DEF Requirements
  <2> QED
    BY <2>1 DEF Target, Permission
<1> QED
  BY <1>1, <1>2, <1>3

LEMMA InitIInv == Init => IInv
<1> SUFFICES ASSUME Init PROVE IInv
  OBVIOUS
<1> USE DEF Init
<1>1. TypeOK
  <2>1. object \in Live /\ (object # NULL => object.version <= version)
    BY DEF Object, Live, Objects
  <2>2. before \in [Write -> Live] /\ need \in [Write -> Nat]
    BY DEF Live
  <2> QED
    BY <2>1, <2>2 DEF TypeOK
<1>2. NothingYet /\ RowsAtTheEnd /\ ReadIsHeld /\ SeenIsSent
  BY DEF NothingYet, RowsAtTheEnd, Escaped, ReadIsHeld, SeenIsSent
<1>3. DueIsTrue /\ RowsAreTrue /\ AnswersAreTrue /\ NoLostUpdate
  BY DEF DueIsTrue, RowsAreTrue, AnswersAreTrue, NoLostUpdate
<1> QED
  BY <1>1, <1>2, <1>3 DEF IInv

\* A step that only moves w among the stages before its call, and reads the object or
\* counts a review.
LEMMA MoveStep ==
  ASSUME IInv, NEW w \in Write, NEW stage \in {"gate", "review", "apply"},
         pc[w] \in {"read", "gate", "review"}, pc' = [pc EXCEPT ![w] = stage],
         NEW n \in Nat, need' = [need EXCEPT ![w] = n],
         stage = "review" => n \in DOMAIN Requirements(req[w].kind),
         NEW b \in Live, before' = [before EXCEPT ![w] = b],
         b = NULL <=> req[w].kind \in Creates,
         req[w].kind = "bounds" => req[w].seen \in {NULL, b.version},
         b \in {before[w], object},
         UNCHANGED quiet, UNCHANGED <<due, refusal>>
  PROVE  IInv'
<1> USE DEF IInv, quiet
<1>1. TypeOK'
  BY DEF TypeOK
<1>2. NothingYet' /\ RowsAtTheEnd' /\ SeenIsSent' /\ NoLostUpdate'
  BY DEF TypeOK, NothingYet, InProgress, RowsAtTheEnd, Escaped, SeenIsSent, NoLostUpdate
<1>3. ReadIsHeld'
  BY DEF TypeOK, ReadIsHeld
<1>4. DueIsTrue' /\ RowsAreTrue' /\ AnswersAreTrue'
  BY DEF TypeOK, DueIsTrue, RowsAreTrue, RowIsTrue, AnswersAreTrue
<1> QED
  BY <1>1, <1>2, <1>3, <1>4

\* A step that ends with a row due: what the row says has to be true of what the step
\* leaves behind, who refused (x) and what took effect (e).
LEMMA ConcludeStep ==
  ASSUME IInv, NEW w \in Write, pc[w] \in {"read", "gate", "review", "apply"},
         NEW outcome \in Outcome, NEW target \in Permission, NEW diff \in Diffs \union {NULL},
         Conclude(w, outcome, target, diff),
         UNCHANGED <<closed, req, trail, answer, resent, unrecorded, before, need>>,
         version' \in Nat, object' \in Live, object' # NULL => object'.version <= version',
         ReadIsHeld', NoLostUpdate',
         NEW x \in Refusals \union {NULL}, refusal' = [refusal EXCEPT ![w] = x],
         NEW e \in Effects \union {NULL}, effect' = [effect EXCEPT ![w] = e],
         outcome = "denied" =>
           x # NULL /\ x.by \in {"gate", "review", "server"} /\ x.target = target,
         x # NULL => (x.by = "nobody" <=> outcome = "failed"),
         outcome \in {"denied", "conflict"} => e = NULL \/ resent[w] > 0,
         outcome = "dry_run" => e = NULL,
         outcome = "dry_run" => req[w].dry,
         outcome = "applied" => e # NULL /\ ~req[w].dry,
         outcome = "applied" /\ req[w].kind \notin {"scale", "delete"} =>
           diff = [before |-> e.replaced, after |-> e.stored]
  PROVE  IInv'
<1> USE DEF IInv
<1> DEFINE row == Row(w, outcome, target, diff)
<1>1. /\ due' = [due EXCEPT ![w] = row] /\ pc' = [pc EXCEPT ![w] = "audit"]
      /\ row \in AuditRows /\ row.write = w /\ row.outcome = outcome
      /\ row.target = target /\ row.diff = diff /\ row # NULL
  BY NullAssumption DEF Conclude, Row, AuditRows
<1> HIDE DEF row
<1>2. TypeOK'
  BY <1>1 DEF TypeOK
<1>3. NothingYet' /\ RowsAtTheEnd' /\ SeenIsSent'
  BY <1>1 DEF TypeOK, NothingYet, InProgress, RowsAtTheEnd, Escaped, SeenIsSent
<1>4. DueIsTrue'
  <2> SUFFICES ASSUME NEW v \in Write, due'[v] # NULL
               PROVE  /\ due'[v].write = v
                      /\ due'[v].outcome = "dry_run" => req'[v].dry
                      /\ RowIsTrue(due[v])'
    BY DEF DueIsTrue
  <2>1. CASE v = w
    BY <1>1, <2>1 DEF TypeOK, RowIsTrue
  <2>2. CASE v # w
    <3>1. due'[v] = due[v] /\ refusal'[v] = refusal[v] /\ effect'[v] = effect[v]
      BY <1>1, <2>2 DEF TypeOK
    <3>2. due[v].write = v /\ (due[v].outcome = "dry_run" => req[v].dry) /\ RowIsTrue(due[v])
      BY <3>1 DEF DueIsTrue
    <3> QED
      BY <3>1, <3>2 DEF RowIsTrue
  <2> QED
    BY <2>1, <2>2
<1>5. RowsAreTrue'
  BY <1>1 DEF TypeOK, RowsAtTheEnd, RowsAreTrue, RowIsTrue, AuditRows
<1>6. AnswersAreTrue'
  BY <1>1 DEF TypeOK, AnswersAreTrue
<1> QED
  BY <1>2, <1>3, <1>4, <1>5, <1>6

\* The same when the step changes nothing on the cluster: a row that is no success.
LEMMA ConcludeQuietly ==
  ASSUME IInv, NEW w \in Write, pc[w] \in {"read", "gate", "review", "apply"},
         NEW outcome \in Outcome, NEW target \in Permission, NEW diff \in Diffs \union {NULL},
         Conclude(w, outcome, target, diff),
         UNCHANGED quiet, UNCHANGED <<before, need>>,
         NEW x \in Refusals \union {NULL}, refusal' = [refusal EXCEPT ![w] = x],
         outcome = "denied" =>
           x # NULL /\ x.by \in {"gate", "review", "server"} /\ x.target = target,
         x # NULL => (x.by = "nobody" <=> outcome = "failed"),
         outcome = "dry_run" => req[w].dry,
         outcome # "applied"
  PROVE  IInv'
<1>1. /\ effect[w] \in Effects \union {NULL} /\ effect' = [effect EXCEPT ![w] = effect[w]]
      /\ effect[w] = NULL \/ (resent[w] > 0 /\ ~req[w].dry)
  BY DEF IInv, TypeOK, NothingYet, InProgress, quiet
<1>2. ReadIsHeld'
  <2>1. \A v \in Write : pc'[v] = pc[v] \/ pc'[v] = "audit"
    BY DEF IInv, TypeOK, Conclude
  <2> QED
    BY <2>1 DEF IInv, ReadIsHeld, quiet
<1>3. NoLostUpdate'
  BY DEF IInv, NoLostUpdate, quiet
<1>4. version' \in Nat /\ object' \in Live /\ (object' # NULL => object'.version <= version')
  BY DEF IInv, TypeOK, quiet
<1>5. UNCHANGED <<closed, req, trail, answer, resent, unrecorded, before, need>>
  BY DEF quiet
<1>6. PICK e \in Effects \union {NULL} :
        e = effect[w] /\ effect' = [effect EXCEPT ![w] = e]
  BY <1>1
<1>7. /\ outcome \in {"denied", "conflict"} => e = NULL \/ resent[w] > 0
      /\ outcome = "dry_run" => e = NULL
  BY <1>1, <1>6
<1> QED
  BY <1>2, <1>3, <1>4, <1>5, <1>6, <1>7, ConcludeStep

\* Every way to be refused, to fail, to find a newer version or to be projected.
LEMMA QuietEnds ==
  ASSUME IInv, NEW w \in Write,
         \/ ReadConflict(w) \/ GateClosed(w) \/ ReviewDenied(w) \/ ReviewUndecided(w)
         \/ ApplyStale(w) \/ ApplyForbidden(w) \/ ApplyFailed(w) \/ ApplyConflict(w)
         \/ ApplyProjected(w)
  PROVE  IInv'
<1>1. req[w] \in Requests /\ req[w].kind \in Kind
  BY DEF IInv, TypeOK, Requests, ReadConflict, GateClosed, ReviewDenied, ReviewUndecided,
         ApplyStale, ApplyForbidden, ApplyFailed, ApplyConflict, ApplyProjected
<1>2. Target(req[w].kind) \in Permission
  BY <1>1, RequirementsAreThere
<1>3. pc[w] = "review" => Required(w) \in Permission
  BY <1>1, RequirementsAreThere DEF Required, IInv, TypeOK
<1>4. ASSUME pc[w] \in {"read", "gate", "review", "apply"}
      PROVE  refusal[w] = NULL /\ refusal = [refusal EXCEPT ![w] = NULL]
  BY <1>4 DEF IInv, TypeOK, NothingYet, InProgress
<1>5. \A target \in Permission, by \in {"gate", "review", "server", "nobody"} :
        LET x == [by |-> by, target |-> target] IN x \in Refusals /\ x # NULL
  BY NullAssumption DEF Refusals
<1>6. "object" \in Permission /\ Outcome = {"applied", "dry_run", "denied", "conflict", "failed"}
  BY DEF Permission, Outcome
<1>7. CASE ReadConflict(w)
  BY <1>4, <1>6, <1>7, ConcludeQuietly DEF ReadConflict
<1>8. CASE GateClosed(w)
  BY <1>2, <1>5, <1>6, <1>8, ConcludeQuietly DEF GateClosed, Refused
<1>9. CASE ReviewDenied(w)
  BY <1>3, <1>5, <1>6, <1>9, ConcludeQuietly DEF ReviewDenied, Refused
<1>10. CASE ReviewUndecided(w)
  BY <1>3, <1>5, <1>6, <1>10, ConcludeQuietly DEF ReviewUndecided, Refused
<1>11. CASE ApplyStale(w)
  BY <1>2, <1>4, <1>6, <1>11, ConcludeQuietly DEF ApplyStale
<1>12. CASE ApplyForbidden(w)
  BY <1>2, <1>5, <1>6, <1>12, ConcludeQuietly DEF ApplyForbidden, Refused
<1>13. CASE ApplyFailed(w)
  BY <1>2, <1>4, <1>6, <1>13, ConcludeQuietly DEF ApplyFailed
<1>14. CASE ApplyConflict(w)
  BY <1>2, <1>4, <1>6, <1>14, ConcludeQuietly DEF ApplyConflict
<1>15. CASE ApplyProjected(w)
  <2>1. PICK diff : diff = Diff(w) /\ diff \in Diffs
    <3>1. Stored(w) \in Live /\ before[w] \in Live
      BY DEF IInv, TypeOK, Stored, Object, Live, Objects
    <3>2. Diff(w) \in Diffs
      BY <3>1 DEF Diff, Diffs
    <3> QED
      BY <3>2
  <2> QED
    BY <1>2, <1>4, <1>6, <1>15, <2>1, ConcludeQuietly DEF ApplyProjected
<1> QED
  BY <1>7, <1>8, <1>9, <1>10, <1>11, <1>12, <1>13, <1>14, <1>15

\* The object goes on to a version nobody has read yet.
LEMMA NewVersion ==
  ASSUME IInv, version' = version + 1, object' \in Live,
         object' # NULL => object'.version = version + 1
  PROVE  /\ version' \in Nat
         /\ object' # NULL => object'.version <= version'
         /\ \A w \in Write :
              before[w] # NULL =>
                /\ before[w].version <= version'
                /\ object' # NULL => object'.version # before[w].version
<1>1. \A w \in Write : before[w] # NULL => before[w].version \in Nat /\ before[w].version <= version
  BY DEF IInv, TypeOK, ReadIsHeld, Live, Objects
<1> QED
  BY <1>1 DEF IInv, TypeOK

\* What w's call replaces is the version its author was looking at, if it carries one.
LEMMA EffectKeepsUpdates ==
  ASSUME IInv, NEW w \in Write, pc[w] = "apply", Accepts(w), TakesEffect(w), req' = req
  PROVE  NoLostUpdate'
<1>1. req[w] \in Requests
  BY DEF IInv, TypeOK
<1>2. req[w].seen # NULL => SentVersion(w) = req[w].seen /\ req[w].kind \notin Creates
  BY <1>1 DEF IInv, TypeOK, SeenIsSent, SentVersion, Creates
<1>3. req[w].seen # NULL => object # NULL /\ object.version = req[w].seen
  BY <1>2 DEF Accepts, Collides
<1>4. effect'[w].replaced = object /\ \A v \in Write : v # w => effect'[v] = effect[v]
  BY DEF IInv, TypeOK, TakesEffect
<1> QED
  BY <1>3, <1>4 DEF IInv, NoLostUpdate

\* The object w's write puts in the place of the one it replaced: the effect that
\* history keeps, the versions, and that no update is lost.
LEMMA EffectStep ==
  ASSUME IInv, NEW w \in Write, pc[w] = "apply", Accepts(w), TakesEffect(w),
         NEW stage \in {"apply", "audit"},
         pc' = [pc EXCEPT ![w] = stage], UNCHANGED <<before, req>>
  PROVE  /\ version' \in Nat /\ object' \in Live
         /\ object' # NULL => object'.version <= version'
         /\ ReadIsHeld' /\ NoLostUpdate'
         /\ [replaced |-> object, stored |-> Stored(w)] \in Effects
<1>1. req[w] \in Requests
  BY DEF IInv, TypeOK
<1>2. object' \in Live /\ (object' # NULL => object'.version = version + 1)
  BY DEF IInv, TypeOK, TakesEffect, Stored, Object, Live, Objects
<1>3. version' = version + 1
  BY DEF TakesEffect
<1>4. [replaced |-> object, stored |-> Stored(w)] \in Effects
  BY <1>2 DEF IInv, TypeOK, TakesEffect, Effects
<1>5. ReadIsHeld'
  BY <1>2, <1>3, NewVersion DEF IInv, TypeOK, ReadIsHeld, TakesEffect
<1>6. NoLostUpdate'
  BY EffectKeepsUpdates
<1> QED
  BY <1>2, <1>3, <1>4, <1>5, <1>6, NewVersion

\* A create, a replace or new bounds that the API server accepts replaces what was read.
LEMMA ReplacesWhatWasRead ==
  ASSUME IInv, NEW w \in Write, pc[w] = "apply", Accepts(w),
         req[w].kind \notin {"scale", "delete"}
  PROVE  object = before[w]
<1>1. req[w] \in Requests /\ req[w] # NULL
  BY NullAssumption DEF IInv, TypeOK
<1>2. CASE req[w].kind \in Creates
  BY <1>2 DEF IInv, ReadIsHeld, Accepts, Collides
<1>3. CASE req[w].kind \in {"replace", "bounds"}
  <2>1. before[w] # NULL /\ object # NULL
    BY <1>3 DEF IInv, ReadIsHeld, Accepts, Creates
  <2>2. before[w].version \in Nat
    BY <2>1 DEF IInv, TypeOK, Live, Objects
  <2>3. SentVersion(w) = before[w].version
    BY <1>1, <1>3, <2>1 DEF IInv, SeenIsSent, ReadIsHeld, SentVersion, Accepts, StaleLocally
  <2>4. object.version = before[w].version
    BY <2>1, <2>2, <2>3, NullAssumption DEF Accepts, Collides
  <2> QED
    BY <2>1, <2>4 DEF IInv, ReadIsHeld
<1> QED
  BY <1>1, <1>2, <1>3 DEF Requests, Kind, Creates

LEMMA WritesPreserve ==
  ASSUME IInv, NEW w \in Write, ApplyDone(w) \/ ApplyAnswerLost(w)
  PROVE  IInv'
<1>1. /\ pc[w] = "apply" /\ ~req[w].dry /\ Accepts(w) /\ TakesEffect(w)
      /\ pc' = [pc EXCEPT ![w] = "audit"]
      /\ UNCHANGED <<closed, req, trail, answer, resent, unrecorded, before, need>>
      /\ refusal' = refusal
  BY DEF ApplyDone, ApplyAnswerLost, Conclude, TakesEffect
<1>2. req[w] \in Requests /\ Target(req[w].kind) \in Permission
  <2>1. req[w] \in Requests
    BY <1>1 DEF IInv, TypeOK
  <2> QED
    BY <2>1, RequirementsAreThere DEF Requests
<1>3. PICK x \in Refusals \union {NULL} : x = NULL /\ refusal' = [refusal EXCEPT ![w] = x]
  BY <1>1 DEF IInv, TypeOK, NothingYet, InProgress
<1>4. PICK e \in Effects \union {NULL} :
        /\ e = [replaced |-> object, stored |-> Stored(w)]
        /\ effect' = [effect EXCEPT ![w] = e]
  BY <1>1, EffectStep DEF TakesEffect
<1>5. e # NULL
  BY <1>1, <1>4, EffectStep, NullAssumption
<1>6. /\ version' \in Nat /\ object' \in Live
      /\ object' # NULL => object'.version <= version'
      /\ ReadIsHeld' /\ NoLostUpdate'
  BY <1>1, EffectStep
<1>7. CASE ApplyAnswerLost(w)
  BY <1>1, <1>2, <1>3, <1>4, <1>6, <1>7, ConcludeStep DEF ApplyAnswerLost, Outcome
<1>8. CASE ApplyDone(w)
  <2>1. PICK diff \in Diffs : diff = Diff(w)
    <3>1. Stored(w) \in Live /\ before[w] \in Live
      BY DEF IInv, TypeOK, Stored, Object, Live, Objects
    <3> QED
      BY <3>1 DEF Diff, Diffs
  <2>2. req[w].kind \notin {"scale", "delete"} =>
          diff = [before |-> e.replaced, after |-> e.stored]
    BY <1>1, <1>4, <2>1, ReplacesWhatWasRead DEF Diff
  <2>3. Conclude(w, "applied", Target(req[w].kind), diff)
    BY <1>8, <2>1 DEF ApplyDone
  <2>4. PICK outcome \in Outcome, target \in Permission :
          outcome = "applied" /\ Conclude(w, outcome, target, diff)
    BY <1>2, <2>3 DEF Outcome
  <2>5. diff \in Diffs \union {NULL} /\ ~req[w].dry /\ pc[w] \in {"read", "gate", "review", "apply"}
    BY <1>1, <2>1
  <2>6. /\ outcome # "denied" /\ outcome \notin {"denied", "conflict", "dry_run"}
        /\ outcome # "failed" /\ outcome # "dry_run"
    BY <2>4
  <2>7. UNCHANGED <<closed, req, trail, answer, resent, unrecorded, before, need>>
    BY <1>1
  <2> QED
    BY <1>3, <1>4, <1>5, <1>6, <2>2, <2>4, <2>5, <2>6, <2>7, ConcludeStep
<1> QED
  BY <1>7, <1>8

\* A call that took effect unheard is made again: it is still to be answered.
LEMMA ResendPreserves == ASSUME IInv, NEW w \in Write, Resend(w) PROVE IInv'
<1>1. /\ pc[w] = "apply" /\ ~req[w].dry /\ req[w].kind \in Resendable
      /\ Accepts(w) /\ TakesEffect(w)
      /\ resent' = [resent EXCEPT ![w] = @ + 1]
      /\ UNCHANGED <<closed, pc, req, before, need, due, trail, answer, refusal, unrecorded>>
  BY DEF Resend
<1>2. pc' = [pc EXCEPT ![w] = "apply"]
  BY <1>1 DEF IInv, TypeOK
<1>3. /\ version' \in Nat /\ object' \in Live
      /\ object' # NULL => object'.version <= version'
      /\ ReadIsHeld' /\ NoLostUpdate'
      /\ [replaced |-> object, stored |-> Stored(w)] \in Effects
  BY <1>1, <1>2, EffectStep
<1>4. PICK e \in Effects : effect' = [effect EXCEPT ![w] = e]
  BY <1>1, <1>3 DEF TakesEffect
<1>5. resent' \in [Write -> Nat] /\ resent'[w] > 0
      /\ \A v \in Write : v # w => resent'[v] = resent[v] /\ effect'[v] = effect[v]
  BY <1>1, <1>4 DEF IInv, TypeOK
<1>6. due[w] = NULL /\ \A r \in trail : r.write # w
  BY <1>1 DEF IInv, TypeOK, RowsAtTheEnd
<1> USE <1>1, <1>4, <1>5 DEF IInv
<1>7. TypeOK'
  BY <1>3 DEF TypeOK
<1>8. NothingYet' /\ RowsAtTheEnd' /\ SeenIsSent'
  BY DEF TypeOK, NothingYet, InProgress, RowsAtTheEnd, Escaped, SeenIsSent
<1>9. DueIsTrue' /\ RowsAreTrue'
  <2>1. \A x \in AuditRows : x.write # w /\ RowIsTrue(x) => RowIsTrue(x)'
    BY DEF TypeOK, RowIsTrue, AuditRows
  <2>2. \A v \in Write : due[v] # NULL => due[v].write = v /\ v # w /\ due[v] \in AuditRows
    BY <1>6 DEF TypeOK, DueIsTrue
  <2> QED
    BY <1>6, <2>1, <2>2 DEF TypeOK, DueIsTrue, RowsAreTrue
<1>10. AnswersAreTrue'
  BY <1>6 DEF TypeOK, AnswersAreTrue
<1> QED
  BY <1>3, <1>7, <1>8, <1>9, <1>10

LEMMA SubmitPreserves == ASSUME IInv, NEW w \in Write, Submit(w) PROVE IInv'
<1>1. PICK q \in Requests :
        /\ req' = [req EXCEPT ![w] = q]
        /\ q.kind = "replace" => q.seen # NULL
        /\ q.seen # NULL => q.kind \in {"replace", "bounds"}
  <2>1. PICK kind \in Kind, dry \in BOOLEAN,
             seen \in {NULL, IF object = NULL THEN NULL ELSE object.version} :
          /\ kind = "replace" => seen # NULL
          /\ kind \notin {"replace", "bounds"} => seen = NULL
          /\ req' = [req EXCEPT ![w] = [kind |-> kind, dry |-> dry, seen |-> seen]]
    BY DEF Submit
  <2>2. seen \in Nat \union {NULL}
    BY DEF IInv, TypeOK, Live, Objects
  <2>3. [kind |-> kind, dry |-> dry, seen |-> seen] \in Requests
    BY <2>2 DEF Requests
  <2> QED
    BY <2>1, <2>3
<1>2. /\ pc[w] = "idle" /\ pc' = [pc EXCEPT ![w] = "read"]
      /\ UNCHANGED <<object, version, closed, before, need, due, trail, answer, resent,
                     effect, refusal, unrecorded>>
  BY DEF Submit
<1>3. q # NULL
  BY <1>1, NullAssumption
<1> USE <1>1, <1>2, <1>3 DEF IInv
<1>4. TypeOK'
  BY DEF TypeOK
<1>5. NothingYet' /\ RowsAtTheEnd' /\ SeenIsSent'
  BY DEF TypeOK, NothingYet, InProgress, RowsAtTheEnd, Escaped, SeenIsSent
<1>6. ReadIsHeld'
  BY DEF TypeOK, ReadIsHeld
<1>7. DueIsTrue' /\ RowsAreTrue'
  <2>1. \A r \in AuditRows : r.write # w /\ RowIsTrue(r) => RowIsTrue(r)'
    BY DEF TypeOK, RowIsTrue, AuditRows
  <2>2. \A r \in trail : r.write # w
    BY DEF RowsAtTheEnd
  <2>3. due[w] = NULL /\ \A v \in Write : due[v] # NULL => due[v].write = v
    BY DEF TypeOK, DueIsTrue
  <2> QED
    BY <2>1, <2>2, <2>3 DEF TypeOK, DueIsTrue, RowsAreTrue
<1>8. AnswersAreTrue' /\ NoLostUpdate'
  BY DEF TypeOK, AnswersAreTrue, NoLostUpdate, NothingYet, InProgress
<1> QED
  BY <1>4, <1>5, <1>6, <1>7, <1>8

\* The ends: the request is over, and what its row says has been written or lost.
LEMMA EndsPreserve ==
  ASSUME IInv, NEW w \in Write,
         NEW error \in {"not_found", "unread", "internal"}, EndsUnrecorded(w, error),
         pc[w] \in {"read", "review", "apply"},
         error = "not_found" \/ error = "unread" => effect' = effect /\ pc[w] = "read",
         error = "internal" => req[w].kind \notin Resendable \/ effect'[w] = NULL,
         version' \in Nat, object' \in Live, object' # NULL => object'.version <= version',
         NoLostUpdate',
         \A v \in Write : before[v] # NULL =>
           /\ before[v].version <= version'
           /\ object' # NULL /\ object'.version = before[v].version => object' = before[v],
         NEW e \in Effects \union {NULL}, effect' = [effect EXCEPT ![w] = e]
  PROVE  IInv'
<1> DEFINE a == [error |-> error]
<1>1. /\ pc' = [pc EXCEPT ![w] = "done"]
      /\ answer' = [answer EXCEPT ![w] = a]
      /\ before' = [before EXCEPT ![w] = NULL]
      /\ need' = [need EXCEPT ![w] = 0]
      /\ due' = [due EXCEPT ![w] = NULL]
      /\ UNCHANGED <<closed, req, trail, resent, refusal, unrecorded>>
  BY DEF EndsUnrecorded, Ends
<1>2. /\ a \in Answers /\ a # NULL /\ a.error = error /\ "error" \in DOMAIN a
      /\ a \in {[error |-> "not_found"], [error |-> "unread"], [error |-> "internal"]}
  BY NullAssumption DEF Answers
<1>3. pc[w] # "apply" => effect[w] = NULL
  BY DEF IInv, TypeOK, NothingYet, InProgress
<1>4. error # "internal" => e = NULL
  BY <1>3 DEF IInv, TypeOK
<1>5. a = [error |-> "internal"] => error = "internal"
  BY <1>2
<1>6. effect'[w] = e
  BY DEF IInv, TypeOK
<1> HIDE DEF a
<1> USE <1>1, <1>2 DEF IInv
<1>7. TypeOK'
  BY DEF TypeOK, Live
<1>8. NothingYet' /\ SeenIsSent'
  BY DEF TypeOK, NothingYet, InProgress, SeenIsSent
<1>9. RowsAtTheEnd'
  BY <1>5, <1>6 DEF TypeOK, RowsAtTheEnd, Escaped, NothingYet, InProgress
<1>10. ReadIsHeld'
  BY DEF TypeOK, ReadIsHeld
<1>11. DueIsTrue' /\ RowsAreTrue'
  <2>1. \A r \in AuditRows : r.write # w /\ RowIsTrue(r) => RowIsTrue(r)'
    BY DEF TypeOK, RowIsTrue, AuditRows
  <2>2. \A r \in trail : r.write # w
    BY DEF RowsAtTheEnd
  <2>3. \A v \in Write : due'[v] # NULL =>
          /\ due'[v] = due[v] /\ due[v].write = v /\ v # w /\ due[v] \in AuditRows
          /\ req'[v] = req[v]
    BY DEF TypeOK, DueIsTrue
  <2> QED
    BY <2>1, <2>2, <2>3 DEF TypeOK, DueIsTrue, RowsAreTrue
<1>12. AnswersAreTrue'
  BY <1>4, <1>6 DEF TypeOK, AnswersAreTrue
<1> QED
  BY <1>7, <1>8, <1>9, <1>10, <1>11, <1>12

LEMMA EscapesPreserve ==
  ASSUME IInv, NEW w \in Write, ReadFails(w) \/ ReviewEscapes(w) \/ ApplyEscapes(w)
  PROVE  IInv'
<1>1. /\ effect[w] \in Effects \union {NULL} /\ effect = [effect EXCEPT ![w] = effect[w]]
      /\ version \in Nat /\ object \in Live /\ (object # NULL => object.version <= version)
      /\ NoLostUpdate
  BY DEF IInv, TypeOK
<1>2. \A v \in Write : before[v] # NULL =>
        /\ before[v].version <= version
        /\ object # NULL /\ object.version = before[v].version => object = before[v]
  BY DEF IInv, ReadIsHeld
<1>3. CASE UNCHANGED <<object, version, effect>>
  <2>1. NoLostUpdate'
    BY <1>1, <1>3 DEF NoLostUpdate, EndsUnrecorded, ReadFails, ReviewEscapes, ApplyEscapes
  <2>2. pc[w] \in {"read", "review"} => effect[w] = NULL
    BY DEF IInv, TypeOK, NothingYet, InProgress
  <2>3. PICK error \in {"not_found", "unread", "internal"} :
          /\ EndsUnrecorded(w, error) /\ pc[w] \in {"read", "review", "apply"}
          /\ error = "not_found" \/ error = "unread" => pc[w] = "read"
          /\ error = "internal" => req[w].kind \notin Resendable \/ effect[w] = NULL
    BY <2>2 DEF ReadFails, ReviewEscapes, ApplyEscapes
  <2> QED
    BY <1>1, <1>2, <1>3, <2>1, <2>3, EndsPreserve
<1>4. CASE /\ pc[w] = "apply" /\ Accepts(w) /\ TakesEffect(w)
           /\ req[w].kind \notin Resendable /\ EndsUnrecorded(w, "internal")
  <2>1. /\ object' \in Live /\ (object' # NULL => object'.version = version + 1)
        /\ version' = version + 1
        /\ [replaced |-> object, stored |-> Stored(w)] \in Effects
    BY <1>4 DEF IInv, TypeOK, TakesEffect, Stored, Object, Live, Objects, Effects
  <2>2. NoLostUpdate'
    BY <1>4, EffectKeepsUpdates DEF EndsUnrecorded
  <2>3. PICK e \in Effects \union {NULL} : effect' = [effect EXCEPT ![w] = e]
    BY <1>4, <2>1 DEF TakesEffect
  <2>4. \A v \in Write : before[v] # NULL =>
          /\ before[v].version <= version'
          /\ object' # NULL /\ object'.version = before[v].version => object' = before[v]
    BY <2>1, NewVersion
  <2>5. version' \in Nat /\ (object' # NULL => object'.version <= version')
    BY <2>1, NewVersion
  <2> QED
    BY <1>4, <2>1, <2>2, <2>3, <2>4, <2>5, EndsPreserve
<1> QED
  BY <1>3, <1>4 DEF ReadFails, ReviewEscapes, ApplyEscapes

LEMMA CrashPreserves == ASSUME IInv, NEW w \in Write, Crash(w) PROVE IInv'
<1>1. /\ pc[w] \notin {"idle", "done", "crashed"} /\ pc' = [pc EXCEPT ![w] = "crashed"]
      /\ before' = [before EXCEPT ![w] = NULL]
      /\ need' = [need EXCEPT ![w] = 0]
      /\ due' = [due EXCEPT ![w] = NULL]
      /\ UNCHANGED <<object, version, closed, req, trail, answer, resent, effect, refusal,
                     unrecorded>>
  BY DEF Crash, Ends, quiet
<1> USE <1>1 DEF IInv
<1>2. TypeOK'
  BY DEF TypeOK, Live
<1>3. NothingYet' /\ RowsAtTheEnd' /\ SeenIsSent' /\ NoLostUpdate'
  BY DEF TypeOK, NothingYet, InProgress, RowsAtTheEnd, Escaped, SeenIsSent, NoLostUpdate
<1>4. ReadIsHeld'
  BY DEF TypeOK, ReadIsHeld
<1>5. DueIsTrue' /\ RowsAreTrue' /\ AnswersAreTrue'
  BY DEF TypeOK, DueIsTrue, RowsAreTrue, RowIsTrue, AnswersAreTrue
<1> QED
  BY <1>2, <1>3, <1>4, <1>5

LEMMA SomebodyElsePreserves == ASSUME IInv, SomebodyElse PROVE IInv'
<1>1. /\ object' \in Live /\ (object' # NULL => object'.version = version + 1)
      /\ version' = version + 1
      /\ UNCHANGED <<closed, pc, req, before, need, due, trail, answer, resent, effect,
                     refusal, unrecorded>>
  BY DEF SomebodyElse, Object, Live, Objects, IInv, TypeOK
<1> USE <1>1, NewVersion DEF IInv
<1>2. TypeOK'
  BY DEF TypeOK
<1>3. ReadIsHeld'
  BY DEF TypeOK, ReadIsHeld
<1>4. NothingYet' /\ RowsAtTheEnd' /\ SeenIsSent' /\ NoLostUpdate'
  BY DEF NothingYet, InProgress, RowsAtTheEnd, Escaped, SeenIsSent, NoLostUpdate
<1>5. DueIsTrue' /\ RowsAreTrue' /\ AnswersAreTrue'
  BY DEF DueIsTrue, RowsAreTrue, RowIsTrue, AnswersAreTrue
<1> QED
  BY <1>2, <1>3, <1>4, <1>5

\* The row is written or lost, and the caller is told; the id only with the row.
LEMMA AuditPreserves ==
  ASSUME IInv, NEW w \in Write, AuditWritten(w) \/ AuditFailed(w)
  PROVE  IInv'
<1>1. PICK auditId \in {"id", NULL} :
        /\ Respond(w, auditId) /\ pc[w] = "audit"
        /\ \/ trail' = trail \union {due[w]} /\ unrecorded' = unrecorded
           \/ trail' = trail /\ unrecorded' = unrecorded \union {w} /\ auditId = NULL
  BY DEF AuditWritten, AuditFailed
<1>2. /\ pc' = [pc EXCEPT ![w] = "done"]
      /\ before' = [before EXCEPT ![w] = NULL]
      /\ need' = [need EXCEPT ![w] = 0]
      /\ due' = [due EXCEPT ![w] = NULL]
      /\ UNCHANGED <<object, version, closed, req, resent, effect, refusal>>
  BY <1>1 DEF Respond, Ends
<1>3. /\ due[w] # NULL /\ due[w] \in AuditRows /\ due[w].write = w /\ RowIsTrue(due[w])
      /\ due[w].outcome = "dry_run" => req[w].dry
      /\ due[w].outcome \in Outcome
  BY <1>1 DEF IInv, TypeOK, DueIsTrue, AuditRows
<1>4. PICK a \in Answers :
        /\ answer' = [answer EXCEPT ![w] = a] /\ a # NULL
        /\ a \notin {[error |-> "not_found"], [error |-> "unread"], [error |-> "internal"]}
        /\ a = IF due[w].outcome \in {"applied", "dry_run"}
              THEN [applied |-> ~req[w].dry, auditId |-> auditId]
              ELSE [error |-> due[w].outcome]
  <2>1. req[w] \in Requests
    BY <1>1 DEF IInv, TypeOK
  <2> DEFINE done == [applied |-> ~req[w].dry, auditId |-> auditId]
             error == [error |-> due[w].outcome]
  <2>2. done \in Answers /\ done # NULL
    <3>1. (~req[w].dry) \in BOOLEAN
      OBVIOUS
    <3>2. done \in [applied : BOOLEAN, auditId : {"id", NULL}]
      BY <3>1
    <3> QED
      BY <3>2, NullAssumption DEF Answers
  <2>3. \A x : done # [error |-> x]
    <3>1. "applied" \in DOMAIN done /\ \A x : "applied" \notin DOMAIN [error |-> x]
      OBVIOUS
    <3> QED
      BY <3>1
  <2>4. /\ error \in Answers /\ error # NULL
        /\ error \notin {[error |-> "not_found"], [error |-> "unread"], [error |-> "internal"]}
    <3>1. error \in Answers /\ error # NULL
      BY <1>3, NullAssumption DEF Answers
    <3>2. error.error \notin {"not_found", "unread", "internal"}
      BY <1>3 DEF Outcome
    <3> QED
      BY <3>1, <3>2
  <2> QED
    BY <1>1, <2>2, <2>3, <2>4 DEF Respond
<1> USE DEF IInv
<1>5. TypeOK'
  BY <1>1, <1>2, <1>3, <1>4 DEF TypeOK, Live
<1>6. NothingYet' /\ SeenIsSent' /\ NoLostUpdate'
  BY <1>1, <1>2 DEF TypeOK, NothingYet, InProgress, SeenIsSent, NoLostUpdate
<1>7. RowsAtTheEnd'
  BY <1>1, <1>2, <1>3, <1>4 DEF TypeOK, RowsAtTheEnd, Escaped
<1>8. ReadIsHeld'
  BY <1>2 DEF TypeOK, ReadIsHeld
<1>9. DueIsTrue' /\ RowsAreTrue'
  BY <1>1, <1>2, <1>3 DEF TypeOK, DueIsTrue, RowsAreTrue, RowIsTrue
<1>10. AnswersAreTrue'
  <2>1. \A v \in Write : v # w => pc'[v] = pc[v] /\ answer'[v] = answer[v]
    BY <1>2, <1>4 DEF TypeOK
  <2>2. trail \subseteq trail'
    BY <1>1
  <2>3. answer'[w] = a
    BY <1>4 DEF TypeOK
  <2>4. CASE due[w].outcome \in {"applied", "dry_run"}
    <3>1. a = [applied |-> ~req[w].dry, auditId |-> auditId]
      BY <1>4, <2>4
    <3>2. "error" \notin DOMAIN a /\ (a.applied <=> ~req[w].dry) /\ a.auditId = auditId
      BY <3>1
    <3>3. ~req[w].dry <=> effect[w] # NULL
      BY <1>3, <2>4 DEF RowIsTrue
    <3>4. a.auditId = "id" => \E r \in trail' : r.write = w
      BY <1>1, <1>3, <3>2, NullAssumption
    <3> QED
      BY <1>2, <2>1, <2>2, <2>3, <3>2, <3>3, <3>4 DEF AnswersAreTrue
  <2>5. CASE due[w].outcome \notin {"applied", "dry_run"}
    <3>1. a = [error |-> due[w].outcome]
      BY <1>4, <2>5
    <3>2. "error" \in DOMAIN a /\ a.error = due[w].outcome
      BY <3>1
    <3>3. effect[w] # NULL /\ resent[w] = 0 => due[w].outcome = "failed"
      BY <1>3, <2>5 DEF RowIsTrue, Outcome
    <3> QED
      BY <1>2, <2>1, <2>2, <2>3, <3>2, <3>3 DEF AnswersAreTrue
  <2> QED
    BY <2>4, <2>5
<1> QED
  BY <1>5, <1>6, <1>7, <1>8, <1>9, <1>10

LEMMA MovesPreserve ==
  ASSUME IInv, NEW w \in Write, ReadLive(w) \/ GateOpen(w) \/ ReviewAllowed(w)
  PROVE  IInv'
<1>1. req[w] \in Requests /\ req[w].kind \in Kind
  BY DEF IInv, TypeOK, ReadLive, GateOpen, ReviewAllowed, Requests
<1>2. /\ Len(Requirements(req[w].kind)) \in Nat
      /\ DOMAIN Requirements(req[w].kind) = 1..Len(Requirements(req[w].kind))
      /\ 1 \in DOMAIN Requirements(req[w].kind)
  BY <1>1, RequirementsAreThere
<1>3. need[w] \in Nat /\ need = [need EXCEPT ![w] = need[w]]
  BY DEF IInv, TypeOK
<1>4. before[w] \in Live /\ before = [before EXCEPT ![w] = before[w]]
  BY DEF IInv, TypeOK
<1>5. object \in Live
  BY DEF IInv, TypeOK
<1>6. CASE ReadLive(w)
  <2>1. PICK b \in Live :
          /\ before' = [before EXCEPT ![w] = b]
          /\ b = NULL <=> req[w].kind \in Creates
          /\ req[w].kind = "bounds" => req[w].seen \in {NULL, b.version}
          /\ b \in {before[w], object}
    <3>1. CASE req[w].kind \in Creates
      <4>1. pc[w] = "read" => before[w] = NULL
        BY DEF IInv, ReadIsHeld
      <4> QED
        BY <1>4, <1>6, <3>1, <4>1 DEF ReadLive, Creates
    <3>2. CASE req[w].kind \notin Creates
      BY <1>5, <1>6, <3>2 DEF ReadLive, StaleBounds
    <3> QED
      BY <3>1, <3>2
  <2> QED
    BY <1>3, <1>6, <2>1, MoveStep DEF ReadLive
<1>7. CASE GateOpen(w)
  BY <1>2, <1>4, <1>7, MoveStep DEF GateOpen, IInv, ReadIsHeld
<1>8. CASE ReviewAllowed(w)
  <2>1. need[w] \in DOMAIN Requirements(req[w].kind)
    BY <1>8 DEF ReviewAllowed, IInv, TypeOK
  <2>2. PICK n \in Nat, stage \in {"gate", "review", "apply"} :
          /\ pc' = [pc EXCEPT ![w] = stage]
          /\ need' = [need EXCEPT ![w] = n]
          /\ stage = "review" => n \in DOMAIN Requirements(req[w].kind)
    <3>1. CASE need[w] = Len(Requirements(req[w].kind))
      BY <1>3, <1>8, <3>1 DEF ReviewAllowed
    <3>2. CASE need[w] # Len(Requirements(req[w].kind))
      <4>1. need[w] + 1 \in Nat /\ need[w] + 1 \in DOMAIN Requirements(req[w].kind)
        BY <1>2, <1>3, <2>1, <3>2
      <4>2. pc = [pc EXCEPT ![w] = "review"]
        BY <1>8 DEF ReviewAllowed, IInv, TypeOK
      <4> QED
        BY <1>8, <3>2, <4>1, <4>2 DEF ReviewAllowed
    <3> QED
      BY <3>1, <3>2
  <2>3. /\ before[w] = NULL <=> req[w].kind \in Creates
        /\ req[w].kind = "bounds" => req[w].seen \in {NULL, before[w].version}
    BY <1>8 DEF ReviewAllowed, IInv, ReadIsHeld
  <2> QED
    BY <1>4, <1>8, <2>2, <2>3, MoveStep DEF ReviewAllowed
<1> QED
  BY <1>6, <1>7, <1>8

LEMMA NextIInv == IInv /\ [Next]_vars => IInv'
<1> SUFFICES ASSUME IInv, [Next]_vars PROVE IInv'
  OBVIOUS
<1>1. CASE UNCHANGED vars
  BY <1>1 DEF vars, IInv, TypeOK, NothingYet, InProgress, RowsAtTheEnd, Escaped, ReadIsHeld, SeenIsSent,
     DueIsTrue, RowsAreTrue, RowIsTrue, AnswersAreTrue, NoLostUpdate
<1>2. CASE SomebodyElse
  BY <1>2, SomebodyElsePreserves
<1>3. ASSUME NEW w \in Write, Submit(w) PROVE IInv'
  BY <1>3, SubmitPreserves
<1>4. ASSUME NEW w \in Write, ReadLive(w) \/ GateOpen(w) \/ ReviewAllowed(w) PROVE IInv'
  BY <1>4, MovesPreserve
<1>5. ASSUME NEW w \in Write, ReadFails(w) \/ ReviewEscapes(w) \/ ApplyEscapes(w) PROVE IInv'
  BY <1>5, EscapesPreserve
<1>6. ASSUME NEW w \in Write,
             \/ ReadConflict(w) \/ GateClosed(w) \/ ReviewDenied(w) \/ ReviewUndecided(w)
             \/ ApplyStale(w) \/ ApplyForbidden(w) \/ ApplyFailed(w) \/ ApplyConflict(w)
             \/ ApplyProjected(w)
      PROVE  IInv'
  BY <1>6, QuietEnds
<1>7. ASSUME NEW w \in Write, ApplyDone(w) \/ ApplyAnswerLost(w) PROVE IInv'
  BY <1>7, WritesPreserve
<1>10. ASSUME NEW w \in Write, Resend(w) PROVE IInv'
  BY <1>10, ResendPreserves
<1>8. ASSUME NEW w \in Write, AuditWritten(w) \/ AuditFailed(w) PROVE IInv'
  BY <1>8, AuditPreserves
<1>9. ASSUME NEW w \in Write, Crash(w) PROVE IInv'
  BY <1>9, CrashPreserves
<1> QED
  BY <1>1, <1>2, <1>3, <1>4, <1>5, <1>6, <1>7, <1>8, <1>9, <1>10 DEF Next

-----------------------------------------------------------------------------
\* The inductive invariant holds of every behaviour of the funnel.
THEOREM InvariantHolds == Spec => []IInv
  BY InitIInv, NextIInv, PTL DEF Spec

\* Whatever the number of requests and of versions, the funnel's locals, rows and
\* responses have their types, and are there when the stage of the request says so.
THEOREM TypeCorrect == Spec => []TypeOK
<1>1. IInv => TypeOK
  BY DEF IInv
<1> QED
  BY <1>1, InvariantHolds, PTL

\* Any number of concurrent writers, and anybody else writing beside them: a write that
\* carries a version replaces the object its author was looking at, and no other.
THEOREM WritesReplaceWhatWasSeen == Spec => []NoLostUpdate
<1>1. IInv => NoLostUpdate
  BY DEF IInv
<1> QED
  BY <1>1, InvariantHolds, PTL

\* A success's diff is the change that was made, whoever wrote between the handler's read
\* and its call: the API server's comparison is what makes it so.
THEOREM DiffsAreTrue == Spec => []AppliedDiffIsTrue
<1>1. IInv => AppliedDiffIsTrue
  BY DEF IInv, RowsAreTrue, RowIsTrue, AppliedDiffIsTrue
<1> QED
  BY <1>1, InvariantHolds, PTL

\* Rows and responses say what happened on the cluster and denials name what was refused;
\* what leaves it open is "failed", a PUT or DELETE sent again, and the 500 of a POST or
\* PATCH.
THEOREM TrailIsTrue == Spec => []TrailTellsTheTruth
<1>1. IInv => TrailTellsTheTruth
  <2> SUFFICES ASSUME IInv PROVE TrailTellsTheTruth
    OBVIOUS
  <2>1. DenialNamesWhatWasRefused
    BY DEF IInv, RowsAreTrue, RowIsTrue, DenialNamesWhatWasRefused
  <2>2. \A w \in Write : (\E r \in trail : r.write = w) => Rows(w) # {}
    BY DEF Rows
  <2> QED
    BY <2>1, <2>2 DEF IInv, RowsAreTrue, RowIsTrue, AnswersAreTrue, TrailTellsTheTruth
<1> QED
  BY <1>1, InvariantHolds, PTL

\* Every answered request that reached the funnel has one row in whichever of the nine ways
\* it ended, and none if record() failed or an exception passed the funnel by, which no
\* replace or delete that changed anything meets.
THEOREM OneRowForEveryEnd == Spec => []EveryEndIsRecorded
<1>1. IInv => EveryEndIsRecorded
  <2> SUFFICES ASSUME IInv, NEW w \in Write,
                      pc[w] = "done",
                      answer[w] \notin {[error |-> "not_found"], [error |-> "unread"]}
               PROVE  /\ Cardinality(Rows(w)) =
                           IF w \in unrecorded \/ answer[w] = [error |-> "internal"] THEN 0 ELSE 1
                      /\ answer[w] = [error |-> "internal"] /\ effect[w] # NULL =>
                           req[w].kind \notin Resendable
    BY DEF EveryEndIsRecorded
  <2>1. CASE w \in unrecorded \/ answer[w] = [error |-> "internal"]
    <3>1. Rows(w) = {}
      BY <2>1 DEF IInv, RowsAtTheEnd, Escaped, Rows
    <3> QED
      BY <2>1, <3>1, FS_EmptySet DEF IInv, RowsAtTheEnd
  <2>2. CASE ~(w \in unrecorded \/ answer[w] = [error |-> "internal"])
    <3>1. PICK r \in trail : r.write = w
      BY <2>2 DEF IInv, RowsAtTheEnd, Escaped
    <3>2. Rows(w) = {r}
      BY <3>1 DEF IInv, RowsAtTheEnd, Rows
    <3> QED
      BY <2>2, <3>2, FS_Singleton
  <2> QED
    BY <2>1, <2>2
<1> QED
  BY <1>1, InvariantHolds, PTL
=============================================================================
