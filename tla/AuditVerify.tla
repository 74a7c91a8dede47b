---------------------------- MODULE AuditVerify -----------------------------
(***************************************************************************)
(* GET /api/audit/verify (app/audit/integrity.py, verify) reading the      *)
(* trail while AuditChain's writers go on writing it, and while somebody   *)
(* with access to the database, and not the console, may alter one row.    *)
(*                                                                         *)
(* verify is several SELECTs on one READ COMMITTED session: each sees what *)
(* was committed when it started, so the counts, the walk and the          *)
(* diagnosis of a break may describe three different tables.  The walk     *)
(* itself is one statement (streamed with yield_per), hence one snapshot.  *)
(***************************************************************************)
EXTENDS AuditChain, SequencesExt

CONSTANT Window      \* the ?limit= values of a windowed verification

\* A table has finitely many rows; a window has one at least (ge=1); None is no
\* status.
ASSUME CallsAssumption == IsFiniteSet(Call)
ASSUME WindowAssumption == Window \subseteq Nat \ {0}
ASSUME StatusAssumption == NULL \notin {"intact", "partial", "broken"}

VARIABLES
  vpc,        \* the statement verify executes next
  limit,      \* NULL, or the size of the window
  report,     \* the answer, as far as it is known
  snapshot,   \* the chained rows the walk read, in id order
  broke,      \* the position in snapshot where the walk stopped, for diagnosis
  altered     \* history: what was done to the table behind the console's back

verifier == <<vpc, limit, report, snapshot, broke>>
allvars == <<vars, verifier, altered>>

VInit ==
  /\ Init
  /\ vpc = "idle"
  /\ limit = NULL
  /\ report = [status |-> NULL, anchored |-> FALSE, reason |-> NULL, tip |-> NULL,
               total |-> 0, unchained |-> 0, verified |-> 0]
  /\ snapshot = <<>>
  /\ broke = 0
  /\ altered = [kind |-> "none"]

-----------------------------------------------------------------------------
\* Fault: the rows are counted after the ones without a hash.
UnchainedFirst == <<"idle", "unchained", "total", "half", "walk">>

\* The statements of verify, in the order it executes them.
Statements == <<"idle", "total", "unchained", "half", "walk">>

After(p) == Statements[1 + CHOOSE i \in DOMAIN Statements : Statements[i] = p]

Answer(status, anchored, reason, verified, newest) ==
  /\ report' = [report EXCEPT !.status = status, !.anchored = anchored, !.reason = reason,
                              !.verified = verified, !.tip = newest]
  /\ vpc' = "done"

StartVerify ==
  /\ vpc = "idle"
  /\ limit' \in Window \union {NULL}
  /\ vpc' = After("idle")
  /\ UNCHANGED <<report, snapshot, broke>>

CountRows ==
  /\ vpc = "total"
  /\ report' = [report EXCEPT !.total = Cardinality(rows)]
  /\ vpc' = After("total")
  /\ UNCHANGED <<limit, snapshot, broke>>

CountUnchained ==
  /\ vpc = "unchained"
  /\ report' = [report EXCEPT !.unchained = Cardinality({r \in rows : r.hash = NULL})]
  /\ vpc' = After("unchained")
  /\ UNCHANGED <<limit, snapshot, broke>>

\* Fault: a row without a link counts as partially cleared.
IncompleteLink(r) == r.prev = NULL \/ r.hash = NULL

HalfLinked(r) == (r.prev = NULL) # (r.hash = NULL)

FindHalfLinked ==
  /\ vpc = "half"
  /\ IF \E r \in rows : HalfLinked(r)
     THEN Answer("broken", FALSE, "half", 0, NULL)
     ELSE vpc' = After("half") /\ UNCHANGED report
  /\ UNCHANGED <<limit, snapshot, broke>>

\* SELECT ... WHERE event_hash IS NOT NULL ORDER BY id
Listing(table) ==
  CHOOSE l \in [1..Cardinality(ChainedIn(table)) -> ChainedIn(table)] :
    \A i, j \in DOMAIN l : i < j => l[i].id < l[j].id

\* Fault: the stored hash is taken at its word.
HasHash(l, i) == l[i].hash # NULL

\* The i-th row of a listing carries the hash of its own content.
Untouched(l, i) == l[i].prev # NULL /\ l[i].hash = EventHash(l[i].event, l[i].prev)

Expected(l, i) == IF i = 1 THEN GENESIS ELSE l[i - 1].hash

\* Fault: a row's link is not compared with the row before it.
LinksToSomething(l, i) == l[i].prev # NULL

Linked(l, i) == l[i].prev = Expected(l, i)

\* The position of the first row whose check failed, or 0.
FirstFailing(checks) == SelectInSeq(checks, LAMBDA holds : ~holds)

\* The last n of a listing, or all of it.
Newest(l, n) == SubSeq(l, IF Len(l) > n THEN Len(l) - n + 1 ELSE 1, Len(l))

TipOf(l) == IF l = <<>> THEN NULL ELSE Last(l).hash

\* _verify_from_genesis
WalkFromGenesis ==
  /\ vpc = "walk"
  /\ limit = NULL
  /\ snapshot' = Listing(rows)
  /\ LET bad == FirstFailing([i \in DOMAIN snapshot' |->
                             Linked(snapshot', i) /\ Untouched(snapshot', i)])
     IN  CASE bad = 0 ->
                /\ Answer(IF report.unchained = 0 THEN "intact" ELSE "partial",
                          TRUE, NULL, Len(snapshot'), TipOf(snapshot'))
                /\ UNCHANGED broke
           [] bad # 0 /\ Linked(snapshot', bad) ->
                /\ Answer("broken", TRUE, "modified", bad - 1, NULL)
                /\ UNCHANGED broke
           [] OTHER ->
                /\ broke' = bad
                /\ vpc' = "diagnose"
                /\ UNCHANGED report
  /\ UNCHANGED limit

\* Fault: the diagnosis stops at "this row does not link to the one before".
NeverRenumbered(l, i) == FALSE

\* _diagnose_break's question, put to the table as it is by then: does some row
\* claim what the row that stopped the walk was expected to link to?
ChainContinuesElsewhere(l, i) == \E r \in rows : r.prev = Expected(l, i)

Forked(l, i) == i > 1 /\ l[i].prev = l[i - 1].prev

DiagnoseBreak ==
  /\ vpc = "diagnose"
  /\ Answer("broken", TRUE,
            CASE ChainContinuesElsewhere(snapshot, broke) -> "renumbered"
              [] ~ChainContinuesElsewhere(snapshot, broke) /\ Forked(snapshot, broke) -> "fork"
              [] OTHER -> "lost",
            broke - 1, NULL)
  /\ UNCHANGED <<limit, snapshot, broke>>

\* _verify_window.  Its third check, ids ascending, cannot fail on rows that were
\* sorted by id.
WalkWindow ==
  /\ vpc = "walk"
  /\ limit # NULL
  /\ snapshot' = Newest(Listing(rows), limit)
  /\ LET bad == FirstFailing([i \in DOMAIN snapshot' |->
                             Untouched(snapshot', i) /\ (i > 1 => Linked(snapshot', i))])
     IN  IF bad = 0
         THEN Answer("partial", FALSE, NULL, Len(snapshot'), TipOf(snapshot'))
         ELSE Answer("broken", FALSE,
                     IF Untouched(snapshot', bad) THEN "lost" ELSE "modified",
                     bad - 1, NULL)
  /\ UNCHANGED <<limit, broke>>

VerifyStep ==
  \/ StartVerify \/ CountRows \/ CountUnchained \/ FindHalfLinked
  \/ WalkFromGenesis \/ WalkWindow \/ DiagnoseBreak

-----------------------------------------------------------------------------
EventsOf(l) == [i \in DOMAIN l |-> l[i].event]

\* One committed row is altered with a database shell, which the append-only
\* guard of the ORM does not see.  The database's own constraints still hold.
Alter(kind, r, replacement) ==
  /\ altered.kind = "none"
  /\ r \in rows
  /\ rows' = (rows \ {r}) \union replacement
  /\ altered' = [kind     |-> kind,
                 row      |-> r,
                 early    |-> vpc = "idle",
                 interior |-> \E s \in rows : s.prev = r.hash /\ r.hash # NULL,
                 moved    |-> EventsOf(Listing(rows)) # EventsOf(Listing(rows'))]
  /\ UNCHANGED <<seq, pc, attempt, tip, rowid, result, began>>

\* An id no row has or can be given: one of the gaps, or one beyond every id the
\* sequence can still draw.
BeyondIds == Cardinality(Call) * (ChainRetries + 1) + 1
FreeId ==
  ((1..seq) \union {BeyondIds}) \ ({r.id : r \in rows} \union {rowid[c] : c \in Call})

EditRow(r)     == \E e \in Call \ {r.event} : Alter("edit", r, {[r EXCEPT !.event = e]})
DeleteRow(r)   == Alter("delete", r, {})
RenumberRow(r) == \E i \in FreeId : Alter("renumber", r, {[r EXCEPT !.id = i]})
ClearRow(r)    == Alter("clear", r, {[r EXCEPT !.prev = NULL, !.hash = NULL]})
HalfClearRow(r) ==
  /\ r.hash # NULL
  /\ \/ Alter("half", r, {[r EXCEPT !.hash = NULL]})
     \/ Alter("half", r, {[r EXCEPT !.prev = NULL]})

Outsider ==
  \E r \in rows :
    EditRow(r) \/ DeleteRow(r) \/ RenumberRow(r) \/ ClearRow(r) \/ HalfClearRow(r)

VNext ==
  \/ Next /\ UNCHANGED <<verifier, altered>>
  \/ VerifyStep /\ UNCHANGED <<vars, altered>>
  \/ Outsider /\ UNCHANGED verifier

VSpec == VInit /\ [][VNext]_allvars

-----------------------------------------------------------------------------
\* The verifier's locals, and the report it returns, have their types.
VTypeOK ==
  /\ vpc \in {"idle", "total", "unchained", "half", "walk", "diagnose", "done"}
  /\ limit \in Window \union {NULL}
  /\ report.status \in {NULL, "intact", "partial", "broken"}
  /\ vpc = "done" <=> report.status # NULL
  /\ report.status = "broken" <=>
       report.reason \in {"half", "modified", "renumbered", "fork", "lost"}
  /\ report.verified <= Len(snapshot)
  /\ broke \in 0..Len(snapshot)

\* However its SELECTs interleave with writers that wait, retry, fail and give up
\* chaining, verify never reports a trail nobody altered as broken.
NoFalseAlarm == altered.kind = "none" => report.status # "broken"

\* The three numbers of a pass come from three statements, and rows are committed
\* in between.  No row is missed for that: whatever existed when the total was
\* taken is either walked or counted as unchained.
ReportAccountsForEveryRow ==
  altered.kind = "none" /\ vpc = "done" /\ limit = NULL =>
    report.total <= report.unchained + report.verified

\* A full verification that finds no break has established that the records, in
\* the order a listing by id shows them, are exactly the sequence of events the
\* newest record's hash commits to: no local check of neighbours that leaves a
\* gap, whatever was altered and whenever.
PassAttestsListing ==
  report.status \in {"intact", "partial"} /\ report.anchored =>
    report.tip = IF snapshot = <<>> THEN NULL ELSE EventsOf(snapshot)

EarlyAndChained == altered.early /\ altered.row.hash # NULL

\* A single alteration of a chained record made before the verification started is
\* reported, even though the writers went on appending, and re-chaining after
\* lost races, around it.  Two things are not promised: that removing the newest
\* record is noticed, and that an id changed without changing the order is.
AlterationIsReported ==
  vpc = "done" /\ limit = NULL /\ altered.kind # "none" /\ EarlyAndChained =>
    /\ altered.kind \in {"edit", "half"} => report.status = "broken"
    /\ altered.kind \in {"delete", "clear"} /\ altered.interior =>
         report.status = "broken"
    /\ altered.kind = "clear" => report.status # "intact"
    /\ altered.kind = "renumber" /\ altered.moved => report.status = "broken"

\* No verification, full or windowed, vouches for an edited record it has read,
\* even if the edit came between two of its statements.
EditedRecordIsNotVouchedFor ==
  altered.kind = "edit" /\ vpc = "done"
  /\ (\E i \in DOMAIN snapshot : /\ snapshot[i].id = altered.row.id
                                 /\ snapshot[i].event # altered.row.event)
    => report.status = "broken"

\* A changed id is never reported as a deletion or a fork: by the time the break
\* is diagnosed the successor is still found, whatever was committed meanwhile.
RenumberingIsNamed ==
  altered.kind = "renumber" /\ limit = NULL /\ report.status = "broken" =>
    report.reason = "renumbered"

\* No alteration of one row, short of clearing half of its link, leaves the trail
\* unable to grow: the tip the next record will be linked to is not taken yet.
\* A tip chosen by id would be taken for ever after a renumbering, and every later
\* record would land unchained.
TrailStaysOpen ==
  altered.kind # "half" => \A r \in rows : r.prev # ChainTip(rows)
=============================================================================
