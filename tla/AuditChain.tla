----------------------------- MODULE AuditChain -----------------------------
(***************************************************************************)
(* The write path of the audit trail: app/audit/recorder.py (record and    *)
(* its insert loop) and app/audit/integrity.py (chain_tip and the          *)
(* before_flush listener), run by any number of request threads and        *)
(* replicas against one audit table.                                       *)
(*                                                                         *)
(* Every attempt of a record() call is a database transaction of several   *)
(* statements: read the chain tip, INSERT (the id is drawn from the        *)
(* sequence there), wait on the UNIQUE index, COMMIT.  Transactions run    *)
(* under READ COMMITTED, so everything another call commits in between is  *)
(* visible to the next statement and nothing uncommitted ever is.  SQLite  *)
(* allows fewer interleavings (one writer at a time, id = max + 1).        *)
(*                                                                         *)
(* SHA-256 is taken to be injective, so a row's event_hash stands for what *)
(* it commits to: the sequence of all the events from GENESIS to the row.  *)
(***************************************************************************)
EXTENDS Naturals, Sequences, FiniteSets

CONSTANTS
  Call,          \* the record() calls ever made; a call is also its event
  ChainRetries,  \* recorder.CHAIN_RETRIES
  NULL           \* SQL NULL and Python None

ASSUME RetriesAssumption == ChainRetries \in Nat \ {0}
ASSUME NullAssumption == NULL \notin Seq(Call) /\ NULL \notin Nat

VARIABLES
  rows,      \* the committed audit rows
  seq,       \* the id sequence: the last id drawn
  pc,        \* where each call is
  attempt,   \* the insert loop's counter
  tip,       \* the prev_hash this attempt's row was stamped with
  rowid,     \* the id this attempt's row was given
  result,    \* what record() returned
  began      \* history: how long the chain was when the call was made

vars == <<rows, seq, pc, attempt, tip, rowid, result, began>>

GENESIS == <<>>

\* compute_event_hash: the row's content together with its prev_hash.
EventHash(event, prev) == Append(prev, event)

ChainedIn(table) == {r \in table : r.hash # NULL}
Chained == ChainedIn(rows)

\* Fault: the newest row by id is the tip, linked to or not.
NewestById(table) == {r \in ChainedIn(table) : \A s \in ChainedIn(table) : s.id <= r.id}

\* The chained rows whose hash nothing links to.
Tips(table) == {r \in ChainedIn(table) : \A s \in table : s.prev # r.hash}

ChainTip(table) ==
  IF Tips(table) = {}
  THEN GENESIS
  ELSE (CHOOSE r \in Tips(table) : \A s \in Tips(table) : s.id <= r.id).hash

\* The row of c's open transaction.  The last attempt's is written unchained.
RowOf(c) ==
  [id    |-> rowid[c],
   event |-> c,
   prev  |-> tip[c],
   hash  |-> IF tip[c] = NULL THEN NULL ELSE EventHash(c, tip[c])]

\* The loop ends here, whatever comes of the attempt.
LastAttempt(c) == attempt[c] = ChainRetries

-----------------------------------------------------------------------------
Init ==
  /\ rows = {}
  /\ seq = 0
  /\ pc = [c \in Call |-> "idle"]
  /\ attempt = [c \in Call |-> 0]
  /\ tip = [c \in Call |-> NULL]
  /\ rowid = [c \in Call |-> NULL]
  /\ result = [c \in Call |-> NULL]
  /\ began = [c \in Call |-> 0]

\* record(): the row's facts are resolved once, then the loop starts.
Record(c) ==
  /\ pc[c] = "idle"
  /\ pc' = [pc EXCEPT ![c] = "open"]
  /\ began' = [began EXCEPT ![c] = Len(ChainTip(rows))]
  /\ UNCHANGED <<rows, seq, attempt, tip, rowid, result>>

\* Fault: the link computed for the first attempt is kept for the next ones.
StampStale(c) ==
  /\ pc[c] = "open"
  /\ tip' = [tip EXCEPT ![c] = IF LastAttempt(c) THEN NULL
                              ELSE IF attempt[c] > 0 THEN @ ELSE ChainTip(rows)]
  /\ pc' = [pc EXCEPT ![c] = "insert"]
  /\ UNCHANGED <<rows, seq, attempt, rowid, result, began>>

\* A new session and its flush: the listener reads the tip and links the row to
\* it, unless this is the last attempt, whose row is marked unchained.
Stamp(c) ==
  /\ pc[c] = "open"
  /\ tip' = [tip EXCEPT ![c] = IF LastAttempt(c) THEN NULL ELSE ChainTip(rows)]
  /\ pc' = [pc EXCEPT ![c] = "insert"]
  /\ UNCHANGED <<rows, seq, attempt, rowid, result, began>>

\* Fault: the row keeps the id its first attempt was given.
InsertSameId(c) ==
  /\ pc[c] = "insert"
  /\ seq' = IF rowid[c] = NULL THEN seq + 1 ELSE seq
  /\ rowid' = [rowid EXCEPT ![c] = IF @ = NULL THEN seq + 1 ELSE @]
  /\ pc' = [pc EXCEPT ![c] = "unique"]
  /\ UNCHANGED <<rows, attempt, tip, result, began>>

\* The INSERT draws an id.  A sequence is not transactional: the id is used up
\* whatever happens to the row.
Insert(c) ==
  /\ pc[c] = "insert"
  /\ seq' = seq + 1
  /\ rowid' = [rowid EXCEPT ![c] = seq + 1]
  /\ pc' = [pc EXCEPT ![c] = "unique"]
  /\ UNCHANGED <<rows, attempt, tip, result, began>>

\* Faults: no UNIQUE index; a rollback that does not release its index entry.
NoUniqueIndex(c) == FALSE
ContendedForever(c) ==
  \E d \in Call \ {c} : pc[d] \in {"commit", "done"} /\ tip[d] = tip[c]

\* UNIQUE(prev_hash): an INSERT that meets an uncommitted row with the same
\* prev_hash waits for that transaction to end.  NULLs never collide.
LinkTaken(c) == \E r \in rows : r.prev = tip[c]
LinkContended(c) ==
  \E d \in Call \ {c} : pc[d] = "commit" /\ tip[d] = tip[c]

UniqueGranted(c) ==
  /\ pc[c] = "unique"
  /\ tip[c] # NULL => ~LinkTaken(c) /\ ~LinkContended(c)
  /\ pc' = [pc EXCEPT ![c] = "commit"]
  /\ UNCHANGED <<rows, seq, attempt, tip, rowid, result, began>>

\* IntegrityError: roll back and go round the loop with a fresh row.
UniqueRefused(c) ==
  /\ pc[c] = "unique"
  /\ tip[c] # NULL
  /\ LinkTaken(c)
  /\ attempt' = [attempt EXCEPT ![c] = @ + 1]
  /\ pc' = [pc EXCEPT ![c] = "open"]
  /\ UNCHANGED <<rows, seq, tip, rowid, result, began>>

\* COMMIT, and the id is captured.
Commit(c) ==
  /\ pc[c] = "commit"
  /\ rows' = rows \union {RowOf(c)}
  /\ result' = [result EXCEPT ![c] = rowid[c]]
  /\ pc' = [pc EXCEPT ![c] = "done"]
  /\ UNCHANGED <<seq, attempt, tip, rowid, began>>

\* Fault: an attempt whose COMMIT failed is retried, the last one included.
RetryAfterLostCommit(c) ==
  /\ pc[c] = "commit"
  /\ rows' = rows \union {RowOf(c)}
  /\ attempt' = [attempt EXCEPT ![c] = @ + 1]
  /\ pc' = [pc EXCEPT ![c] = "open"]
  /\ UNCHANGED <<seq, tip, rowid, result, began>>

\* The COMMIT took effect but its acknowledgement was lost (the connection, or
\* the whole process, died): to the caller this is any other database error.
CommitUnacknowledged(c) ==
  /\ pc[c] = "commit"
  /\ rows' = rows \union {RowOf(c)}
  /\ pc' = [pc EXCEPT ![c] = "done"]
  /\ UNCHANGED <<seq, attempt, tip, rowid, result, began>>

\* Any other exception, at any statement of the attempt: roll back, return None.
\* There is no retry on this path.
Fail(c) ==
  /\ pc[c] \in {"open", "insert", "unique", "commit"}
  /\ pc' = [pc EXCEPT ![c] = "done"]
  /\ UNCHANGED <<rows, seq, attempt, tip, rowid, result, began>>

Next ==
  \E c \in Call :
    \/ Record(c) \/ Stamp(c) \/ Insert(c)
    \/ UniqueGranted(c) \/ UniqueRefused(c)
    \/ Commit(c) \/ CommitUnacknowledged(c) \/ Fail(c)

Spec == Init /\ [][Next]_vars

\* The request thread and the database keep taking the steps of a started call.
Step(c) ==
  Stamp(c) \/ Insert(c) \/ UniqueGranted(c) \/ UniqueRefused(c) \/ Commit(c)

FairSpec == Spec /\ \A c \in Call : WF_vars(Step(c))

-----------------------------------------------------------------------------
Hash == Seq(Call)

Row == [id : Nat, event : Call, prev : Hash \union {NULL},
        hash : Hash \union {NULL}]

\* Every variable has the type its column or local has in the code.
TypeOK ==
  /\ rows \subseteq Row
  /\ seq \in Nat
  /\ pc \in [Call -> {"idle", "open", "insert", "unique", "commit", "done"}]
  /\ attempt \in [Call -> 0..ChainRetries]
  /\ tip \in [Call -> Hash \union {NULL}]
  /\ rowid \in [Call -> Nat \union {NULL}]
  /\ result \in [Call -> Nat \union {NULL}]
  /\ began \in [Call -> Nat]

\* What the walk of integrity.verify demands of a table, at every instant a
\* reader might take its snapshot: going through the chained rows in id order,
\* each one carries the hash of its own content and links to the row just
\* before it, the first one to GENESIS.  A writer that links to a stale tip, or
\* draws its id before it reads the tip, makes verify report tampering that
\* never happened.
WalkFindsNoBreak ==
  \A r \in Chained :
    /\ r.hash = EventHash(r.event, r.prev)
    /\ IF r.prev = GENESIS
       THEN \A s \in Chained : r.id <= s.id
       ELSE \E p \in Chained :
              /\ p.hash = r.prev
              /\ p.id < r.id
              /\ \A s \in Chained : s.id <= p.id \/ r.id <= s.id

\* record() retries, yet it never stores one event twice: a retry only ever
\* follows a refused INSERT, never an attempt whose fate is unknown.
OneRowPerCall == \A r, s \in rows : r.event = s.event => r = s

\* auditId in a response is the id of a durable row about that very call.
AnsweredIdIsDurable ==
  \A c \in Call :
    result[c] # NULL => \E r \in rows : r.id = result[c] /\ r.event = c

\* A call loses an attempt only to a call that did get its row into the chain
\* meanwhile.  So a row lands outside the chain only after ChainRetries other
\* rows were chained during its own record() call.
LostAttemptIsProgress ==
  \A c \in Call : attempt[c] <= Len(ChainTip(rows)) - began[c]

UnchainedOnlyUnderContention ==
  \A r \in rows :
    r.hash = NULL =>
      Len(ChainTip(rows)) >= began[r.event] + ChainRetries

\* Committed rows are never changed or removed, and chained rows become visible
\* in id order: no reader that has seen a chained id is ever shown a smaller one
\* later, which is what paging GET /api/audit by id cursor relies on.
VisibleInIdOrder ==
  [][/\ rows \subseteq rows'
     /\ \A r \in ChainedIn(rows') \ rows : \A s \in Chained : s.id < r.id]_vars

\* Every record() call returns: waiting on the index never lasts for ever.
EveryCallReturns == \A c \in Call : pc[c] = "open" ~> pc[c] = "done"

-----------------------------------------------------------------------------
\* The retry loop implements the atomic append-only trail.
Trail == INSTANCE AuditTrail WITH
  chain  <- ChainTip(rows),
  loose  <- {r.event : r \in rows \ Chained},
  answer <- [c \in Call |->
               IF pc[c] # "done" THEN "none yet"
               ELSE IF result[c] # NULL THEN "id" ELSE "null"]

ImplementsTrail == Trail!Spec
=============================================================================
