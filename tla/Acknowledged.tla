---------------------------- MODULE Acknowledged -----------------------------
(***************************************************************************)
(* The plan, acknowledge, write handshake every writer with consequences   *)
(* follows: a plan shows what the change would do, the caller sends the     *)
(* codes it accepts, and the write reads everything again and refuses what  *)
(* was not accepted.  Other clients move the cluster between any two        *)
(* requests of either call.  What a writer reads, refuses, warns about and  *)
(* writes is in Writers; gate, preflight, diff and audit rows are           *)
(* WriteFunnel's.                                                           *)
(***************************************************************************)
EXTENDS Naturals, Writers

CONSTANTS
  Writers,
  MaxMoves               \* bound: changes made by others during one session

ASSUME WritersAssumption == Writers \subseteq WriterNames
\* No version, and no row.
ASSUME NothingAssumption == NULL \notin Nat /\ NULL # "applied"

VARIABLES
  writer, want,          \* the session's writer and what its caller asks for
  object, version,       \* the live object and its resourceVersion
  around,                \* the objects read besides
  moves,
  pc,
  shown,                 \* what the plan showed
  request,               \* the write's acknowledgement and version
  seen,                  \* what the write read
  truth,                 \* the surroundings at that moment
  landed,                \* the object replaced by the write
  row                    \* outcome of the audit row, if any

handshake ==
  <<writer, want, object, version, around, moves, pc, shown, request, seen, truth,
    landed, row>>

Missing == [codes |-> {}, version |-> NULL]

HandshakeInit ==
  /\ writer \in Writers
  /\ want \in WriterWants(writer)
  /\ object \in WriterObjects(writer) /\ version = 0
  /\ around \in WriterSurroundings(writer)
  /\ moves = 0
  /\ pc = "idle"
  /\ shown = NULL /\ request = NULL /\ seen = NULL /\ truth = NULL
  /\ landed = NULL /\ row = NULL

\* The listed or fetched object's version; an object that is not there has none.
VersionOf(o, v) == IF o = NULL THEN NULL ELSE v

\* plan: reads everything, writes nothing.  A refusal is shown as `blocked`.
Plan ==
  /\ pc = "idle" /\ WriterValid(writer, want)
  /\ \E reading \in WriterReadings(writer, around) :
       shown' = [codes |-> IF WriterRefused(writer, object, reading, want) THEN {}
                           ELSE WriterCodes(writer, object, reading, want),
                 version |-> VersionOf(object, version)]
  /\ pc' = "planned"
  /\ UNCHANGED <<writer, want, object, version, around, moves, request, seen, truth,
                 landed, row>>

\* The caller accepts what it was shown, or nothing; it may leave the version out.
Submit ==
  /\ pc \in {"idle", "planned"}
  /\ LET plan == IF shown = NULL THEN Missing ELSE shown
     IN \E codes \in {plan.codes, {}}, v \in {plan.version, NULL} :
          request' = [codes |-> codes, version |-> v]
  /\ pc' = IF WriterValid(writer, want) THEN "called" ELSE "answered"
  /\ UNCHANGED <<writer, want, object, version, around, moves, shown, seen, truth,
                 landed, row>>

\* _require_version and the inline comparisons: a version the caller has not seen
\* is a conflict, and an audited one.
Stale(sent, live) == sent # NULL /\ live # NULL /\ sent # live

ReadLive ==
  /\ pc = "called"
  /\ seen' = [object |-> object, version |-> VersionOf(object, version), around |-> NULL]
  /\ IF Stale(request.version, seen'.version)
     THEN pc' = "answered" /\ row' = "conflict"
     ELSE pc' = "read" /\ row' = row
  /\ UNCHANGED <<writer, want, object, version, around, moves, shown, request, truth,
                 landed>>

\* _require_acknowledgement: the codes of what was read now, not of the plan.
Acknowledged(codes, accepted) == codes \subseteq accepted

Recompute ==
  /\ pc = "read"
  /\ truth' = around
  /\ \E reading \in WriterReadings(writer, around) :
       /\ seen' = [seen EXCEPT !.around = reading]
       /\ pc' = IF /\ ~WriterRefused(writer, seen.object, reading, want)
                   /\ Acknowledged(WriterCodes(writer, seen.object, reading, want),
                                   request.codes)
                THEN "admitted" ELSE "answered"
  /\ UNCHANGED <<writer, want, object, version, around, moves, shown, request, landed,
                 row>>

\* build_patch: the version the caller saw, else the one just read.
SentOrLive == IF request.version # NULL THEN request.version ELSE seen.version

\* Fault: the patch carries no version.
PatchesBlindly ==
  IF seen.object = NULL \/ WriterCreates(writer) THEN object = NULL ELSE object # NULL

\* The API server: a create needs the name to be free.
Precondition ==
  IF seen.object = NULL \/ WriterCreates(writer) THEN object = NULL
  ELSE object # NULL /\ (WriterConditional(writer, seen.object) => SentOrLive = version)

Land ==
  /\ pc = "admitted"
  /\ pc' = "answered"
  /\ IF Precondition
     THEN /\ landed' = object /\ row' = "applied"
          /\ object' = WriterApplied(writer, object, want) /\ version' = version + 1
     ELSE landed' = landed /\ row' = "conflict" /\ UNCHANGED <<object, version>>
  /\ UNCHANGED <<writer, want, around, moves, shown, request, seen, truth>>

\* The gate, the access review or the API server refuses, or a read fails: nothing is
\* written.  A refusal of the funnel is a row.
Refuse ==
  /\ pc \in {"called", "read", "admitted"}
  /\ pc' = "answered"
  /\ row' = IF pc = "admitted" THEN "refused" ELSE row
  /\ UNCHANGED <<writer, want, object, version, around, moves, shown, request, seen,
                 truth, landed>>

HandshakeStep == Plan \/ Submit \/ ReadLive \/ Recompute \/ Land \/ Refuse

\* Another client, or a controller: the object changes with its version, what is
\* around it without.
Moves ==
  /\ pc \in {"planned", "called", "read", "admitted"}
  /\ moves < MaxMoves /\ moves' = moves + 1
  /\ \/ /\ object' \in WriterObjects(writer) \ {object}
        /\ version' = version + 1 /\ around' = around
     \/ /\ around' \in WriterSurroundings(writer) \ {around}
        /\ UNCHANGED <<object, version>>
  /\ UNCHANGED <<writer, want, pc, shown, request, seen, truth, landed, row>>

HandshakeNext == HandshakeStep \/ Moves

-----------------------------------------------------------------------------
\* What a write with a version replaces is what its caller accepted: nothing changed
\* the object, between the plan, the write's read and the moment it lands, into one
\* the same write would have refused or warned about in words nobody acknowledged.
WhatLandsWasAccepted ==
  row = "applied" =>
    LET o == IF WriterConditional(writer, landed) THEN landed ELSE seen.object
    IN /\ ~WriterRefused(writer, o, seen.around, want)
       /\ WriterCodes(writer, o, seen.around, want) \subseteq request.codes

\* A fact that could not be read is never taken as harmless: whatever the change did
\* when its writer looked, the caller accepted the code that says so, or the code that
\* says it is not known.
UnreadIsNeverSafe ==
  row = "applied" =>
    \A named \in WriterDangers(writer, seen.object, truth, want) : named \cap request.codes # {}
=============================================================================
