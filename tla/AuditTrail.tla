----------------------------- MODULE AuditTrail -----------------------------
(***************************************************************************)
(* What app.audit promises its callers, with no database in sight: a       *)
(* tamper-evident trail is one line of linked records that only ever grows *)
(* at its end, plus the records that had to be kept outside the line.      *)
(*                                                                         *)
(* A record() call is answered exactly once.  It puts its event in the     *)
(* trail at most once, in one atomic step, and it answers with an id only  *)
(* if that step happened.  AuditChain implements this with concurrent      *)
(* transactions, a UNIQUE index and retries.                               *)
(***************************************************************************)
EXTENDS Naturals, Sequences

CONSTANT Call      \* the record() calls ever made; a call is also its event

VARIABLES
  chain,           \* the linked events, oldest first
  loose,           \* the events recorded outside the line ("unchained")
  answer           \* what each call was told: "none yet", "id" or "null"

vars == <<chain, loose, answer>>

Recorded == {chain[i] : i \in 1..Len(chain)} \union loose

TypeOK ==
  /\ chain \in Seq(Call)
  /\ loose \subseteq Call
  /\ answer \in [Call -> {"none yet", "id", "null"}]

Init ==
  /\ chain = <<>>
  /\ loose = {}
  /\ answer = [c \in Call |-> "none yet"]

\* The caller may be told "null" although the record is durable: a COMMIT whose
\* acknowledgement is lost looks like a failure to the client.
Link(c, told) ==
  /\ answer[c] = "none yet"
  /\ c \notin Recorded
  /\ chain' = Append(chain, c)
  /\ answer' = [answer EXCEPT ![c] = told]
  /\ UNCHANGED loose

Keep(c, told) ==
  /\ answer[c] = "none yet"
  /\ c \notin Recorded
  /\ loose' = loose \union {c}
  /\ answer' = [answer EXCEPT ![c] = told]
  /\ UNCHANGED chain

GiveUp(c) ==
  /\ answer[c] = "none yet"
  /\ answer' = [answer EXCEPT ![c] = "null"]
  /\ UNCHANGED <<chain, loose>>

Next ==
  \E c \in Call :
    \/ \E told \in {"id", "null"} : Link(c, told) \/ Keep(c, told)
    \/ GiveUp(c)

Spec == Init /\ [][Next]_vars
=============================================================================
