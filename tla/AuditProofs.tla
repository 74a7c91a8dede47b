----------------------------- MODULE AuditProofs -----------------------------
(***************************************************************************)
(* Proofs about AuditChain, for any set of calls and any CHAIN_RETRIES,    *)
(* and about AuditVerify, for any finite set of calls and any windows.     *)
(*                                                                         *)
(* 1. IInv: the committed chained rows are one line whose end has the      *)
(*    highest id, and every open transaction's link and id fit that line.  *)
(*    It is inductive, and the walk of integrity.verify, the id order and  *)
(*    the at-most-once property follow from it.                            *)
(* 2. ProgressInv, on top of it: an attempt is only lost to growth.        *)
(* 3. TrailInv, on top of it: the retry loop implements AuditTrail.        *)
(*                                                                         *)
(* Then about AuditVerify, where an outsider alters the table and verify   *)
(* reads it between the writers' steps:                                    *)
(* 4. TableInv: what each kind of alteration leaves of IInv. The ids and   *)
(*    the lengths survive every one of them, the line survives a           *)
(*    renumbering, and everything holds of a trail nobody touched.         *)
(* 5. AlteredInv: the trace an alteration leaves, which no later write     *)
(*    removes.                                                             *)
(* 6. VerifierInv: what verify has read by each of its statements. What a  *)
(*    walk over a listing of any length attests is by least counterexample *)
(*    (NatIsWellFounded): the first row that breaks a rule is the first to *)
(*    disagree.                                                            *)
(***************************************************************************)
EXTENDS AuditVerify, FiniteSetTheorems, WellFoundedInduction, TLAPS

\* A committed row has both halves of its link or neither, commits to its own
\* content, and belongs to a call that has returned: so no call writes it again.
RowWellFormed ==
  \A r \in rows :
    /\ r.id <= seq
    /\ r.prev = NULL <=> r.hash = NULL
    /\ r.prev # NULL => r.hash = EventHash(r.event, r.prev)
    /\ pc[r.event] = "done"

\* No two rows, committed or being inserted, have one id.
IdsDistinct ==
  /\ \A r, s \in rows : r.id = s.id => r = s
  /\ \A c \in Call :
       pc[c] \in {"unique", "commit"} =>
         /\ rowid[c] \in Nat
         /\ rowid[c] <= seq
         /\ \A r \in rows : r.id # rowid[c]
         /\ \A d \in Call \ {c} :
              pc[d] \in {"unique", "commit"} => rowid[d] # rowid[c]

\* The chained rows are one line: no two claim one predecessor, the line starts
\* at GENESIS and has an end, and that end carries the highest id of the line.
Linear ==
  /\ \A r, s \in Chained : r.prev = s.prev => r = s
  /\ Chained # {} => /\ \E r \in Chained : r.prev = GENESIS
                     /\ Tips(rows) # {}
  /\ \A t \in Tips(rows) : \A r \in Chained : r.id <= t.id

\* Only the last attempt goes without a link.  Any other link leads to a committed
\* row, whose id is smaller than the one drawn afterwards.
StampIsCommitted ==
  \A c \in Call :
    /\ pc[c] \in {"insert", "unique", "commit"} =>
         (tip[c] = NULL <=> attempt[c] = ChainRetries)
    /\ pc[c] \in {"insert", "unique", "commit"} /\ tip[c] \notin {NULL, GENESIS} =>
         \E s \in Chained :
           /\ s.hash = tip[c]
           /\ pc[c] \in {"unique", "commit"} => s.id < rowid[c]

\* The UNIQUE index: a transaction that has passed it is the only one, committed
\* or not, with its prev_hash.
GrantIsExclusive ==
  \A c \in Call :
    pc[c] = "commit" /\ tip[c] # NULL => ~LinkTaken(c) /\ ~LinkContended(c)

\* The inductive invariant.  WalkFindsNoBreak alone is not inductive: whether a
\* commit keeps it depends on what the open transactions carry.
IInv ==
  /\ TypeOK
  /\ RowWellFormed
  /\ IdsDistinct
  /\ Linear
  /\ StampIsCommitted
  /\ GrantIsExclusive
  /\ WalkFindsNoBreak

\* On one line chain_tip's choice among the tips is no choice at all.
LEMMA TipOfLine ==
  ASSUME TypeOK, IdsDistinct, Linear
  PROVE  /\ Chained = {} => ChainTip(rows) = GENESIS
         /\ Chained # {} => \E t \in Tips(rows) :
              /\ ChainTip(rows) = t.hash
              /\ \A u \in Tips(rows) : u = t
         /\ ChainTip(rows) \in Hash
<1>1. Tips(rows) \subseteq Chained
  BY DEF Tips, Chained, ChainedIn
<1>2. CASE Chained = {}
  <2>1. Tips(rows) = {}
    BY <1>1, <1>2
  <2> QED
    BY <2>1, <1>2 DEF ChainTip, GENESIS, Hash
<1>3. CASE Chained # {}
  <2>1. PICK t \in Tips(rows) : TRUE
    BY <1>3 DEF Linear
  <2>2. \A u \in Tips(rows) : u = t
    <3> SUFFICES ASSUME NEW u \in Tips(rows) PROVE u = t
      OBVIOUS
    <3>1. u \in rows /\ t \in rows /\ u.id \in Nat /\ t.id \in Nat
      BY <1>1, <2>1 DEF Chained, ChainedIn, TypeOK, Row
    <3>2. u.id <= t.id /\ t.id <= u.id
      BY <1>1, <2>1 DEF Linear
    <3> QED
      BY <3>1, <3>2 DEF IdsDistinct
  <2>3. \A s \in Tips(rows) : s.id <= t.id
    BY <1>1, <2>1 DEF Linear
  <2>4. (CHOOSE r \in Tips(rows) : \A s \in Tips(rows) : s.id <= r.id) = t
    BY <2>1, <2>2, <2>3
  <2>5. ChainTip(rows) = t.hash
    BY <2>1, <2>4 DEF ChainTip
  <2>6. t.hash \in Hash
    BY <1>1, <2>1 DEF Chained, ChainedIn, TypeOK, Row
  <2> QED
    BY <1>3, <2>1, <2>2, <2>5, <2>6
<1> QED
  BY <1>2, <1>3

\* The empty table is a line.
LEMMA InitIInv == Init => IInv
<1> SUFFICES ASSUME Init PROVE IInv
  OBVIOUS
<1> USE DEF Init
<1>1. TypeOK
  BY RetriesAssumption DEF TypeOK, Row, Hash
<1>2. Tips(rows) = {} /\ Chained = {}
  BY DEF Tips, Chained, ChainedIn
<1>3. RowWellFormed /\ IdsDistinct /\ StampIsCommitted /\ GrantIsExclusive
  BY DEF RowWellFormed, IdsDistinct, StampIsCommitted, GrantIsExclusive
<1>4. Linear /\ WalkFindsNoBreak
  BY <1>2 DEF Linear, WalkFindsNoBreak
<1> QED
  BY <1>1, <1>3, <1>4 DEF IInv

\* What depends on the table alone survives a step that leaves the table alone.
LEMMA TableUnchanged ==
  ASSUME Linear, WalkFindsNoBreak, rows' = rows
  PROVE  /\ Linear' /\ WalkFindsNoBreak'
         /\ Chained' = Chained
         /\ Tips(rows)' = Tips(rows)
         /\ ChainTip(rows)' = ChainTip(rows)
BY DEF Linear, WalkFindsNoBreak, Chained, ChainedIn, Tips, ChainTip

\* The steps that leave the table alone preserve the invariant, one by one: the
\* start of a call, ...
LEMMA RecordStep ==
  ASSUME IInv, NEW c \in Call, Record(c)
  PROVE  IInv'
<1> USE DEF IInv, Record
<1>1. Linear' /\ WalkFindsNoBreak' /\ Chained' = Chained
  BY TableUnchanged
<1>2. Len(ChainTip(rows)) \in Nat
  BY TipOfLine DEF Hash
<1>3. TypeOK'
  BY <1>2 DEF TypeOK
<1>4. RowWellFormed'
  BY DEF RowWellFormed, TypeOK, Row
<1>5. IdsDistinct'
  BY DEF IdsDistinct, TypeOK
<1>6. StampIsCommitted'
  BY <1>1 DEF StampIsCommitted, TypeOK
<1>7. GrantIsExclusive'
  BY DEF GrantIsExclusive, LinkTaken, LinkContended, TypeOK
<1> QED
  BY <1>1, <1>3, <1>4, <1>5, <1>6, <1>7

\* ... the reading of the tip, which is committed by then, ...
LEMMA StampStep ==
  ASSUME IInv, NEW c \in Call, Stamp(c)
  PROVE  IInv'
<1> USE DEF IInv, Stamp
<1>1. Linear' /\ WalkFindsNoBreak' /\ Chained' = Chained
  BY TableUnchanged
<1>2. ChainTip(rows) \in Hash /\ ChainTip(rows) # NULL
  BY TipOfLine, NullAssumption DEF Hash
<1>3. TypeOK'
  BY <1>2 DEF TypeOK
<1>4. RowWellFormed'
  BY DEF RowWellFormed, TypeOK, Row
<1>5. IdsDistinct'
  BY DEF IdsDistinct, TypeOK
<1>6. ChainTip(rows) # GENESIS => \E s \in Chained : s.hash = ChainTip(rows)
  BY TipOfLine DEF Tips, Chained, ChainedIn
<1>7. StampIsCommitted'
  BY <1>1, <1>2, <1>6 DEF StampIsCommitted, TypeOK, LastAttempt
<1>8. GrantIsExclusive'
  BY DEF GrantIsExclusive, LinkTaken, LinkContended, TypeOK
<1> QED
  BY <1>1, <1>3, <1>4, <1>5, <1>7, <1>8

\* ... the INSERT, whose id is above every id drawn before, ...
LEMMA InsertStep ==
  ASSUME IInv, NEW c \in Call, Insert(c)
  PROVE  IInv'
<1> USE DEF IInv, Insert
<1>1. Linear' /\ WalkFindsNoBreak' /\ Chained' = Chained
  BY TableUnchanged
<1>2. TypeOK'
  BY DEF TypeOK
<1>3. \A r \in rows : r.id \in Nat /\ r.id <= seq
  BY DEF TypeOK, Row, RowWellFormed
<1>4. RowWellFormed'
  BY <1>3 DEF RowWellFormed, TypeOK, Row
<1>5. IdsDistinct'
  BY <1>3 DEF IdsDistinct, TypeOK
<1>6. StampIsCommitted'
  BY <1>1, <1>3 DEF StampIsCommitted, TypeOK, Chained, ChainedIn
<1>7. GrantIsExclusive'
  BY DEF GrantIsExclusive, LinkTaken, LinkContended, TypeOK
<1> QED
  BY <1>1, <1>2, <1>4, <1>5, <1>6, <1>7

\* ... the index granting the link to one transaction, ...
LEMMA UniqueGrantedStep ==
  ASSUME IInv, NEW c \in Call, UniqueGranted(c)
  PROVE  IInv'
<1> USE DEF IInv, UniqueGranted
<1>1. Linear' /\ WalkFindsNoBreak' /\ Chained' = Chained
  BY TableUnchanged
<1>2. TypeOK'
  BY DEF TypeOK
<1>3. RowWellFormed'
  BY DEF RowWellFormed, TypeOK, Row
<1>4. IdsDistinct'
  BY DEF IdsDistinct, TypeOK
<1>5. StampIsCommitted'
  BY <1>1 DEF StampIsCommitted, TypeOK
<1>6. GrantIsExclusive'
  BY DEF GrantIsExclusive, LinkTaken, LinkContended, TypeOK
<1> QED
  BY <1>1, <1>2, <1>3, <1>4, <1>5, <1>6

\* ... or refusing it, which never happens to a last attempt, ...
LEMMA UniqueRefusedStep ==
  ASSUME IInv, NEW c \in Call, UniqueRefused(c)
  PROVE  IInv'
<1> USE DEF IInv, UniqueRefused
<1>1. Linear' /\ WalkFindsNoBreak' /\ Chained' = Chained
  BY TableUnchanged
<1>2. attempt[c] \in 0..ChainRetries /\ attempt[c] # ChainRetries
  BY DEF TypeOK, StampIsCommitted
<1>3. TypeOK'
  BY <1>2, RetriesAssumption DEF TypeOK
<1>4. RowWellFormed'
  BY DEF RowWellFormed, TypeOK, Row
<1>5. IdsDistinct'
  BY DEF IdsDistinct, TypeOK
<1>6. StampIsCommitted'
  BY <1>1 DEF StampIsCommitted, TypeOK
<1>7. GrantIsExclusive'
  BY DEF GrantIsExclusive, LinkTaken, LinkContended, TypeOK
<1> QED
  BY <1>1, <1>3, <1>4, <1>5, <1>6, <1>7

\* ... and a failed attempt, which takes nothing with it.
LEMMA FailStep ==
  ASSUME IInv, NEW c \in Call, Fail(c)
  PROVE  IInv'
<1> USE DEF IInv, Fail
<1>1. Linear' /\ WalkFindsNoBreak' /\ Chained' = Chained
  BY TableUnchanged
<1>2. TypeOK'
  BY DEF TypeOK
<1>3. RowWellFormed'
  BY DEF RowWellFormed, TypeOK, Row
<1>4. IdsDistinct'
  BY DEF IdsDistinct, TypeOK
<1>5. StampIsCommitted'
  BY <1>1 DEF StampIsCommitted, TypeOK
<1>6. GrantIsExclusive'
  BY DEF GrantIsExclusive, LinkTaken, LinkContended, TypeOK
<1> QED
  BY <1>1, <1>2, <1>3, <1>4, <1>5, <1>6

\* Injectivity of the hash, as far as the proofs need it.
LEMMA HashDeterminesEvent ==
  ASSUME NEW p \in Hash, NEW q \in Hash, NEW c \in Call, NEW d \in Call,
         EventHash(c, p) = EventHash(d, q)
  PROVE  c = d
<1>1. Len(Append(p, c)) = Len(p) + 1 /\ Len(Append(q, d)) = Len(q) + 1
  BY DEF Hash
<1>2. Append(p, c)[Len(p) + 1] = c /\ Append(q, d)[Len(q) + 1] = d
  BY DEF Hash
<1> QED
  BY <1>1, <1>2 DEF EventHash, Hash

\* A row's hash is neither the one it links to nor the start of the chain.
LEMMA HashIsNew ==
  ASSUME NEW p \in Hash, NEW c \in Call
  PROVE  /\ EventHash(c, p) \in Hash
         /\ EventHash(c, p) # p
         /\ EventHash(c, p) # GENESIS
         /\ EventHash(c, p) # NULL
<1>1. Append(p, c) \in Seq(Call) /\ Len(Append(p, c)) = Len(p) + 1 /\ Len(p) \in Nat
  BY DEF Hash
<1>2. Len(<<>>) = 0
  OBVIOUS
<1> QED
  BY <1>1, <1>2, NullAssumption DEF EventHash, Hash, GENESIS

\* A row that is about to be committed extends the line at its very end: its
\* predecessor is the only tip, and its id is above every chained id.
LEMMA GrantedRowIsNext ==
  ASSUME IInv, NEW c \in Call, pc[c] = "commit", tip[c] # NULL
  PROVE  /\ tip[c] = ChainTip(rows)
         /\ \A r \in Chained : r.id < rowid[c]
         /\ \A u \in Tips(rows) : u.hash = tip[c]
         /\ tip[c] = GENESIS => Chained = {}
         /\ tip[c] # GENESIS =>
              \E s \in Chained : /\ s.hash = tip[c]
                                 /\ s.id < rowid[c]
                                 /\ \A r \in Chained : r.id <= s.id
<1> USE DEF IInv
<1>1. \A r \in rows : r.prev # tip[c]
  BY DEF GrantIsExclusive, LinkTaken
<1>2. CASE tip[c] = GENESIS
  <2>1. Chained = {}
    BY <1>1, <1>2 DEF Linear, Chained, ChainedIn
  <2> QED
    BY <1>2, <2>1, TipOfLine DEF Tips, Chained
<1>3. CASE tip[c] # GENESIS
  <2>1. PICK s \in Chained : s.hash = tip[c] /\ s.id < rowid[c]
    BY <1>3 DEF StampIsCommitted
  <2>2. s \in Tips(rows)
    BY <1>1, <2>1 DEF Tips, Chained
  <2>3. ChainTip(rows) = s.hash /\ \A u \in Tips(rows) : u = s
    BY <2>1, <2>2, TipOfLine
  <2>4. \A r \in Chained : r.id <= s.id
    BY <2>2 DEF Linear
  <2>5. \A r \in Chained : r.id \in Nat
    BY DEF Chained, ChainedIn, TypeOK, Row
  <2>6. rowid[c] \in Nat
    BY DEF IdsDistinct
  <2> QED
    BY <1>3, <2>1, <2>3, <2>4, <2>5, <2>6
<1> QED
  BY <1>2, <1>3

\* What a commit does to the line: an unchained row leaves it as it is, ...
LEMMA UnchainedCommit ==
  ASSUME NEW c \in Call, tip[c] = NULL, rows' = rows \union {RowOf(c)}
  PROVE  /\ Chained' = Chained
         /\ Tips(rows)' = Tips(rows)
         /\ ChainTip(rows)' = ChainTip(rows)
<1>1. RowOf(c).prev = NULL /\ RowOf(c).hash = NULL
  BY DEF RowOf
<1>2. Chained' = Chained
  BY <1>1 DEF Chained, ChainedIn
<1>3. Tips(rows)' = Tips(rows)
  BY <1>1 DEF Tips, ChainedIn
<1>4. ChainTip(rows)' = ChainTip(rows)
  <2>1. ChainTip(rows)' =
          IF Tips(rows)' = {} THEN GENESIS
          ELSE (CHOOSE r \in Tips(rows)' : \A s \in Tips(rows)' : s.id <= r.id).hash
    BY DEF ChainTip
  <2>2. ChainTip(rows) =
          IF Tips(rows) = {} THEN GENESIS
          ELSE (CHOOSE r \in Tips(rows) : \A s \in Tips(rows) : s.id <= r.id).hash
    BY DEF ChainTip
  <2> QED
    BY <1>3, <2>1, <2>2
<1> QED
  BY <1>2, <1>3, <1>4

\* ... and a chained row becomes its new and only tip.
LEMMA ChainedCommit ==
  ASSUME IInv, NEW c \in Call, pc[c] = "commit", tip[c] # NULL,
         rows' = rows \union {RowOf(c)}
  PROVE  /\ Chained' = Chained \union {RowOf(c)}
         /\ Tips(rows)' = {RowOf(c)}
         /\ ChainTip(rows)' = EventHash(c, ChainTip(rows))
<1> DEFINE n == RowOf(c)
<1>1. tip[c] \in Hash /\ n.event = c /\ n.prev = tip[c] /\ n.hash = EventHash(c, tip[c])
  BY DEF RowOf, IInv, TypeOK
<1>2. n.hash \in Hash /\ n.hash # NULL /\ n.hash # tip[c] /\ n.hash # GENESIS
  BY <1>1, HashIsNew
<1>3. Chained' = Chained \union {n}
  BY <1>2 DEF Chained, ChainedIn
<1>4. ASSUME NEW s \in rows PROVE s.prev # n.hash
  <2>1. CASE s \notin Chained \/ s.prev = GENESIS
    BY <1>2, <2>1 DEF IInv, RowWellFormed, Chained, ChainedIn
  <2>2. CASE s \in Chained /\ s.prev # GENESIS
    <3>1. PICK q \in Chained : q.hash = s.prev
      BY <2>2 DEF IInv, WalkFindsNoBreak
    <3>2. q.hash = EventHash(q.event, q.prev) /\ q.prev \in Hash /\ q.event \in Call
      BY <3>1 DEF IInv, WalkFindsNoBreak, RowWellFormed, Chained, ChainedIn, TypeOK, Row
    <3>3. q.event # c
      BY <3>1 DEF IInv, RowWellFormed, Chained, ChainedIn
    <3> QED
      BY <1>1, <3>1, <3>2, <3>3, HashDeterminesEvent
  <2> QED
    BY <2>1, <2>2
<1>5. n \in Tips(rows)'
  BY <1>1, <1>2, <1>3, <1>4 DEF Tips, Chained
<1>6. ASSUME NEW u \in Tips(rows)' PROVE u = n
  <2>1. u \in Chained \union {n} /\ \A s \in rows \union {n} : s.prev # u.hash
    BY <1>3 DEF Tips, Chained
  <2>2. u # n => u \in Tips(rows) /\ n.prev # u.hash
    BY <2>1 DEF Tips, Chained
  <2> QED
    BY <2>2, <1>1, GrantedRowIsNext
<1>7. Tips(rows)' = {n}
  BY <1>5, <1>6
<1>8. n.id \in Nat
  BY DEF IInv, IdsDistinct, RowOf
<1>9. ChainTip(rows)' = n.hash
  <2>1. ChainTip(rows)' =
          (CHOOSE r \in Tips(rows)' : \A s \in Tips(rows)' : s.id <= r.id).hash
    BY <1>5 DEF ChainTip
  <2>2. \A s \in Tips(rows)' : s.id <= n.id
    BY <1>7, <1>8
  <2>3. (CHOOSE r \in Tips(rows)' : \A s \in Tips(rows)' : s.id <= r.id) = n
    BY <1>7, <2>2
  <2> QED
    BY <2>1, <2>3
<1> QED
  BY <1>1, <1>3, <1>7, <1>9, GrantedRowIsNext

\* A COMMIT, acknowledged or not, keeps the line a line.
LEMMA CommitStep ==
  ASSUME IInv, NEW c \in Call, Commit(c) \/ CommitUnacknowledged(c)
  PROVE  IInv'
<1> DEFINE n == RowOf(c)
<1>1. /\ pc[c] = "commit"
      /\ rows' = rows \union {n}
      /\ pc' = [pc EXCEPT ![c] = "done"]
      /\ UNCHANGED <<seq, attempt, tip, rowid, began>>
      /\ result' = result \/ result' = [result EXCEPT ![c] = rowid[c]]
  BY DEF Commit, CommitUnacknowledged
<1>2. rowid[c] \in Nat /\ rowid[c] <= seq /\ \A r \in rows : r.id # rowid[c]
  BY <1>1 DEF IInv, IdsDistinct
<1>3. /\ n.id = rowid[c] /\ n.event = c /\ n.prev = tip[c]
      /\ tip[c] = NULL => n.hash = NULL
      /\ tip[c] # NULL => n.hash = EventHash(c, tip[c]) /\ tip[c] \in Hash
  BY DEF RowOf, IInv, TypeOK
<1>4. tip[c] # NULL => /\ n.hash \in Hash /\ n.hash # NULL
                       /\ n.hash # tip[c] /\ n.hash # GENESIS
  BY <1>3, HashIsNew
<1>5. n \in Row
  BY <1>2, <1>3, <1>4 DEF RowOf, Row, IInv, TypeOK
<1>6. TypeOK'
  BY <1>1, <1>2, <1>5 DEF IInv, TypeOK
<1>7. RowWellFormed'
  BY <1>1, <1>2, <1>3, <1>4 DEF RowWellFormed, IInv, TypeOK, Row
<1>8. IdsDistinct'
  <2>1. \A r, s \in rows' : r.id = s.id => r = s
    BY <1>1, <1>2, <1>3 DEF IdsDistinct, IInv
  <2>2. ASSUME NEW d \in Call, pc'[d] \in {"unique", "commit"}
        PROVE  /\ d # c /\ pc[d] = pc'[d]
               /\ rowid[d] # rowid[c]
    BY <1>1, <2>2 DEF IInv, TypeOK, IdsDistinct
  <2> QED
    BY <1>1, <1>3, <2>1, <2>2 DEF IdsDistinct, IInv, TypeOK
<1>9. Chained \subseteq Chained' /\ Chained' \subseteq Chained \union {n}
  BY <1>1 DEF Chained, ChainedIn
<1>10. StampIsCommitted'
  BY <1>1, <1>9 DEF StampIsCommitted, IInv, TypeOK
<1>11. GrantIsExclusive'
  <2> SUFFICES ASSUME NEW d \in Call, pc'[d] = "commit", tip[d] # NULL
               PROVE  /\ \A r \in rows' : r.prev # tip[d]
                      /\ \A e \in Call \ {d} : ~(pc'[e] = "commit" /\ tip[e] = tip[d])
    BY <1>1 DEF GrantIsExclusive, LinkTaken, LinkContended
  <2>1. d # c /\ pc[d] = "commit"
    BY <1>1 DEF IInv, TypeOK
  <2>2. /\ \A r \in rows : r.prev # tip[d]
        /\ \A e \in Call \ {d} : ~(pc[e] = "commit" /\ tip[e] = tip[d])
    BY <2>1 DEF IInv, GrantIsExclusive, LinkTaken, LinkContended
  <2>3. tip[c] # tip[d]
    BY <1>1, <2>1, <2>2
  <2> QED
    BY <1>1, <1>3, <2>2, <2>3 DEF IInv, TypeOK
<1>12. CASE tip[c] = NULL
  <2>1. Chained' = Chained /\ Tips(rows)' = Tips(rows)
    BY <1>1, <1>12, UnchainedCommit
  <2>3. Linear' /\ WalkFindsNoBreak'
    BY <2>1 DEF IInv, Linear, WalkFindsNoBreak
  <2> QED
    BY <2>3, <1>6, <1>7, <1>8, <1>10, <1>11 DEF IInv
<1>13. CASE tip[c] # NULL
  <2>1. Chained' = Chained \union {n} /\ Tips(rows)' = {n}
    BY <1>1, <1>13, ChainedCommit
  <2>2. \A r \in rows : r.prev # tip[c]
    BY <1>1, <1>13 DEF IInv, GrantIsExclusive, LinkTaken
  <2>3. /\ \A r \in Chained : r.id < rowid[c]
        /\ \A u \in Tips(rows) : u.hash = tip[c]
        /\ tip[c] = GENESIS => Chained = {}
        /\ tip[c] # GENESIS =>
              \E s \in Chained : /\ s.hash = tip[c]
                                 /\ s.id < rowid[c]
                                 /\ \A r \in Chained : r.id <= s.id
    BY <1>1, <1>13, GrantedRowIsNext
  <2>4. \A r \in Chained : r \in rows /\ r.id \in Nat
    BY DEF Chained, ChainedIn, IInv, TypeOK, Row
  <2>6. Linear'
    <3>1. \A r, s \in Chained' : r.prev = s.prev => r = s
      BY <2>1, <2>2, <2>4, <1>3 DEF IInv, Linear
    <3>2. \E r \in Chained' : r.prev = GENESIS
      BY <2>1, <2>3, <1>3 DEF IInv, Linear
    <3>3. \A t \in Tips(rows)' : \A r \in Chained' : r.id <= t.id
      BY <2>1, <2>3, <2>4, <1>2, <1>3
    <3> QED
      BY <2>1, <3>1, <3>2, <3>3 DEF Linear
  <2>7. WalkFindsNoBreak'
    <3> SUFFICES ASSUME NEW r \in Chained'
                 PROVE  /\ r.hash = EventHash(r.event, r.prev)
                        /\ IF r.prev = GENESIS
                           THEN \A s \in Chained' : r.id <= s.id
                           ELSE \E p \in Chained' :
                                  /\ p.hash = r.prev
                                  /\ p.id < r.id
                                  /\ \A s \in Chained' : s.id <= p.id \/ r.id <= s.id
      BY DEF WalkFindsNoBreak
    <3>1. CASE r = n
      <4>1. CASE tip[c] = GENESIS
        BY <1>2, <1>3, <1>13, <2>1, <2>3, <3>1, <4>1
      <4>2. CASE tip[c] # GENESIS
        BY <1>2, <1>3, <1>13, <2>1, <2>3, <3>1, <4>2
      <4> QED
        BY <4>1, <4>2
    <3>2. CASE r \in Chained
      <4>1. r.hash = EventHash(r.event, r.prev)
        BY <3>2 DEF IInv, WalkFindsNoBreak
      <4>2. r.id < n.id /\ r.id \in Nat /\ n.id \in Nat
        BY <3>2, <2>3, <2>4, <1>2, <1>3
      <4>3. CASE r.prev = GENESIS
        BY <3>2, <4>1, <4>2, <4>3, <2>1 DEF IInv, WalkFindsNoBreak
      <4>4. CASE r.prev # GENESIS
        BY <3>2, <4>1, <4>2, <4>4, <2>1 DEF IInv, WalkFindsNoBreak
      <4> QED
        BY <4>3, <4>4
    <3> QED
      BY <2>1, <3>1, <3>2
  <2> QED
    BY <2>6, <2>7, <1>6, <1>7, <1>8, <1>10, <1>11 DEF IInv
<1> QED
  BY <1>12, <1>13

\* The invariant is inductive.
LEMMA NextIInv == IInv /\ [Next]_vars => IInv'
<1> SUFFICES ASSUME IInv, [Next]_vars PROVE IInv'
  OBVIOUS
<1>1. ASSUME NEW c \in Call, Record(c) PROVE IInv'
  BY <1>1, RecordStep
<1>2. ASSUME NEW c \in Call, Stamp(c) PROVE IInv'
  BY <1>2, StampStep
<1>3. ASSUME NEW c \in Call, Insert(c) PROVE IInv'
  BY <1>3, InsertStep
<1>4. ASSUME NEW c \in Call, UniqueGranted(c) PROVE IInv'
  BY <1>4, UniqueGrantedStep
<1>5. ASSUME NEW c \in Call, UniqueRefused(c) PROVE IInv'
  BY <1>5, UniqueRefusedStep
<1>6. ASSUME NEW c \in Call, Commit(c) \/ CommitUnacknowledged(c) PROVE IInv'
  BY <1>6, CommitStep
<1>7. ASSUME NEW c \in Call, Fail(c) PROVE IInv'
  BY <1>7, FailStep
<1>8. CASE UNCHANGED vars
  <2>1. UNCHANGED <<rows, seq, pc, attempt, tip, rowid, result, began>>
    BY <1>8 DEF vars
  <2>2. Linear' /\ WalkFindsNoBreak' /\ Chained' = Chained
    BY <2>1, TableUnchanged DEF IInv
  <2>3. TypeOK' /\ RowWellFormed' /\ IdsDistinct'
    BY <2>1 DEF IInv, TypeOK, RowWellFormed, IdsDistinct
  <2>4. StampIsCommitted' /\ GrantIsExclusive'
    BY <2>1, <2>2 DEF IInv, StampIsCommitted, GrantIsExclusive, LinkTaken, LinkContended
  <2> QED
    BY <2>2, <2>3, <2>4 DEF IInv
<1> QED
  BY <1>1, <1>2, <1>3, <1>4, <1>5, <1>6, <1>7, <1>8 DEF Next

\* In every reachable state the trail is one line and every open transaction is
\* ready to extend it, be refused, or stay beside it.
THEOREM InvariantHolds == Spec => []IInv
BY InitIInv, NextIInv, PTL DEF Spec

\* Type correctness, for any number of calls and any CHAIN_RETRIES.
THEOREM TypeCorrect == Spec => []TypeOK
<1>1. IInv => TypeOK
  BY DEF IInv
<1> QED
  BY <1>1, InvariantHolds, PTL

\* Whatever the interleaving of record() calls, no snapshot of the table ever
\* makes integrity.verify report a break.
THEOREM NoFalseBreak == Spec => []WalkFindsNoBreak
<1>1. IInv => WalkFindsNoBreak
  BY DEF IInv
<1> QED
  BY <1>1, InvariantHolds, PTL

\* Chained rows become visible in the order of their ids, and no committed row
\* ever changes or goes away.
THEOREM ChainedRowsVisibleInIdOrder == Spec => VisibleInIdOrder
<1> DEFINE InOrder == /\ rows \subseteq rows'
                      /\ \A r \in ChainedIn(rows') \ rows : \A s \in Chained : s.id < r.id
<1>1. IInv /\ [Next]_vars => [InOrder]_vars
  <2> SUFFICES ASSUME IInv, Next PROVE InOrder
    OBVIOUS
  <2>1. CASE rows' = rows
    BY <2>1 DEF ChainedIn
  <2>2. ASSUME NEW c \in Call, Commit(c) \/ CommitUnacknowledged(c) PROVE InOrder
    <3>1. pc[c] = "commit" /\ rows' = rows \union {RowOf(c)}
      BY <2>2 DEF Commit, CommitUnacknowledged
    <3>2. CASE tip[c] = NULL
      BY <3>1, <3>2 DEF ChainedIn, RowOf
    <3>3. CASE tip[c] # NULL
      <4>1. \A s \in Chained : s.id < rowid[c]
        BY <3>1, <3>3, GrantedRowIsNext
      <4>2. RowOf(c).id = rowid[c]
        BY DEF RowOf
      <4> QED
        BY <3>1, <4>1, <4>2 DEF ChainedIn
    <3> QED
      BY <3>2, <3>3
  <2>3. \/ rows' = rows
        \/ \E c \in Call : Commit(c) \/ CommitUnacknowledged(c)
    BY DEF Next, Record, Stamp, Insert, UniqueGranted, UniqueRefused, Fail
  <2> QED
    BY <2>1, <2>2, <2>3
<1>2. Spec => [][InOrder]_vars
  BY <1>1, InvariantHolds, PTL DEF Spec
<1> QED
  BY <1>2 DEF VisibleInIdOrder

\* No retry, failure or lost acknowledgement makes record() store its event
\* twice, and an id it returns is the id of that event's durable row.
THEOREM RecordedAtMostOnce == Spec => [](OneRowPerCall /\ AnsweredIdIsDurable)
<1> DEFINE Once == OneRowPerCall /\ AnsweredIdIsDurable
<1>1. Init => Once
  BY DEF Init, OneRowPerCall, AnsweredIdIsDurable
<1>2. IInv /\ Once /\ [Next]_vars => Once'
  <2> SUFFICES ASSUME IInv, Once, [Next]_vars PROVE Once'
    OBVIOUS
  <2>1. CASE rows' = rows /\ result' = result
    BY <2>1 DEF OneRowPerCall, AnsweredIdIsDurable
  <2>2. ASSUME NEW c \in Call, Commit(c) \/ CommitUnacknowledged(c) PROVE Once'
    <3>1. /\ pc[c] = "commit"
          /\ rows' = rows \union {RowOf(c)}
          /\ result' = result \/ result' = [result EXCEPT ![c] = rowid[c]]
          /\ RowOf(c).id = rowid[c] /\ RowOf(c).event = c
      BY <2>2 DEF Commit, CommitUnacknowledged, RowOf
    <3>2. \A r \in rows : r.event # c
      BY <3>1 DEF IInv, RowWellFormed
    <3>3. OneRowPerCall'
      BY <3>1, <3>2 DEF OneRowPerCall
    <3>4. AnsweredIdIsDurable'
      BY <3>1 DEF AnsweredIdIsDurable, IInv, TypeOK
    <3> QED
      BY <3>3, <3>4
  <2>3. \/ rows' = rows /\ result' = result
        \/ \E c \in Call : Commit(c) \/ CommitUnacknowledged(c)
    BY DEF Next, vars, Record, Stamp, Insert, UniqueGranted, UniqueRefused, Fail
  <2> QED
    BY <2>1, <2>2, <2>3
<1> QED
  BY <1>1, <1>2, InvariantHolds, PTL DEF Spec

-----------------------------------------------------------------------------
(* Lost attempts: an attempt is refused only because the chain has grown. *)

\* The chain is longer than when the call began by at least the attempts it lost;
\* a link read earlier in the attempt accounts for the attempts lost before it.
ProgressInv ==
  /\ \A c \in Call :
       /\ began[c] + attempt[c] <= Len(ChainTip(rows))
       /\ pc[c] = "idle" => began[c] = 0 /\ attempt[c] = 0
       /\ pc[c] \in {"insert", "unique", "commit"} /\ tip[c] # NULL =>
            began[c] + attempt[c] <= Len(tip[c])
  /\ \A r \in Chained : Len(r.hash) <= Len(ChainTip(rows))
  /\ \A r \in rows : r.hash = NULL => attempt[r.event] = ChainRetries

\* A row makes the chain longer by one.
LEMMA LenAppend ==
  ASSUME NEW p \in Hash, NEW c \in Call
  PROVE  Len(p) \in Nat /\ Len(EventHash(c, p)) = Len(p) + 1
BY DEF Hash, EventHash

\* ProgressInv is inductive relative to IInv.
LEMMA NextProgress == IInv /\ ProgressInv /\ [Next]_vars => ProgressInv'
<1> SUFFICES ASSUME IInv, ProgressInv, [Next]_vars PROVE ProgressInv'
  OBVIOUS
<1> USE DEF ProgressInv
<1>1. ChainTip(rows) \in Hash /\ Len(ChainTip(rows)) \in Nat
  BY TipOfLine DEF IInv, Hash
<1>2. ASSUME rows' = rows
      PROVE  Chained' = Chained /\ ChainTip(rows)' = ChainTip(rows)
  BY <1>2, TableUnchanged DEF IInv
<1>3. ASSUME NEW c \in Call, Record(c) PROVE ProgressInv'
  <2>1. /\ rows' = rows /\ attempt' = attempt /\ tip' = tip
        /\ pc[c] = "idle" /\ pc' = [pc EXCEPT ![c] = "open"]
        /\ began' = [began EXCEPT ![c] = Len(ChainTip(rows))]
    BY <1>3 DEF Record
  <2>2. Chained' = Chained /\ ChainTip(rows)' = ChainTip(rows)
    BY <1>2, <2>1
  <2>3. ASSUME NEW d \in Call
        PROVE  /\ began'[d] + attempt'[d] <= Len(ChainTip(rows))
               /\ pc'[d] = "idle" => began'[d] = 0 /\ attempt'[d] = 0
               /\ pc'[d] \in {"insert", "unique", "commit"} /\ tip'[d] # NULL =>
                    began'[d] + attempt'[d] <= Len(tip'[d])
    <3>1. CASE d = c
      <4>1. began'[d] = Len(ChainTip(rows)) /\ attempt'[d] = 0 /\ pc'[d] = "open"
        BY <2>1, <3>1 DEF IInv, TypeOK
      <4> QED
        BY <4>1, <1>1
    <3>2. CASE d # c
      <4>1. began'[d] = began[d] /\ attempt'[d] = attempt[d] /\ pc'[d] = pc[d] /\ tip'[d] = tip[d]
        BY <2>1, <3>2 DEF IInv, TypeOK
      <4> QED
        BY <4>1
    <3> QED
      BY <3>1, <3>2
  <2> QED
    BY <2>1, <2>2, <2>3
<1>4. ASSUME NEW c \in Call, Stamp(c) PROVE ProgressInv'
  BY <1>1, <1>2, <1>4 DEF Stamp, IInv, TypeOK, RowWellFormed
<1>5. ASSUME NEW c \in Call, Insert(c) PROVE ProgressInv'
  BY <1>1, <1>2, <1>5 DEF Insert, IInv, TypeOK, RowWellFormed
<1>6. ASSUME NEW c \in Call, UniqueGranted(c) PROVE ProgressInv'
  BY <1>1, <1>2, <1>6 DEF UniqueGranted, IInv, TypeOK, RowWellFormed
<1>7. ASSUME NEW c \in Call, UniqueRefused(c) PROVE ProgressInv'
  <2>1. PICK r \in rows : r.prev = tip[c] /\ tip[c] # NULL
    BY <1>7 DEF UniqueRefused, LinkTaken
  <2>2. r \in Chained /\ r.hash = EventHash(r.event, tip[c]) /\ r.event \in Call
        /\ tip[c] \in Hash
    BY <2>1 DEF IInv, RowWellFormed, Chained, ChainedIn, TypeOK, Row
  <2>3. Len(tip[c]) + 1 <= Len(ChainTip(rows)) /\ Len(tip[c]) \in Nat
    BY <2>2, LenAppend
  <2>4. began[c] + attempt[c] <= Len(tip[c])
    BY <1>7, <2>1 DEF UniqueRefused
  <2>5. \A s \in rows : s.event # c
    BY <1>7 DEF UniqueRefused, IInv, RowWellFormed
  <2> QED
    BY <1>1, <1>2, <1>7, <2>3, <2>4, <2>5 DEF UniqueRefused, IInv, TypeOK, Row
<1>8. ASSUME NEW c \in Call, Fail(c) PROVE ProgressInv'
  BY <1>1, <1>2, <1>8 DEF Fail, IInv, TypeOK, RowWellFormed
<1>9. ASSUME NEW c \in Call, Commit(c) \/ CommitUnacknowledged(c) PROVE ProgressInv'
  <2>1. /\ pc[c] = "commit" /\ rows' = rows \union {RowOf(c)}
        /\ pc' = [pc EXCEPT ![c] = "done"]
        /\ UNCHANGED <<attempt, tip, began>>
    BY <1>9 DEF Commit, CommitUnacknowledged
  <2>2. CASE tip[c] = NULL
    <3>1. Chained' = Chained /\ ChainTip(rows)' = ChainTip(rows)
      BY <2>1, <2>2, UnchainedCommit
    <3>2. attempt[c] = ChainRetries /\ RowOf(c).event = c
      BY <2>1, <2>2 DEF IInv, StampIsCommitted, RowOf
    <3> QED
      BY <2>1, <3>1, <3>2 DEF IInv, TypeOK
  <2>3. CASE tip[c] # NULL
    <3>1. /\ Chained' = Chained \union {RowOf(c)}
          /\ ChainTip(rows)' = EventHash(c, ChainTip(rows))
          /\ tip[c] = ChainTip(rows)
      BY <2>1, <2>3, ChainedCommit, GrantedRowIsNext
    <3>2. Len(ChainTip(rows)') = Len(ChainTip(rows)) + 1
      BY <1>1, <3>1, LenAppend
    <3>3. RowOf(c).hash = ChainTip(rows)'
      BY <2>3, <3>1 DEF RowOf
    <3>4. RowOf(c).hash # NULL
      BY <2>3, <1>1, <3>1, HashIsNew DEF RowOf
    <3>5. \A d \in Call : began[d] \in Nat /\ attempt[d] \in Nat
      BY DEF IInv, TypeOK
    <3>6. \A d \in Call : began[d] + attempt[d] <= Len(ChainTip(rows)')
      BY <1>1, <3>2, <3>5
    <3>7. \A r \in Chained' : Len(r.hash) <= Len(ChainTip(rows)')
      <4>1. \A r \in Chained : Len(r.hash) \in Nat
        BY DEF IInv, TypeOK, Row, Chained, ChainedIn, Hash
      <4> QED
        BY <1>1, <3>1, <3>2, <3>3, <4>1
    <3> QED
      BY <2>1, <3>4, <3>6, <3>7 DEF IInv, TypeOK
  <2> QED
    BY <2>2, <2>3
<1>10. CASE UNCHANGED vars
  BY <1>2, <1>10 DEF vars
<1> QED
  BY <1>3, <1>4, <1>5, <1>6, <1>7, <1>8, <1>9, <1>10 DEF Next

\* A lost attempt means somebody else's row got into the chain meanwhile, so a
\* record is left unchained only after CHAIN_RETRIES rows were chained during its
\* own call.
THEOREM LossesAreProgress ==
  Spec => [](LostAttemptIsProgress /\ UnchainedOnlyUnderContention)
<1>1. Init => ProgressInv
  <2> SUFFICES ASSUME Init PROVE ProgressInv
    OBVIOUS
  <2>1. ChainTip(rows) = <<>> /\ Chained = {}
    BY DEF Init, ChainTip, Tips, Chained, ChainedIn, GENESIS
  <2> QED
    BY <2>1 DEF Init, ProgressInv
<1>2. IInv /\ ProgressInv => LostAttemptIsProgress /\ UnchainedOnlyUnderContention
  <2> SUFFICES ASSUME IInv, ProgressInv
               PROVE  LostAttemptIsProgress /\ UnchainedOnlyUnderContention
    OBVIOUS
  <2>1. Len(ChainTip(rows)) \in Nat
    BY TipOfLine DEF IInv, Hash
  <2>2. \A c \in Call : began[c] \in Nat /\ attempt[c] \in Nat
    BY DEF IInv, TypeOK
  <2>3. \A r \in rows : r.event \in Call
    BY DEF IInv, TypeOK, Row
  <2> QED
    BY <2>1, <2>2, <2>3, RetriesAssumption
       DEF ProgressInv, LostAttemptIsProgress, UnchainedOnlyUnderContention
<1> QED
  BY <1>1, <1>2, NextProgress, InvariantHolds, PTL DEF Spec

-----------------------------------------------------------------------------
(* Refinement: the retry loop implements the atomic trail. *)

\* Whatever a chained hash commits to was recorded by calls that have returned,
\* and a call has no answer before it returns.
TrailInv ==
  /\ \A r \in Chained : \A i \in 1..Len(r.hash) : pc[r.hash[i]] = "done"
  /\ \A c \in Call : pc[c] # "done" => result[c] = NULL

\* TrailInv is inductive relative to IInv.
LEMMA NextTrailInv == IInv /\ TrailInv /\ [Next]_vars => TrailInv'
<1> SUFFICES ASSUME IInv, TrailInv, [Next]_vars PROVE TrailInv'
  OBVIOUS
<1> USE DEF TrailInv
<1>1. \A r \in Chained : \A i \in 1..Len(r.hash) : r.hash[i] \in Call
  BY DEF IInv, TypeOK, Row, Chained, ChainedIn, Hash
<1>2. ASSUME rows' = rows, result' = result,
             NEW c \in Call, pc[c] # "done",
             NEW p \in {"open", "insert", "unique", "commit", "done"}, pc' = [pc EXCEPT ![c] = p]
      PROVE  TrailInv'
  <2>1. Chained' = Chained
    BY <1>2, TableUnchanged DEF IInv
  <2>2. \A d \in Call : pc[d] = "done" => pc'[d] = "done"
    BY <1>2 DEF IInv, TypeOK
  <2>3. \A d \in Call : pc'[d] # "done" => pc[d] # "done"
    BY <2>2
  <2> QED
    BY <1>1, <1>2, <2>1, <2>2, <2>3
<1>3. ASSUME NEW c \in Call,
             \/ Record(c) \/ Stamp(c) \/ Insert(c)
             \/ UniqueGranted(c) \/ UniqueRefused(c) \/ Fail(c)
      PROVE  TrailInv'
  <2>1. PICK p \in {"open", "insert", "unique", "commit", "done"} :
          /\ pc' = [pc EXCEPT ![c] = p]
          /\ pc[c] # "done" /\ rows' = rows /\ result' = result
    BY <1>3 DEF Record, Stamp, Insert, UniqueGranted, UniqueRefused, Fail
  <2> QED
    BY <1>2, <2>1
<1>9. ASSUME NEW c \in Call, Commit(c) \/ CommitUnacknowledged(c) PROVE TrailInv'
  <2>1. /\ pc[c] = "commit" /\ rows' = rows \union {RowOf(c)}
        /\ pc' = [pc EXCEPT ![c] = "done"]
        /\ result' = result \/ result' = [result EXCEPT ![c] = rowid[c]]
    BY <1>9 DEF Commit, CommitUnacknowledged
  <2>2. \A d \in Call : pc'[d] # "done" => result'[d] = NULL
    BY <2>1 DEF IInv, TypeOK
  <2>3. \A d \in Call : pc[d] = "done" => pc'[d] = "done"
    BY <2>1 DEF IInv, TypeOK
  <2>4. \A r \in Chained : \A i \in 1..Len(r.hash) : pc'[r.hash[i]] = "done"
    BY <1>1, <2>3
  <2>5. CASE tip[c] = NULL
    <3>1. Chained' = Chained
      BY <2>1, <2>5, UnchainedCommit
    <3> QED
      BY <2>2, <2>4, <3>1
  <2>6. CASE tip[c] # NULL
    <3>1. Chained' = Chained \union {RowOf(c)} /\ tip[c] = ChainTip(rows)
      BY <2>1, <2>6, ChainedCommit, GrantedRowIsNext
    <3>2. RowOf(c).hash = Append(tip[c], c) /\ tip[c] \in Hash
      BY <2>6 DEF RowOf, EventHash, IInv, TypeOK
    <3>3. ASSUME NEW i \in 1..Len(Append(tip[c], c)) PROVE pc'[Append(tip[c], c)[i]] = "done"
      <4>1. CASE i = Len(tip[c]) + 1
        <5>1. Append(tip[c], c)[i] = c
          BY <3>2, <4>1 DEF Hash
        <5> QED
          BY <2>1, <5>1 DEF IInv, TypeOK
      <4>2. CASE i # Len(tip[c]) + 1
        <5>1. i \in 1..Len(tip[c]) /\ Append(tip[c], c)[i] = tip[c][i]
          BY <3>2, <4>2 DEF Hash
        <5>2. PICK s \in Chained : s.hash = tip[c]
          <6>1. tip[c] # GENESIS
            BY <5>1, <3>2 DEF GENESIS, Hash
          <6> QED
            BY <2>1, <2>6, <6>1, GrantedRowIsNext
        <5> QED
          BY <2>4, <5>1, <5>2
      <4> QED
        BY <4>1, <4>2
    <3> QED
      BY <2>2, <2>4, <3>1, <3>2, <3>3
  <2> QED
    BY <2>5, <2>6
<1>10. CASE UNCHANGED vars
  BY <1>10, TableUnchanged DEF vars, IInv
<1> QED
  BY <1>3, <1>9, <1>10 DEF Next

\* A call that is committing is not in the abstract trail yet.
LEMMA CommittingIsUnrecorded ==
  ASSUME IInv, TrailInv, NEW c \in Call, pc[c] = "commit"
  PROVE  c \notin Trail!Recorded
<1>1. \A i \in 1..Len(ChainTip(rows)) : ChainTip(rows)[i] # c
  <2>1. CASE Chained = {}
    BY <2>1, TipOfLine DEF IInv, GENESIS
  <2>2. CASE Chained # {}
    BY <2>2, TipOfLine DEF IInv, TrailInv, Tips, Chained
  <2> QED
    BY <2>1, <2>2
<1>2. \A r \in rows : r.event # c
  BY DEF IInv, RowWellFormed
<1> QED
  BY <1>1, <1>2 DEF Trail!Recorded

\* The refinement mapping, named: what a call was told, and the unlinked events.
Told == [c \in Call |->
             IF pc[c] # "done" THEN "none yet"
             ELSE IF result[c] # NULL THEN "id" ELSE "null"]

Loose == {r.event : r \in rows \ Chained}

\* A step inside an attempt is a stutter of the abstract trail.
LEMMA QuietStep ==
  ASSUME IInv, TrailInv, rows' = rows, result' = result,
         NEW c \in Call, pc[c] # "done", NEW p \in {"open", "insert", "unique", "commit"},
         pc' = [pc EXCEPT ![c] = p]
  PROVE  UNCHANGED Trail!vars
<1>1. Chained' = Chained /\ ChainTip(rows)' = ChainTip(rows)
  BY TableUnchanged DEF IInv
<1>2. Told' = Told
  BY DEF Told, IInv, TypeOK
<1>3. Loose' = Loose
  BY <1>1 DEF Loose
<1> QED
  BY <1>1, <1>2, <1>3 DEF Trail!vars, Told, Loose

\* A COMMIT is the abstract Link or Keep, told the id or, unacknowledged, nothing.
LEMMA CommitRefines ==
  ASSUME IInv, TrailInv, NEW c \in Call, Commit(c) \/ CommitUnacknowledged(c)
  PROVE  Trail!Next
<1>1. /\ pc[c] = "commit" /\ rows' = rows \union {RowOf(c)}
      /\ pc' = [pc EXCEPT ![c] = "done"]
  BY DEF Commit, CommitUnacknowledged
<1>2. PICK told \in {"id", "null"} : Told' = [Told EXCEPT ![c] = told]
  <2>1. CASE Commit(c)
    <3>1. result' = [result EXCEPT ![c] = rowid[c]] /\ rowid[c] # NULL
      BY <1>1, <2>1, NullAssumption DEF Commit, IInv, IdsDistinct
    <3>2. Told' = [Told EXCEPT ![c] = "id"]
      BY <1>1, <3>1 DEF Told, IInv, TypeOK
    <3> QED
      BY <3>2
  <2>2. CASE CommitUnacknowledged(c)
    <3>1. result' = result /\ result[c] = NULL
      BY <1>1, <2>2 DEF CommitUnacknowledged, TrailInv
    <3>2. Told' = [Told EXCEPT ![c] = "null"]
      BY <1>1, <3>1 DEF Told, IInv, TypeOK
    <3> QED
      BY <3>2
  <2> QED
    BY <2>1, <2>2
<1>3. Told[c] = "none yet" /\ c \notin Trail!Recorded
  BY <1>1, CommittingIsUnrecorded DEF Told
<1>4. CASE tip[c] = NULL
  <2>1. Chained' = Chained /\ ChainTip(rows)' = ChainTip(rows)
    BY <1>1, <1>4, UnchainedCommit
  <2>2. RowOf(c) \notin Chained /\ RowOf(c).event = c
    BY <1>4 DEF RowOf, Chained, ChainedIn
  <2>3. Loose' = Loose \union {c}
    BY <1>1, <2>1, <2>2 DEF Loose
  <2>4. Trail!Keep(c, told)
    BY <1>2, <1>3, <2>1, <2>3 DEF Trail!Keep, Told, Loose
  <2> QED
    BY <2>4, <1>2 DEF Trail!Next
<1>5. CASE tip[c] # NULL
  <2>1. /\ Chained' = Chained \union {RowOf(c)}
        /\ ChainTip(rows)' = Append(ChainTip(rows), c)
    BY <1>1, <1>5, ChainedCommit DEF EventHash
  <2>2. Loose' = Loose
    <3>1. rows' \ Chained' = rows \ Chained
      <4>1. RowOf(c) \notin rows
        BY <1>1 DEF IInv, RowWellFormed, RowOf
      <4> QED
        BY <1>1, <2>1, <4>1
    <3> QED
      BY <3>1 DEF Loose
  <2>3. Trail!Link(c, told)
    BY <1>2, <1>3, <2>1, <2>2 DEF Trail!Link, Told, Loose
  <2> QED
    BY <2>3, <1>2 DEF Trail!Next
<1> QED
  BY <1>4, <1>5

\* record()'s transactions, refusals and retries implement the atomic trail: one
\* step puts the event at the end of the one line (or beside it), and nothing
\* else a call does is visible.
THEOREM RefinesTrail == Spec => ImplementsTrail
<1>1. Init => Trail!Init
  <2> SUFFICES ASSUME Init PROVE Trail!Init
    OBVIOUS
  <2>1. ChainTip(rows) = <<>> /\ Chained = {}
    BY DEF Init, ChainTip, Tips, Chained, ChainedIn, GENESIS
  <2> QED
    BY <2>1 DEF Init, Trail!Init
<1>2. Init => TrailInv
  BY DEF Init, TrailInv, Chained, ChainedIn
<1>3. IInv /\ TrailInv /\ [Next]_vars => [Trail!Next]_(Trail!vars)
  <2> SUFFICES ASSUME IInv, TrailInv, [Next]_vars PROVE [Trail!Next]_(Trail!vars)
    OBVIOUS
  <2>1. ASSUME NEW c \in Call,
               Record(c) \/ Stamp(c) \/ Insert(c) \/ UniqueGranted(c) \/ UniqueRefused(c)
        PROVE  UNCHANGED Trail!vars
    <3>1. PICK p \in {"open", "insert", "unique", "commit"} :
            /\ pc' = [pc EXCEPT ![c] = p]
            /\ pc[c] # "done" /\ rows' = rows /\ result' = result
      BY <2>1 DEF Record, Stamp, Insert, UniqueGranted, UniqueRefused
    <3> QED
      BY <3>1, QuietStep
  <2>2. ASSUME NEW c \in Call, Commit(c) \/ CommitUnacknowledged(c) PROVE Trail!Next
    BY <2>2, CommitRefines
  <2>3. ASSUME NEW c \in Call, Fail(c) PROVE Trail!Next
    <3>1. /\ rows' = rows /\ result' = result /\ pc[c] # "done"
          /\ pc' = [pc EXCEPT ![c] = "done"]
      BY <2>3 DEF Fail
    <3>2. Chained' = Chained /\ ChainTip(rows)' = ChainTip(rows)
      BY <3>1, TableUnchanged DEF IInv
    <3>3. Loose' = Loose
      BY <3>1, <3>2 DEF Loose
    <3>4. Told' = [Told EXCEPT ![c] = "null"] /\ Told[c] = "none yet"
      BY <3>1 DEF Told, TrailInv, IInv, TypeOK
    <3>5. Trail!GiveUp(c)
      BY <3>2, <3>3, <3>4 DEF Trail!GiveUp, Told, Loose
    <3> QED
      BY <3>5 DEF Trail!Next
  <2>4. CASE UNCHANGED vars
    <3>1. Chained' = Chained /\ ChainTip(rows)' = ChainTip(rows)
      BY <2>4, TableUnchanged DEF IInv, vars
    <3>2. Told' = Told /\ Loose' = Loose
      BY <2>4, <3>1 DEF vars, Told, Loose
    <3> QED
      BY <3>1, <3>2 DEF Trail!vars, Told, Loose
  <2> QED
    BY <2>1, <2>2, <2>3, <2>4 DEF Next
<1> QED
  BY <1>1, <1>2, <1>3, InvariantHolds, NextTrailInv, PTL
     DEF Spec, ImplementsTrail, Trail!Spec

------------------------------------------------------------------------------
\* Least counterexamples, and the listing a walk reads.

\* The order of the numbers, as the relation the induction theorem wants.
Below == {p \in Nat \X Nat : p[1] < p[2]}

\* No sequence of numbers goes down for ever.
LEMMA NatIsWellFounded == IsWellFoundedOn(Below, Nat)
<1>1. OpToRel(<, Nat) = Below
  BY DEF OpToRel, Below
<1> QED
  BY <1>1, NatLessThanWellFounded

\* The least counterexample, which is how the proofs below walk a listing.
LEMMA SmallestOf ==
  ASSUME NEW S, S \subseteq Nat, S # {}
  PROVE  \E m \in S : \A n \in S : m <= n
<1>1. PICK m \in S : \A n \in S : ~(<<n, m>> \in Below)
  BY NatIsWellFounded, WFMin
<1>2. \A n \in S : ~(n < m)
  BY <1>1 DEF Below
<1> QED
  BY <1>1, <1>2

\* A set of numbers below a bound has a largest one.
LEMMA LargestOf ==
  ASSUME NEW S, S \subseteq Nat, S # {}, NEW b \in Nat, \A n \in S : n <= b
  PROVE  \E m \in S : \A n \in S : n <= m
<1> DEFINE T == {d \in Nat : \E n \in S : d = b - n}
<1>1. \A n \in S : b - n \in T
  OBVIOUS
<1>2. PICK d \in T : \A e \in T : d <= e
  <2>1. T # {}
    BY <1>1
  <2> HIDE DEF T
  <2>2. T \subseteq Nat
    BY DEF T
  <2> QED
    BY <2>1, <2>2, SmallestOf
<1>3. PICK m \in S : d = b - m
  BY <1>2
<1>4. ASSUME NEW n \in S PROVE n <= m
  <2>1. d <= b - n
    BY <1>1, <1>2
  <2> QED
    BY <2>1, <1>3
<1> QED
  BY <1>4

\* What ORDER BY id returns: every chained row once, ids ascending.
LEMMA ListingIsSorted ==
  ASSUME NEW table, IsFiniteSet(table), table \subseteq Row,
         \A r, s \in table : r.id = s.id => r = s
  PROVE  /\ IsFiniteSet(ChainedIn(table))
         /\ Cardinality(ChainedIn(table)) \in Nat
         /\ Listing(table) \in [1..Cardinality(ChainedIn(table)) -> ChainedIn(table)]
         /\ \A i, j \in 1..Cardinality(ChainedIn(table)) :
              i < j => Listing(table)[i].id < Listing(table)[j].id
         /\ \A r \in ChainedIn(table) :
              \E i \in 1..Cardinality(ChainedIn(table)) : Listing(table)[i] = r
<1> DEFINE C == ChainedIn(table)
           n == Cardinality(C)
           upto(r) == {s \in C : s.id <= r.id}
           rank == [r \in C |-> Cardinality(upto(r))]
<1>1. C \subseteq table /\ \A r \in C : r.id \in Nat
  BY DEF ChainedIn, Row
<1>2. IsFiniteSet(C) /\ n \in Nat
  <2>1. C \in SUBSET table
    BY <1>1
  <2>2. IsFiniteSet(C)
    BY <2>1, FS_Subset
  <2> QED
    BY <2>2, FS_CardinalityType
<1>3. \A r, s \in C : r.id = s.id => r = s
  BY <1>1
<1> HIDE DEF C
<1>4. ASSUME NEW r \in C
      PROVE  /\ IsFiniteSet(upto(r))
             /\ rank[r] = Cardinality(upto(r))
             /\ rank[r] \in 1..n /\ rank[r] \in Nat
  <2>1. upto(r) \in SUBSET C /\ r \in upto(r)
    BY <1>1
  <2>2. IsFiniteSet(upto(r)) /\ Cardinality(upto(r)) <= n
    BY <2>1, <1>2, FS_Subset
  <2>3. Cardinality(upto(r)) \in Nat /\ Cardinality(upto(r)) # 0
    BY <2>1, <2>2, FS_CardinalityType, FS_EmptySet
  <2> QED
    BY <2>2, <2>3, <1>2
<1>5. ASSUME NEW r \in C, NEW s \in C, r.id < s.id
      PROVE  rank[r] < rank[s]
  <2>1. upto(r) \in SUBSET upto(s) /\ s \in upto(s) /\ s \notin upto(r)
    BY <1>1, <1>5
  <2>2. IsFiniteSet(upto(s)) /\ rank[s] \in Nat /\ rank[r] \in Nat
    BY <1>4
  <2>3. Cardinality(upto(r)) <= Cardinality(upto(s)) /\ Cardinality(upto(r)) # Cardinality(upto(s))
    <3>1. /\ Cardinality(upto(r)) <= Cardinality(upto(s))
          /\ Cardinality(upto(s)) = Cardinality(upto(r)) => upto(s) = upto(r)
      BY <2>1, <2>2, FS_Subset
    <3> QED
      BY <3>1, <2>1
  <2>4. rank[r] = Cardinality(upto(r)) /\ rank[s] = Cardinality(upto(s))
    BY <1>4
  <2> HIDE DEF rank, upto
  <2> QED
    BY <2>2, <2>3, <2>4
<1>6. \A i \in 1..n : \E r \in C : rank[r] = i
  <2>1. rank \in [C -> 1..n]
    BY <1>4
  <2>2. \A r, s \in C : rank[r] = rank[s] => r = s
    <3> SUFFICES ASSUME NEW r \in C, NEW s \in C, rank[r] = rank[s], r # s PROVE FALSE
      OBVIOUS
    <3>1. rank[r] \in Nat /\ rank[s] \in Nat /\ r.id # s.id
      BY <1>3, <1>4
    <3>2. r.id < s.id \/ s.id < r.id
      BY <1>1, <3>1
    <3> HIDE DEF rank, upto
    <3> QED
      BY <1>5, <3>1, <3>2
  <2> HIDE DEF rank
  <2>3. rank \in Injection(C, 1..n)
    BY <2>1, <2>2 DEF Injection, IsInjective
  <2>4. IsFiniteSet(1..n) /\ Cardinality(1..n) = n
    BY <1>2, FS_Interval
  <2>5. rank \in Surjection(C, 1..n)
    BY <2>3, <2>4, FS_Injection
  <2> QED
    BY <2>5 DEF Surjection
<1> DEFINE l == [i \in 1..n |-> CHOOSE r \in C : rank[r] = i]
<1>7. \A i \in 1..n : l[i] \in C /\ rank[l[i]] = i
  BY <1>6
<1>8. l \in [1..n -> C]
  BY <1>7
<1>9. \A i, j \in DOMAIN l : i < j => l[i].id < l[j].id
  <2> SUFFICES ASSUME NEW i \in 1..n, NEW j \in 1..n, i < j, ~(l[i].id < l[j].id)
               PROVE  FALSE
    OBVIOUS
  <2> HIDE DEF l, rank
  <2>1. l[i] # l[j]
    BY <1>7
  <2>2. l[j].id < l[i].id
    BY <2>1, <1>1, <1>3, <1>7
  <2>3. rank[l[j]] < rank[l[i]]
    BY <2>2, <1>5, <1>7
  <2> QED
    BY <2>3, <1>2, <1>7
<1> DEFINE o == Listing(table)
<1>10. o \in [1..n -> C] /\ \A i, j \in DOMAIN o : i < j => o[i].id < o[j].id
  <2> HIDE DEF l
  <2> QED
    BY <1>8, <1>9 DEF Listing, C
<1>11. \A r \in C : \E i \in 1..n : o[i] = r
  <2> HIDE DEF o, n
  <2>1. \A i, j \in 1..n : o[i] = o[j] => i = j
    BY <1>1, <1>2, <1>10
  <2>2. o \in Injection(1..n, C)
    BY <1>10, <2>1 DEF Injection, IsInjective
  <2>3. Cardinality(1..n) = Cardinality(C)
    BY <1>2, FS_Interval DEF n
  <2>4. o \in Surjection(1..n, C)
    BY <1>2, <2>2, <2>3, FS_Injection
  <2> QED
    BY <2>4 DEF Surjection
<1> QED
  BY <1>2, <1>10, <1>11 DEF C

\* The first position whose check failed.
LEMMA FirstFailingIs ==
  ASSUME NEW n \in Nat, NEW checks \in [1..n -> BOOLEAN]
  PROVE  /\ FirstFailing(checks) \in 0..n
         /\ FirstFailing(checks) = 0 => \A i \in 1..n : checks[i]
         /\ FirstFailing(checks) # 0 =>
              /\ ~checks[FirstFailing(checks)]
              /\ \A i \in 1..n : i < FirstFailing(checks) => checks[i]
<1> DEFINE I == {i \in 1..n : ~checks[i]}
<1>1. FirstFailing(checks) = IF I # {} THEN CHOOSE x \in I : \A y \in I : x <= y ELSE 0
  <2>1. Len(checks) = n
    OBVIOUS
  <2> QED
    BY <2>1 DEF FirstFailing, SelectInSeq, Min
<1>2. I \subseteq Nat
  OBVIOUS
<1>3. CASE I = {}
  BY <1>1, <1>3
<1>4. CASE I # {}
  <2>1. \E m \in I : \A y \in I : m <= y
    <3> HIDE DEF I
    <3> QED
      BY <1>2, <1>4, SmallestOf
  <2>2. FirstFailing(checks) \in I /\ \A y \in I : FirstFailing(checks) <= y
    <3> HIDE DEF I
    <3> QED
      BY <1>1, <1>4, <2>1
  <2> QED
    BY <2>2
<1> QED
  BY <1>3, <1>4

------------------------------------------------------------------------------
\* A passing walk attests one line of rows, and a line passes.

\* The hash of a row commits to one event more than its prev_hash.
LEMMA EventHashIs ==
  ASSUME NEW p \in Hash, NEW c \in Call
  PROVE  /\ EventHash(c, p) \in Hash
         /\ Len(p) \in Nat
         /\ Len(EventHash(c, p)) = Len(p) + 1
         /\ EventHash(c, p) = [j \in 1..(Len(p) + 1) |-> IF j <= Len(p) THEN p[j] ELSE c]
<1>1. /\ Append(p, c) \in Seq(Call)
      /\ Len(p) \in Nat
      /\ Len(Append(p, c)) = Len(p) + 1
      /\ \A j \in 1..Len(p) : Append(p, c)[j] = p[j]
      /\ Append(p, c)[Len(p) + 1] = c
  BY DEF Hash
<1>2. DOMAIN Append(p, c) = 1..(Len(p) + 1)
  BY <1>1
<1>3. Append(p, c) = [j \in 1..(Len(p) + 1) |-> Append(p, c)[j]]
  <2>1. Append(p, c) \in [1..(Len(p) + 1) -> Call]
    <3>1. \A s \in Seq(Call) : s \in [1..Len(s) -> Call]
      OBVIOUS
    <3> QED
      BY <1>1, <3>1
  <2> DEFINE f == Append(p, c)
  <2> HIDE DEF f
  <2>2. \A D : f \in [D -> Call] => f = [j \in D |-> f[j]]
    OBVIOUS
  <2> QED
    BY <2>1, <2>2 DEF f
<1>4. \A j \in 1..(Len(p) + 1) : Append(p, c)[j] = IF j <= Len(p) THEN p[j] ELSE c
  BY <1>1
<1> QED
  BY <1>1, <1>3, <1>4 DEF EventHash, Hash

\* The events a listing shows up to one row.
Upto(l, i) == [j \in 1..i |-> l[j].event]

\* As far as every link was found good, the hash of a row is exactly the events
\* the listing shows up to it.
LEMMA PassingPrefix ==
  ASSUME NEW n \in Nat, NEW l \in [1..n -> Row], NEW k \in 0..n,
         \A i \in 1..n : i <= k => Linked(l, i) /\ Untouched(l, i)
  PROVE  \A i \in 1..n : i <= k =>
           /\ l[i].hash = Upto(l, i)
           /\ l[i].hash \in Hash /\ Len(l[i].hash) = i
<1> DEFINE T == {i \in 1..n : i <= k /\ l[i].hash # Upto(l, i)}
<1>1. ASSUME NEW i \in 1..n
      PROVE  Upto(l, i) \in Hash /\ Len(Upto(l, i)) = i
  <2>1. Upto(l, i) \in [1..i -> Call]
    BY DEF Row, Upto
  <2>2. Upto(l, i) \in Seq(Call)
    BY <2>1
  <2> QED
    BY <2>1, <2>2 DEF Hash
<1>2. T = {}
  <2> SUFFICES ASSUME T # {} PROVE FALSE
    OBVIOUS
  <2>1. PICK m \in T : \A e \in T : m <= e
    <3>1. T \subseteq Nat
      OBVIOUS
    <3> HIDE DEF T
    <3> QED
      BY <3>1, SmallestOf
  <2>2. m \in 1..n /\ m <= k /\ l[m].hash # Upto(l, m)
    BY <2>1
  <2>3. l[m].prev = Expected(l, m) /\ l[m].hash = EventHash(l[m].event, l[m].prev)
        /\ l[m].event \in Call /\ l[m].prev \in Hash
    BY <2>2 DEF Linked, Untouched, Row
  <2>4. CASE m = 1
    <3>1. l[m].prev = GENESIS /\ Len(GENESIS) = 0 /\ GENESIS \in Hash
      BY <2>3, <2>4 DEF Expected, GENESIS, Hash
    <3>2. l[m].hash = [j \in 1..1 |-> l[m].event]
      BY <3>1, <2>3, EventHashIs
    <3>3. \A j \in 1..1 : l[j].event = l[m].event
      BY <2>4
    <3> QED
      BY <2>2, <2>4, <3>2, <3>3 DEF Upto
  <2>5. CASE m # 1
    <3>1. m - 1 \in 1..n /\ m - 1 <= k /\ m - 1 \notin T
      BY <2>1, <2>2, <2>5
    <3>2. l[m-1].hash = Upto(l, m - 1) /\ l[m].prev = l[m-1].hash
      BY <3>1, <2>3, <2>5 DEF Expected
    <3>3. Len(l[m].prev) = m - 1 /\ \A j \in 1..(m-1) : l[m].prev[j] = l[j].event
      BY <3>1, <3>2, <1>1 DEF Upto
    <3>4. l[m].hash = [j \in 1..m |-> IF j <= m - 1 THEN l[m].prev[j] ELSE l[m].event]
      <4>1. Len(l[m].prev) + 1 = m /\ \A j \in 1..m : j <= m - 1 <=> j <= Len(l[m].prev)
        BY <3>3, <2>2
      <4>2. l[m].hash = [j \in 1..(Len(l[m].prev) + 1) |->
                          IF j <= Len(l[m].prev) THEN l[m].prev[j] ELSE l[m].event]
        BY <2>3, EventHashIs
      <4> QED
        BY <4>1, <4>2, <3>3
    <3>5. \A j \in 1..m : (IF j <= m - 1 THEN l[m].prev[j] ELSE l[m].event) = l[j].event
      BY <3>3, <2>2
    <3> QED
      BY <2>2, <3>4, <3>5 DEF Upto
  <2> QED
    BY <2>4, <2>5
<1> QED
  BY <1>1, <1>2

\* WalkFindsNoBreak, of any table.
Unbroken(table) ==
  \A r \in ChainedIn(table) :
    /\ r.hash = EventHash(r.event, r.prev)
    /\ IF r.prev = GENESIS
       THEN \A s \in ChainedIn(table) : r.id <= s.id
       ELSE \E p \in ChainedIn(table) :
              /\ p.hash = r.prev
              /\ p.id < r.id
              /\ \A s \in ChainedIn(table) : s.id <= p.id \/ r.id <= s.id

\* A table with rows of its own, as a database keeps it.
Table(table) ==
  /\ IsFiniteSet(table)
  /\ table \subseteq Row
  /\ \A r, s \in table : r.id = s.id => r = s

\* Where neighbours by id are neighbours by link, the walk passes.
LEMMA UnbrokenPasses ==
  ASSUME NEW table, Table(table), Unbroken(table),
         \A r \in ChainedIn(table) : r.prev # NULL
  PROVE  \A i \in 1..Cardinality(ChainedIn(table)) :
           Linked(Listing(table), i) /\ Untouched(Listing(table), i)
<1> DEFINE C == ChainedIn(table)
           n == Cardinality(C)
           l == Listing(table)
<1>1. /\ n \in Nat
      /\ l \in [1..n -> C]
      /\ \A i, j \in 1..n : i < j => l[i].id < l[j].id
      /\ \A r \in C : \E i \in 1..n : l[i] = r
  BY ListingIsSorted DEF Table
<1>2. \A r \in C : r.id \in Nat
  BY DEF ChainedIn, Table, Row
<1> HIDE DEF l, n
<1>3. ASSUME NEW i \in 1..n PROVE Linked(l, i) /\ Untouched(l, i)
  <2>1. l[i] \in C
    BY <1>1
  <2>2. Untouched(l, i)
    BY <2>1 DEF Untouched, Unbroken
  <2>3. CASE l[i].prev = GENESIS
    <3>1. i = 1
      <4> SUFFICES ASSUME i # 1 PROVE FALSE
        OBVIOUS
      <4>1. 1 \in 1..n /\ 1 < i
        BY <1>1
      <4>2. l[1].id < l[i].id /\ l[1] \in C
        BY <1>1, <4>1
      <4>3. l[i].id <= l[1].id
        BY <2>1, <2>3, <4>2 DEF Unbroken
      <4> QED
        BY <1>2, <2>1, <4>2, <4>3
    <3> QED
      BY <2>2, <2>3, <3>1 DEF Linked, Expected
  <2>4. CASE l[i].prev # GENESIS
    <3>1. PICK p \in C : /\ p.hash = l[i].prev
                         /\ p.id < l[i].id
                         /\ \A s \in C : s.id <= p.id \/ l[i].id <= s.id
      BY <2>1, <2>4 DEF Unbroken
    <3>2. PICK k \in 1..n : l[k] = p
      BY <1>1
    <3>3. k < i
      <4>1. ~(i < k) /\ i # k
        BY <1>1, <1>2, <2>1, <3>1, <3>2
      <4> QED
        BY <1>1, <4>1
    <3>4. k = i - 1
      <4> SUFFICES ASSUME k # i - 1 PROVE FALSE
        OBVIOUS
      <4>1. k + 1 \in 1..n /\ k < k + 1 /\ k + 1 < i
        BY <1>1, <3>3
      <4>2. l[k].id < l[k+1].id /\ l[k+1].id < l[i].id /\ l[k+1] \in C
        BY <1>1, <4>1
      <4> QED
        BY <1>2, <2>1, <3>1, <3>2, <4>2
    <3> QED
      BY <1>1, <2>2, <3>1, <3>2, <3>3, <3>4 DEF Linked, Expected
  <2> QED
    BY <2>2, <2>3, <2>4
<1> QED
  BY <1>3 DEF l, n

\* A table that holds one line, in whatever order its ids put it.
OneLineIn(table) ==
  /\ \A r \in ChainedIn(table) : r.prev \in Hash /\ r.hash = EventHash(r.event, r.prev)
  /\ \A r \in ChainedIn(table) :
       r.prev = GENESIS \/ \E p \in ChainedIn(table) : p.hash = r.prev
  /\ \A r, s \in ChainedIn(table) : r.prev = s.prev => r = s

\* On one line a row is known by how much it commits to.
LEMMA LengthsDistinct ==
  ASSUME NEW table, table \subseteq Row, OneLineIn(table)
  PROVE  \A r, s \in ChainedIn(table) : Len(r.hash) = Len(s.hash) => r = s
<1> DEFINE C == ChainedIn(table)
           T == {n \in Nat : \E r, s \in C : Len(r.hash) = n /\ Len(s.hash) = n /\ r # s}
<1>1. \A r \in C : /\ Len(r.prev) \in Nat /\ Len(r.hash) = Len(r.prev) + 1
                   /\ r.prev \in Hash /\ r.hash = EventHash(r.event, r.prev)
  BY EventHashIs DEF OneLineIn, ChainedIn, Row
<1>2. T = {}
  <2> SUFFICES ASSUME T # {} PROVE FALSE
    OBVIOUS
  <2>1. PICK m \in T : \A e \in T : m <= e
    <3>1. T \subseteq Nat
      OBVIOUS
    <3> HIDE DEF T
    <3> QED
      BY <3>1, SmallestOf
  <2>2. PICK r \in C, s \in C : Len(r.hash) = m /\ Len(s.hash) = m /\ r # s
    BY <2>1
  <2>3. m \in Nat /\ Len(r.prev) = m - 1 /\ Len(s.prev) = m - 1 /\ Len(GENESIS) = 0
    BY <2>1, <2>2, <1>1 DEF GENESIS
  <2>4. r.prev # s.prev
    BY <2>2 DEF OneLineIn
  <2>5. \A p \in Hash : Len(p) = 0 => p = GENESIS
    BY DEF GENESIS, Hash
  <2>6. r.prev # GENESIS /\ s.prev # GENESIS
    BY <2>3, <2>4, <2>5, <1>1
  <2>7. PICK p \in C, q \in C : p.hash = r.prev /\ q.hash = s.prev
    BY <2>6 DEF OneLineIn
  <2>8. m - 1 \in T
    BY <2>3, <2>4, <2>7, <1>1
  <2> QED
    BY <2>1, <2>3, <2>8
<1> QED
  BY <1>1, <1>2

\* What the row that stopped the walk was expected to link to is linked to by some
\* row, as long as the table holds one line.
LEMMA LineContinues ==
  ASSUME NEW table, Table(table), OneLineIn(table),
         NEW bad \in 1..Cardinality(ChainedIn(table)),
         \A i \in 1..Cardinality(ChainedIn(table)) :
           i < bad => Linked(Listing(table), i) /\ Untouched(Listing(table), i)
  PROVE  \E r \in ChainedIn(table) : r.prev = Expected(Listing(table), bad)
<1> DEFINE C == ChainedIn(table)
           n == Cardinality(C)
           l == Listing(table)
<1>1. /\ n \in Nat
      /\ l \in [1..n -> C]
      /\ \A i, j \in 1..n : i < j => l[i].id < l[j].id
  BY ListingIsSorted DEF Table
<1>2. C \subseteq Row
  BY DEF ChainedIn, Table
<1>3. \A r \in C : /\ Len(r.prev) \in Nat /\ Len(r.hash) = Len(r.prev) + 1
                   /\ r.prev \in Hash
  BY <1>2, EventHashIs DEF OneLineIn, Row
<1>4. \A r, s \in C : Len(r.hash) = Len(s.hash) => r = s
  BY LengthsDistinct DEF Table
<1> HIDE DEF l, n
<1>5. \A i \in 1..n : i < bad => Len(l[i].hash) = i
  <2>1. bad - 1 \in 0..n /\ l \in [1..n -> Row]
    BY <1>1, <1>2 DEF n
  <2>2. \A i \in 1..n : i <= bad - 1 => Linked(l, i) /\ Untouched(l, i)
    BY <1>1 DEF l, n
  <2>3. \A i \in 1..n : i <= bad - 1 => Len(l[i].hash) = i
    <3> DEFINE k == bad - 1
    <3>1. k \in 0..n /\ \A i \in 1..n : i <= k => Linked(l, i) /\ Untouched(l, i)
      BY <2>1, <2>2
    <3> HIDE DEF k
    <3>2. \A i \in 1..n : i <= k => Len(l[i].hash) = i
      BY <1>1, <2>1, <3>1, PassingPrefix
    <3> QED
      BY <3>2 DEF k
  <2> QED
    BY <1>1, <2>3 DEF n
<1>6. bad \in 1..n
  BY DEF n
\* The least length of a row from bad on.
<1> DEFINE T == {m \in Nat : m >= bad /\ \E r \in C : Len(r.hash) = m}
<1>7. T # {}
  <2>1. l[bad] \in C
    BY <1>1, <1>6
  <2>2. \A i \in 1..n : i < bad => Len(l[bad].hash) # i
    <3> SUFFICES ASSUME NEW i \in 1..n, i < bad, Len(l[bad].hash) = i PROVE FALSE
      OBVIOUS
    <3>1. l[i] = l[bad]
      BY <1>1, <1>4, <1>5, <2>1
    <3>2. l[i].id < l[bad].id /\ l[i].id \in Nat
      BY <1>1, <1>2, <1>6 DEF Row
    <3> QED
      BY <3>1, <3>2
  <2>3. Len(l[bad].hash) \in Nat /\ Len(l[bad].hash) >= 1
    BY <1>3, <2>1
  <2>4. Len(l[bad].hash) >= bad
    BY <1>1, <1>6, <2>2, <2>3
  <2> QED
    BY <2>1, <2>3, <2>4
<1>8. PICK m \in T : \A e \in T : m <= e
  <2>1. T \subseteq Nat
    OBVIOUS
  <2> HIDE DEF T
  <2> QED
    BY <2>1, <1>7, SmallestOf
<1>9. PICK r \in C : Len(r.hash) = m
  BY <1>8
<1>10. CASE r.prev = GENESIS
  <2>1. bad = 1
    BY <1>1, <1>3, <1>6, <1>8, <1>9, <1>10 DEF GENESIS
  <2> QED
    BY <1>10, <2>1 DEF Expected
<1>11. CASE r.prev # GENESIS
  <2>1. PICK p \in C : p.hash = r.prev
    BY <1>11 DEF OneLineIn
  <2>2. Len(p.hash) = m - 1 /\ m - 1 \in Nat /\ m - 1 >= 1
    BY <1>3, <1>8, <1>9, <2>1
  <2>3. m - 1 \notin T
    BY <1>8
  <2>4. m - 1 = bad - 1 /\ bad - 1 \in 1..n
    BY <1>1, <1>6, <1>8, <2>1, <2>2, <2>3
  <2>5. p = l[bad-1]
    BY <1>1, <1>4, <1>5, <2>2, <2>4
  <2> QED
    BY <1>6, <2>1, <2>2, <2>4, <2>5 DEF Expected, l
<1> QED
  BY <1>10, <1>11

------------------------------------------------------------------------------
\* The only order that passes is the order of the line.

\* The same, once the whole walk has passed.
LEMMA PassingLengths ==
  ASSUME NEW n \in Nat, NEW l \in [1..n -> Row],
         \A i \in 1..n : Linked(l, i) /\ Untouched(l, i)
  PROVE  \A i \in 1..n : Len(l[i].hash) = i
<1> DEFINE k == n
<1>1. k \in 0..n /\ \A i \in 1..n : i <= k
  OBVIOUS
<1>2. \A i \in 1..n : i <= k => Linked(l, i) /\ Untouched(l, i)
  OBVIOUS
<1> HIDE DEF k
<1>3. \A i \in 1..n : i <= k => Len(l[i].hash) = i
  BY <1>1, <1>2, PassingPrefix
<1> QED
  BY <1>1, <1>3

\* A walk that passes has read the sequence of events the newest hash commits to.
LEMMA PassingAttests ==
  ASSUME NEW n \in Nat, NEW l \in [1..n -> Row],
         \A i \in 1..n : Linked(l, i) /\ Untouched(l, i)
  PROVE  /\ Len(l) = n
         /\ n = 0 => l = <<>>
         /\ n # 0 => /\ l # <<>>
                     /\ TipOf(l) = EventsOf(l)
                     /\ EventsOf(l) = l[n].hash
         /\ TipOf(l) = IF l = <<>> THEN NULL ELSE EventsOf(l)
<1>1. Len(l) = n /\ (n = 0 <=> l = <<>>)
  OBVIOUS
<1>2. CASE n # 0
  <2>1. n \in 1..n /\ n \in 0..n
    BY <1>2
  <2>2. l[n].hash = Upto(l, n)
    BY <2>1, PassingPrefix
  <2>3. EventsOf(l) = Upto(l, n)
    BY DEF EventsOf, Upto
  <2> QED
    BY <1>1, <1>2, <2>2, <2>3 DEF TipOf, Last
<1> QED
  BY <1>1, <1>2 DEF TipOf

\* The same links under other ids.
SameLinks(table, other) ==
  \A r \in ChainedIn(table) :
    \E s \in ChainedIn(other) : s.prev = r.prev /\ s.hash = r.hash /\ s.event = r.event

\* The ids grow along the line: every row's id is above that of the row it links to.
InLineOrder(table) ==
  \A r, s \in ChainedIn(table) : r.id < s.id => Len(r.hash) < Len(s.hash)

\* Ids that order the line as it is linked leave no break ...
LEMMA InLineOrderIsUnbroken ==
  ASSUME NEW table, Table(table), OneLineIn(table), InLineOrder(table)
  PROVE  Unbroken(table)
<1> DEFINE C == ChainedIn(table)
<1>1. \A r \in C : r \in table /\ r.id \in Nat /\ r.event \in Call
  BY DEF ChainedIn, Table, Row
<1>2. \A r \in C : /\ Len(r.prev) \in Nat /\ Len(r.hash) = Len(r.prev) + 1
                   /\ r.prev \in Hash /\ r.hash = EventHash(r.event, r.prev)
  BY <1>1, EventHashIs DEF OneLineIn
<1>3. ASSUME NEW r \in C, r.prev = GENESIS, NEW s \in C PROVE r.id <= s.id
  <2>1. Len(GENESIS) = 0
    BY DEF GENESIS
  <2>2. /\ Len(s.prev) \in Nat /\ Len(s.hash) = Len(s.prev) + 1
        /\ Len(r.hash) = 0 + 1
    BY <1>2, <1>3, <2>1
  <2>3. ~(s.id < r.id)
    <3>1. ~(Len(s.hash) < Len(r.hash))
      BY <2>2
    <3> QED
      BY <3>1 DEF InLineOrder
  <2> QED
    BY <1>1, <2>3
<1>4. ASSUME NEW r \in C, r.prev # GENESIS
      PROVE  \E p \in C : /\ p.hash = r.prev
                          /\ p.id < r.id
                          /\ \A s \in C : s.id <= p.id \/ r.id <= s.id
  <2>1. PICK p \in C : p.hash = r.prev
    BY <1>4 DEF OneLineIn
  <2>2. Len(p.hash) \in Nat /\ Len(r.hash) = Len(p.hash) + 1
    BY <1>2, <2>1
  <2>3. p.id < r.id
    <3>1. p.id # r.id
      BY <1>1, <2>2 DEF Table
    <3>2. ~(r.id < p.id)
      BY <2>2 DEF InLineOrder
    <3> QED
      BY <1>1, <3>1, <3>2
  <2>4. ASSUME NEW s \in C PROVE s.id <= p.id \/ r.id <= s.id
    <3>1. Len(s.hash) \in Nat
      BY <1>2
    <3>2. ~(p.id < s.id /\ s.id < r.id)
      BY <2>2, <3>1 DEF InLineOrder
    <3> QED
      BY <1>1, <3>2
  <2> QED
    BY <2>1, <2>3, <2>4
<1> QED
  BY <1>2, <1>3, <1>4 DEF Unbroken

\* ... and the listing shows the events in one order, whatever the ids are.
LEMMA OrderKept ==
  ASSUME NEW table, NEW other, Table(table), Table(other),
         Unbroken(table), OneLineIn(table), SameLinks(table, other), SameLinks(other, table),
         Unbroken(other)
  PROVE  EventsOf(Listing(table)) = EventsOf(Listing(other))
<1> DEFINE n == Cardinality(ChainedIn(table))
           m == Cardinality(ChainedIn(other))
           l == Listing(table)
           k == Listing(other)
<1>1. \A r \in ChainedIn(table) : r.prev \in Hash /\ r.prev # NULL
  BY NullAssumption DEF OneLineIn, Hash
<1>2. \A r \in ChainedIn(other) : r.prev # NULL
  BY <1>1 DEF SameLinks
<1>3. /\ n \in Nat /\ l \in [1..n -> ChainedIn(table)]
      /\ \A r \in ChainedIn(table) : \E i \in 1..n : l[i] = r
  BY ListingIsSorted DEF Table
<1>4. /\ m \in Nat /\ k \in [1..m -> ChainedIn(other)]
      /\ \A r \in ChainedIn(other) : \E i \in 1..m : k[i] = r
  BY ListingIsSorted DEF Table
<1>5. \A i \in 1..n : Linked(l, i) /\ Untouched(l, i)
  BY <1>1, UnbrokenPasses
<1>6. \A i \in 1..m : Linked(k, i) /\ Untouched(k, i)
  BY <1>2, UnbrokenPasses
<1>7. l \in [1..n -> Row] /\ k \in [1..m -> Row]
  BY <1>3, <1>4 DEF ChainedIn, Table
<1> HIDE DEF n, m, l, k
<1>8. \A i \in 1..n : Len(l[i].hash) = i
  BY <1>3, <1>5, <1>7, PassingLengths
<1>9. \A i \in 1..m : Len(k[i].hash) = i
  BY <1>4, <1>6, <1>7, PassingLengths
<1>10. \A i \in 1..n : \E j \in 1..m : k[j].hash = l[i].hash /\ j = i
  <2> SUFFICES ASSUME NEW i \in 1..n PROVE \E j \in 1..m : k[j].hash = l[i].hash /\ j = i
    OBVIOUS
  <2>1. PICK s \in ChainedIn(other) : s.hash = l[i].hash
    BY <1>3 DEF SameLinks
  <2>2. PICK j \in 1..m : k[j] = s
    BY <1>4
  <2> QED
    BY <1>8, <1>9, <2>1, <2>2
<1>11. \A i \in 1..m : \E j \in 1..n : k[i].hash = l[j].hash /\ j = i
  <2> SUFFICES ASSUME NEW i \in 1..m PROVE \E j \in 1..n : k[i].hash = l[j].hash /\ j = i
    OBVIOUS
  <2>1. PICK s \in ChainedIn(table) : s.hash = k[i].hash
    BY <1>4 DEF SameLinks
  <2>2. PICK j \in 1..n : l[j] = s
    BY <1>3
  <2> QED
    BY <1>8, <1>9, <2>1, <2>2
<1>12. n = m
  <2>1. n # 0 => n \in 1..n
    BY <1>3
  <2>2. m # 0 => m \in 1..m
    BY <1>4
  <2> QED
    BY <1>3, <1>4, <1>10, <1>11, <2>1, <2>2
<1>13. CASE n = 0
  <2>1. l = <<>> /\ k = <<>>
    BY <1>7, <1>12, <1>13
  <2> QED
    BY <2>1 DEF l, k
<1>14. CASE n # 0
  <2>1. n \in 1..n /\ l[n].hash = k[n].hash
    BY <1>3, <1>10, <1>14
  <2>2. EventsOf(l) = l[n].hash
    BY <1>3, <1>5, <1>7, <1>14, PassingAttests
  <2>3. EventsOf(k) = k[m].hash
    BY <1>4, <1>6, <1>7, <1>12, <1>14, PassingAttests
  <2> QED
    BY <2>1, <2>2, <2>3, <1>12 DEF l, k
<1> QED
  BY <1>13, <1>14

\* A passing walk is only possible where ids order the line as it is linked.
LEMMA PassingIsInLineOrder ==
  ASSUME NEW table, Table(table),
         \A i \in 1..Cardinality(ChainedIn(table)) :
           Linked(Listing(table), i) /\ Untouched(Listing(table), i)
  PROVE  InLineOrder(table)
<1> DEFINE n == Cardinality(ChainedIn(table))
           l == Listing(table)
<1>1. /\ n \in Nat /\ l \in [1..n -> ChainedIn(table)]
      /\ \A i, j \in 1..n : i < j => l[i].id < l[j].id
      /\ \A r \in ChainedIn(table) : \E i \in 1..n : l[i] = r
  BY ListingIsSorted DEF Table
<1>2. l \in [1..n -> Row]
  BY <1>1 DEF ChainedIn, Table
<1>3. \A i \in 1..n : Linked(l, i) /\ Untouched(l, i)
  OBVIOUS
<1> HIDE DEF n, l
<1>4. \A i \in 1..n : Len(l[i].hash) = i
  BY <1>1, <1>2, <1>3, PassingLengths
<1> SUFFICES ASSUME NEW r \in ChainedIn(table), NEW s \in ChainedIn(table), r.id < s.id
             PROVE  Len(r.hash) < Len(s.hash)
  BY DEF InLineOrder
<1>5. PICK i \in 1..n, j \in 1..n : l[i] = r /\ l[j] = s
  BY <1>1
<1>6. r.id \in Nat /\ s.id \in Nat
  BY DEF ChainedIn, Table, Row
<1>7. ~(j < i) /\ i # j
  BY <1>1, <1>5, <1>6
<1> QED
  BY <1>4, <1>5, <1>7

------------------------------------------------------------------------------
\* What holds of the committed table: ids, lengths, halves.

\* The ids drawn so far: at most one by each attempt of each call.
Drawn ==
  {p \in Call \X (0..ChainRetries) :
     \/ p[2] < attempt[p[1]]
     \/ p[2] = attempt[p[1]] /\ pc[p[1]] \in {"unique", "commit", "done"}}

\* No id is used twice, and none is as high as the one beyond all.
IdsFit ==
  /\ seq <= Cardinality(Drawn)
  /\ \A r \in rows : r.id <= seq \/ r.id = BeyondIds
  /\ \A r, s \in rows : r.id = s.id => r = s
  /\ \A c \in Call :
       pc[c] \in {"unique", "commit"} =>
         /\ rowid[c] \in Nat
         /\ rowid[c] <= seq
         /\ \A r \in rows : r.id # rowid[c]
         /\ \A d \in Call \ {c} :
              pc[d] \in {"unique", "commit"} => rowid[d] # rowid[c]

\* Nothing commits to more events than ids were drawn.
LengthsFit ==
  /\ IsFiniteSet(rows)
  /\ \A r \in rows : r.hash # NULL => Len(r.hash) <= seq
  /\ \A c \in Call : pc[c] \in {"insert", "unique", "commit"} =>
       /\ tip[c] = NULL <=> attempt[c] = ChainRetries
       /\ tip[c] # NULL => Len(tip[c]) <= seq
       /\ tip[c] # NULL /\ pc[c] # "insert" => Len(tip[c]) < seq

\* A row has both halves of its link or neither, and commits to one event more
\* than the row it links to.
HalvesAgree ==
  \A r \in rows : /\ r.prev = NULL <=> r.hash = NULL
                  /\ r.hash # NULL => Len(r.hash) = Len(r.prev) + 1

\* One line, whatever the ids, and the open transactions fit it.
OneLine ==
  /\ OneLineIn(rows)
  /\ \A c \in Call :
       pc[c] \in {"insert", "unique", "commit"} /\ tip[c] \notin {NULL, GENESIS} =>
         \E s \in Chained : s.hash = tip[c]
  /\ GrantIsExclusive

\* What is left of the line after each kind of alteration.
TableInv ==
  /\ TypeOK
  /\ IdsFit
  /\ LengthsFit
  /\ altered.kind # "half" => HalvesAgree
  /\ altered.kind \in {"none", "renumber"} => OneLine
  /\ altered.kind = "none" => IInv

\* However the attempts went, the ids they drew leave the one beyond all free.
LEMMA DrawnIsBounded ==
  ASSUME NEW drawn, drawn \subseteq Call \X (0..ChainRetries)
  PROVE  /\ IsFiniteSet(drawn)
         /\ Cardinality(drawn) \in Nat
         /\ Cardinality(drawn) < BeyondIds
         /\ BeyondIds \in Nat
<1>1. /\ IsFiniteSet(0..ChainRetries)
      /\ Cardinality(0..ChainRetries) = ChainRetries + 1
  BY RetriesAssumption, FS_Interval
<1>2. /\ IsFiniteSet(Call \X (0..ChainRetries))
      /\ Cardinality(Call \X (0..ChainRetries)) = Cardinality(Call) * (ChainRetries + 1)
  BY <1>1, CallsAssumption, FS_Product
<1>3. Cardinality(Call) * (ChainRetries + 1) \in Nat
  BY <1>2, FS_CardinalityType
<1>4. drawn \in SUBSET (Call \X (0..ChainRetries))
  OBVIOUS
<1>5. /\ IsFiniteSet(drawn)
      /\ Cardinality(drawn) <= Cardinality(Call \X (0..ChainRetries))
  BY <1>2, <1>4, FS_Subset
<1>6. Cardinality(drawn) \in Nat
  BY <1>5, FS_CardinalityType
<1> QED
  BY <1>2, <1>3, <1>5, <1>6 DEF BeyondIds

\* chain_tip's answer is the start of the chain or the hash of a row that nothing
\* links to, whatever was altered.
LEMMA ChainTipIs ==
  ASSUME TypeOK, IdsFit
  PROVE  /\ Tips(rows) = {} => ChainTip(rows) = GENESIS
         /\ Tips(rows) # {} => \E t \in Tips(rows) : ChainTip(rows) = t.hash
         /\ ChainTip(rows) \in Hash
         /\ ChainTip(rows) # NULL
<1>1. \A t \in Tips(rows) : t \in rows /\ t.hash \in Hash /\ t.id \in Nat
  BY DEF Tips, ChainedIn, TypeOK, Row
<1>2. CASE Tips(rows) = {}
  <2>1. ChainTip(rows) = GENESIS
    BY <1>2 DEF ChainTip
  <2>2. GENESIS \in Hash
    BY DEF GENESIS, Hash
  <2> QED
    BY <1>2, <2>1, <2>2, NullAssumption DEF Hash
<1>3. CASE Tips(rows) # {}
  <2> DEFINE S == {t.id : t \in Tips(rows)}
             b == seq + BeyondIds
  <2>1. b \in Nat /\ \A n \in S : n <= b
    <3>1. BeyondIds \in Nat
      BY DrawnIsBounded
    <3> QED
      BY <1>1, <3>1 DEF IdsFit, TypeOK
  <2>2. S \subseteq Nat /\ S # {}
    BY <1>1, <1>3
  <2>3. \E m \in S : \A n \in S : n <= m
    <3> HIDE DEF S, b
    <3> QED
      BY <2>1, <2>2, LargestOf
  <2>4. PICK t \in Tips(rows) : \A s \in Tips(rows) : s.id <= t.id
    BY <2>3
  <2> DEFINE h == CHOOSE r \in Tips(rows) : \A s \in Tips(rows) : s.id <= r.id
  <2>5. h \in Tips(rows)
    BY <2>4
  <2>6. ChainTip(rows) = h.hash
    BY <1>3 DEF ChainTip
  <2> QED
    BY <1>1, <1>3, <2>5, <2>6, NullAssumption DEF Hash
<1> QED
  BY <1>2, <1>3

\* A writer keeps the types, whatever an outsider has left of the table: the
\* bounds on ids and lengths are enough.
LEMMA TypeStep ==
  ASSUME TypeOK, IdsFit, LengthsFit, Next
  PROVE  TypeOK'
<1>1. ASSUME NEW c \in Call, Record(c) PROVE TypeOK'
  <2>1. Len(ChainTip(rows)) \in Nat
    BY ChainTipIs DEF Hash
  <2> QED
    BY <1>1, <2>1 DEF Record, TypeOK
<1>2. ASSUME NEW c \in Call, Stamp(c) PROVE TypeOK'
  BY <1>2, ChainTipIs DEF Stamp, TypeOK
<1>3. ASSUME NEW c \in Call, Insert(c) PROVE TypeOK'
  BY <1>3 DEF Insert, TypeOK
<1>4. ASSUME NEW c \in Call, UniqueGranted(c) PROVE TypeOK'
  BY <1>4 DEF UniqueGranted, TypeOK
<1>5. ASSUME NEW c \in Call, UniqueRefused(c) PROVE TypeOK'
  <2>1. attempt[c] \in 0..ChainRetries /\ attempt[c] # ChainRetries
    BY <1>5 DEF UniqueRefused, TypeOK, LengthsFit
  <2> QED
    BY <1>5, <2>1, RetriesAssumption DEF UniqueRefused, TypeOK
<1>6. ASSUME NEW c \in Call, Commit(c) \/ CommitUnacknowledged(c) PROVE TypeOK'
  <2>1. RowOf(c) \in Row
    <3>1. rowid[c] \in Nat /\ tip[c] \in Hash \union {NULL}
      BY <1>6 DEF Commit, CommitUnacknowledged, IdsFit, TypeOK
    <3>2. tip[c] # NULL => EventHash(c, tip[c]) \in Hash
      BY <3>1, EventHashIs
    <3> QED
      BY <3>1, <3>2 DEF RowOf, Row
  <2> QED
    BY <1>6, <2>1 DEF Commit, CommitUnacknowledged, TypeOK
<1>7. ASSUME NEW c \in Call, Fail(c) PROVE TypeOK'
  BY <1>7 DEF Fail, TypeOK
<1> QED
  BY <1>1, <1>2, <1>3, <1>4, <1>5, <1>6, <1>7 DEF Next

\* A writer's id is fresh, whatever the outsider changed: it comes from a counter no
\* alteration touches, and no row was given one of its future ids but the one beyond all.
LEMMA IdsStep ==
  ASSUME TypeOK, TypeOK', IdsFit, LengthsFit, Next
  PROVE  IdsFit'
<1>1. /\ Cardinality(Drawn) \in Nat /\ Cardinality(Drawn') \in Nat
      /\ Cardinality(Drawn') < BeyondIds /\ BeyondIds \in Nat
      /\ IsFiniteSet(Drawn) /\ IsFiniteSet(Drawn')
  <2>1. Drawn \subseteq Call \X (0..ChainRetries) /\ Drawn' \subseteq Call \X (0..ChainRetries)
    BY DEF Drawn
  <2> QED
    BY <2>1, DrawnIsBounded
<1>2. Drawn \subseteq Drawn' => Cardinality(Drawn) <= Cardinality(Drawn')
  BY <1>1, FS_Subset
<1>3. ASSUME NEW c \in Call, Insert(c) PROVE IdsFit'
  <2>1. <<c, attempt[c]>> \in Drawn' /\ <<c, attempt[c]>> \notin Drawn /\ Drawn \subseteq Drawn'
    BY <1>3 DEF Insert, Drawn, TypeOK
  <2>2. Cardinality(Drawn) # Cardinality(Drawn')
    BY <1>1, <2>1, FS_Subset
  <2>3. seq' <= Cardinality(Drawn')
    BY <1>1, <1>2, <1>3, <2>1, <2>2 DEF Insert, IdsFit, TypeOK
  <2>4. seq + 1 # BeyondIds /\ seq + 1 > seq
    BY <1>1, <1>3, <2>3 DEF Insert, TypeOK
  <2> QED
    BY <1>1, <1>3, <2>3, <2>4 DEF Insert, IdsFit, TypeOK, Row
<1>4. ASSUME Drawn \subseteq Drawn', seq' = seq, rowid' = rowid, rows' = rows,
             NEW c \in Call, NEW p, pc' = [pc EXCEPT ![c] = p],
             p \in {"unique", "commit"} => pc[c] \in {"unique", "commit"}
      PROVE  IdsFit'
  <2>1. seq' <= Cardinality(Drawn')
    BY <1>1, <1>2, <1>4 DEF IdsFit, TypeOK
  <2>2. \A d \in Call : pc'[d] \in {"unique", "commit"} => pc[d] \in {"unique", "commit"}
    BY <1>4 DEF TypeOK
  <2> QED
    BY <1>1, <1>4, <2>1, <2>2 DEF IdsFit
<1>5. ASSUME NEW c \in Call, Record(c) \/ Stamp(c) \/ UniqueGranted(c) \/ UniqueRefused(c) \/ Fail(c)
      PROVE  IdsFit'
  <2>1. seq' = seq /\ rowid' = rowid /\ rows' = rows
    BY <1>5 DEF Record, Stamp, UniqueGranted, UniqueRefused, Fail
  <2>2. PICK p \in {"open", "insert", "commit", "done"} :
          /\ pc' = [pc EXCEPT ![c] = p]
          /\ p \in {"unique", "commit"} => pc[c] \in {"unique", "commit"}
          /\ pc[c] \in {"commit", "unique"} =>
               p \in {"commit", "done"} \/ attempt'[c] = attempt[c] + 1
          /\ pc[c] # "done"
          /\ attempt' = attempt \/ attempt' = [attempt EXCEPT ![c] = @ + 1]
    BY <1>5 DEF Record, Stamp, UniqueGranted, UniqueRefused, Fail, TypeOK
  <2>3. Drawn \subseteq Drawn'
    <3> SUFFICES ASSUME NEW drawn \in Drawn PROVE drawn \in Drawn'
      OBVIOUS
    <3> DEFINE d == drawn[1]
               a == drawn[2]
    <3>1. /\ drawn \in Call \X (0..ChainRetries) /\ d \in Call /\ a \in Nat
          /\ a < attempt[d] \/ (a = attempt[d] /\ pc[d] \in {"unique", "commit", "done"})
      <4>1. /\ drawn \in Call \X (0..ChainRetries)
            /\ a < attempt[d] \/ (a = attempt[d] /\ pc[d] \in {"unique", "commit", "done"})
        BY DEF Drawn
      <4>2. d \in Call /\ a \in 0..ChainRetries
        BY <4>1
      <4> QED
        BY <4>1, <4>2, RetriesAssumption
    <3> HIDE DEF d, a
    <3>2. attempt[d] \in Nat /\ attempt[c] \in Nat
      BY <3>1, RetriesAssumption DEF TypeOK
    <3>3. a < attempt'[d] \/ (a = attempt'[d] /\ pc'[d] \in {"unique", "commit", "done"})
      <4>1. CASE d = c
        <5>1. pc'[c] = p /\ (attempt'[c] = attempt[c] \/ attempt'[c] = attempt[c] + 1)
          BY <2>2, <4>1, <3>1 DEF TypeOK
        <5>2. CASE a < attempt[c]
          BY <3>1, <3>2, <4>1, <5>1, <5>2
        <5>3. CASE ~(a < attempt[c])
          <6>1. a = attempt[c] /\ pc[c] \in {"unique", "commit"}
            BY <2>2, <3>1, <4>1, <5>3
          <6>2. p \in {"commit", "done"} \/ attempt'[c] = attempt[c] + 1
            BY <2>2, <6>1
          <6> QED
            BY <3>2, <4>1, <5>1, <6>1, <6>2
        <5> QED
          BY <5>2, <5>3
      <4>2. CASE d # c
        <5>1. pc'[d] = pc[d] /\ attempt'[d] = attempt[d]
          BY <2>2, <3>1, <4>2 DEF TypeOK
        <5> QED
          BY <3>1, <5>1
      <4> QED
        BY <4>1, <4>2
    <3> QED
      BY <3>1, <3>3 DEF Drawn, d, a
  <2> QED
    BY <1>4, <2>1, <2>2, <2>3
<1>6. ASSUME NEW c \in Call, Commit(c) \/ CommitUnacknowledged(c) PROVE IdsFit'
  <2>1. /\ pc[c] = "commit" /\ rows' = rows \union {RowOf(c)}
        /\ pc' = [pc EXCEPT ![c] = "done"]
        /\ seq' = seq /\ rowid' = rowid /\ attempt' = attempt /\ RowOf(c).id = rowid[c]
    BY <1>6 DEF Commit, CommitUnacknowledged, RowOf
  <2>2. Drawn \subseteq Drawn'
    BY <2>1 DEF Drawn, TypeOK
  <2>3. seq' <= Cardinality(Drawn')
    BY <1>1, <1>2, <2>1, <2>2 DEF IdsFit, TypeOK
  <2>4. \A d \in Call \ {c} : pc'[d] = pc[d]
    BY <2>1 DEF TypeOK
  <2>5. pc'[c] = "done"
    BY <2>1 DEF TypeOK
  <2>6. rowid[c] <= seq /\ \A r \in rows : r.id # rowid[c]
    BY <2>1 DEF IdsFit
  <2>7. \A r \in rows' : r.id <= seq' \/ r.id = BeyondIds
    BY <1>1, <2>1, <2>6 DEF IdsFit
  <2>8. \A r, s \in rows' : r.id = s.id => r = s
    BY <2>1, <2>6 DEF IdsFit
  <2>9. \A d \in Call : pc'[d] \in {"unique", "commit"} =>
          /\ rowid'[d] \in Nat
          /\ rowid'[d] <= seq'
          /\ \A r \in rows' : r.id # rowid'[d]
          /\ \A e \in Call \ {d} :
               pc'[e] \in {"unique", "commit"} => rowid'[e] # rowid'[d]
    BY <2>1, <2>4, <2>5 DEF IdsFit
  <2> QED
    BY <2>3, <2>7, <2>8, <2>9 DEF IdsFit
<1> QED
  BY <1>3, <1>5, <1>6 DEF Next

------------------------------------------------------------------------------
\* ... and every step of a writer keeps it.

\* The row a commit adds.
LEMMA NewRow ==
  ASSUME TypeOK, NEW c \in Call
  PROVE  /\ RowOf(c).event = c /\ RowOf(c).id = rowid[c] /\ RowOf(c).prev = tip[c]
         /\ RowOf(c).prev = NULL <=> RowOf(c).hash = NULL
         /\ tip[c] # NULL =>
              /\ tip[c] \in Hash
              /\ RowOf(c).hash = EventHash(c, tip[c])
              /\ RowOf(c).hash \in Hash
              /\ Len(tip[c]) \in Nat
              /\ Len(RowOf(c).hash) = Len(tip[c]) + 1
<1>1. tip[c] \in Hash \union {NULL}
  BY DEF TypeOK
<1>2. tip[c] # NULL => EventHash(c, tip[c]) # NULL
  BY <1>1, HashIsNew
<1> QED
  BY <1>1, <1>2, EventHashIs DEF RowOf

\* A writer links to a row of the table, so it commits to at most one event more
\* than some row there, and draws an id for it.
LEMMA LengthsStep ==
  ASSUME TypeOK, IdsFit, LengthsFit, Next
  PROVE  LengthsFit'
<1>1. ASSUME NEW c \in Call, Record(c) \/ Fail(c) PROVE LengthsFit'
  <2>1. /\ rows' = rows /\ seq' = seq /\ tip' = tip /\ attempt' = attempt
        /\ pc' = [pc EXCEPT ![c] = "open"] \/ pc' = [pc EXCEPT ![c] = "done"]
    BY <1>1 DEF Record, Fail
  <2>2. \A d \in Call : pc'[d] \in {"insert", "unique", "commit"} => pc'[d] = pc[d]
    BY <2>1 DEF TypeOK
  <2> QED
    BY <2>1, <2>2 DEF LengthsFit
<1>2. ASSUME NEW c \in Call, Stamp(c) PROVE LengthsFit'
  <2>1. Len(ChainTip(rows)) <= seq
    <3>1. CASE Tips(rows) = {}
      <4>1. ChainTip(rows) = <<>> /\ Len(<<>>) = 0
        BY <3>1, ChainTipIs DEF GENESIS
      <4> QED
        BY <4>1 DEF TypeOK
    <3>2. CASE Tips(rows) # {}
      BY <3>2, ChainTipIs DEF LengthsFit, Tips, ChainedIn
    <3> QED
      BY <3>1, <3>2
  <2> DEFINE h == IF LastAttempt(c) THEN NULL ELSE ChainTip(rows)
  <2>2. /\ rows' = rows /\ seq' = seq /\ attempt' = attempt
        /\ tip' = [tip EXCEPT ![c] = h]
        /\ pc' = [pc EXCEPT ![c] = "insert"]
    BY <1>2 DEF Stamp
  <2>3. /\ h = NULL <=> attempt[c] = ChainRetries
        /\ h # NULL => Len(h) <= seq
    BY <2>1, ChainTipIs DEF LastAttempt
  <2> HIDE DEF h
  <2> QED
    BY <2>2, <2>3 DEF LengthsFit, TypeOK
<1>3. ASSUME NEW c \in Call, Insert(c) PROVE LengthsFit'
  <2>1. /\ rows' = rows /\ seq' = seq + 1 /\ attempt' = attempt /\ tip' = tip
        /\ pc[c] = "insert" /\ pc' = [pc EXCEPT ![c] = "unique"]
    BY <1>3 DEF Insert
  <2>2. \A r \in rows : r.hash # NULL => Len(r.hash) \in Nat
    BY DEF TypeOK, Row, Hash
  <2>3. \A d \in Call : tip[d] # NULL => Len(tip[d]) \in Nat
    BY DEF TypeOK, Hash
  <2>4. seq \in Nat
    BY DEF TypeOK
  <2>5. \A r \in rows : r.hash # NULL => Len(r.hash) <= seq + 1
    BY <2>2, <2>4 DEF LengthsFit
  <2>6. ASSUME NEW d \in Call, pc'[d] \in {"insert", "unique", "commit"}
        PROVE  /\ tip[d] = NULL <=> attempt[d] = ChainRetries
               /\ tip[d] # NULL => Len(tip[d]) <= seq + 1
               /\ tip[d] # NULL /\ pc'[d] # "insert" => Len(tip[d]) < seq + 1
    <3>1. pc[d] \in {"insert", "unique", "commit"}
      BY <2>1, <2>6 DEF TypeOK
    <3> QED
      BY <2>3, <2>4, <3>1 DEF LengthsFit
  <2> QED
    BY <2>1, <2>5, <2>6 DEF LengthsFit
<1>4. ASSUME NEW c \in Call, UniqueGranted(c) PROVE LengthsFit'
  BY <1>4 DEF UniqueGranted, LengthsFit, TypeOK
<1>5. ASSUME NEW c \in Call, UniqueRefused(c) PROVE LengthsFit'
  BY <1>5 DEF UniqueRefused, LengthsFit, TypeOK
<1>6. ASSUME NEW c \in Call, Commit(c) \/ CommitUnacknowledged(c) PROVE LengthsFit'
  <2>1. /\ pc[c] = "commit" /\ rows' = rows \union {RowOf(c)}
        /\ pc' = [pc EXCEPT ![c] = "done"]
        /\ seq' = seq /\ tip' = tip /\ attempt' = attempt
    BY <1>6 DEF Commit, CommitUnacknowledged
  <2>2. IsFiniteSet(rows')
    BY <2>1, FS_AddElement DEF LengthsFit
  <2>3. RowOf(c).hash # NULL => Len(RowOf(c).hash) <= seq
    <3>1. tip[c] # NULL => Len(tip[c]) < seq
      BY <2>1 DEF LengthsFit
    <3> QED
      BY <3>1, NewRow DEF TypeOK
  <2>4. \A d \in Call : pc'[d] \in {"insert", "unique", "commit"} => pc'[d] = pc[d]
    BY <2>1 DEF TypeOK
  <2> QED
    BY <2>1, <2>2, <2>3, <2>4 DEF LengthsFit
<1> QED
  BY <1>1, <1>2, <1>3, <1>4, <1>5, <1>6 DEF Next

\* A step of a writer leaves the rows alone, or commits the row of one call.
LEMMA NextWrites ==
  ASSUME Next
  PROVE  \/ rows' = rows
         \/ \E c \in Call : /\ Commit(c) \/ CommitUnacknowledged(c)
                            /\ pc[c] = "commit"
                            /\ pc' = [pc EXCEPT ![c] = "done"]
                            /\ rows' = rows \union {RowOf(c)}
BY DEF Next, Record, Stamp, Insert, UniqueGranted, UniqueRefused, Commit,
       CommitUnacknowledged, Fail

\* A writer adds a row with both halves of its link or with neither.
LEMMA HalvesStep ==
  ASSUME TypeOK, HalvesAgree, Next
  PROVE  HalvesAgree'
<1>1. CASE rows' = rows
  BY <1>1 DEF HalvesAgree
<1>2. ASSUME NEW c \in Call, rows' = rows \union {RowOf(c)} PROVE HalvesAgree'
  BY <1>2, NewRow DEF HalvesAgree
<1> QED
  BY <1>1, <1>2, NextWrites

\* A writer extends the line at an end, and only one of them does: the others find
\* their predecessor taken by the unique index.
LEMMA OneLineStep ==
  ASSUME TypeOK, IdsFit, LengthsFit, HalvesAgree, OneLine, Next
  PROVE  OneLine'
<1> USE DEF OneLine
<1>1. ASSUME rows' = rows
      PROVE  OneLineIn(rows') /\ Chained' = Chained
  BY <1>1 DEF Chained
<1>2. ASSUME NEW c \in Call, Record(c) \/ Fail(c) \/ Insert(c) \/ UniqueRefused(c)
      PROVE  OneLine'
  <2>1. /\ rows' = rows /\ tip' = tip
        /\ \E p \in {"open", "done", "unique"} :
             /\ pc' = [pc EXCEPT ![c] = p]
             /\ p = "unique" => pc[c] = "insert"
    BY <1>2 DEF Record, Fail, Insert, UniqueRefused
  <2>2. \A d \in Call : /\ pc'[d] \in {"insert", "unique", "commit"} =>
                             pc[d] \in {"insert", "unique", "commit"}
                        /\ pc'[d] = "commit" => pc[d] = "commit"
    BY <2>1 DEF TypeOK
  <2>3. GrantIsExclusive'
    BY <2>1, <2>2 DEF GrantIsExclusive, LinkTaken, LinkContended
  <2> QED
    BY <1>1, <2>1, <2>2, <2>3
<1>3. ASSUME NEW c \in Call, Stamp(c) PROVE OneLine'
  <2> DEFINE h == IF LastAttempt(c) THEN NULL ELSE ChainTip(rows)
  <2>1. /\ rows' = rows
        /\ tip' = [tip EXCEPT ![c] = h]
        /\ pc' = [pc EXCEPT ![c] = "insert"]
    BY <1>3 DEF Stamp
  <2>2. h \notin {NULL, GENESIS} => \E s \in Chained : s.hash = h
    BY ChainTipIs DEF Tips, Chained
  <2> HIDE DEF h
  <2>3. GrantIsExclusive'
    BY <2>1 DEF GrantIsExclusive, LinkTaken, LinkContended, TypeOK
  <2>4. \A d \in Call :
          pc'[d] \in {"insert", "unique", "commit"} /\ tip'[d] \notin {NULL, GENESIS} =>
            \E s \in Chained : s.hash = tip'[d]
    BY <2>1, <2>2 DEF TypeOK
  <2> QED
    BY <1>1, <2>1, <2>3, <2>4
<1>4. ASSUME NEW c \in Call, UniqueGranted(c) PROVE OneLine'
  <2>1. GrantIsExclusive'
    BY <1>4 DEF UniqueGranted, GrantIsExclusive, LinkTaken, LinkContended, TypeOK
  <2> QED
    BY <1>1, <1>4, <2>1 DEF UniqueGranted, TypeOK
<1>5. ASSUME NEW c \in Call, Commit(c) \/ CommitUnacknowledged(c) PROVE OneLine'
  <2> DEFINE n == RowOf(c)
  <2>1. /\ pc[c] = "commit" /\ rows' = rows \union {n}
        /\ pc' = [pc EXCEPT ![c] = "done"]
        /\ tip' = tip
    BY <1>5 DEF Commit, CommitUnacknowledged
  <2>2. \A d \in Call : pc'[d] \in {"insert", "unique", "commit"} => pc'[d] = pc[d] /\ d # c
    BY <2>1 DEF TypeOK
  <2>3. /\ n.event = c /\ n.prev = tip[c] /\ (n.prev = NULL <=> n.hash = NULL)
        /\ tip[c] # NULL => tip[c] \in Hash /\ n.hash = EventHash(c, tip[c])
    BY NewRow
  <2> HIDE DEF n
  <2>4. Chained \subseteq Chained'
    BY <2>1 DEF Chained, ChainedIn
  <2>5. GrantIsExclusive'
    <3> SUFFICES ASSUME NEW d \in Call, pc'[d] = "commit", tip'[d] # NULL
                 PROVE  ~LinkTaken(d)' /\ ~LinkContended(d)'
      BY DEF GrantIsExclusive
    <3>1. pc[d] = "commit" /\ d # c /\ tip[d] # NULL
      BY <2>1, <2>2
    <3>2. ~LinkTaken(d) /\ ~LinkContended(d)
      BY <3>1 DEF GrantIsExclusive
    <3>3. tip[c] # tip[d]
      BY <2>1, <3>1, <3>2 DEF LinkContended
    <3>4. ~LinkTaken(d)'
      BY <2>1, <2>3, <3>2, <3>3 DEF LinkTaken
    <3>5. ~LinkContended(d)'
      BY <2>1, <2>2, <3>2 DEF LinkContended
    <3> QED
      BY <3>4, <3>5
  <2>6. OneLineIn(rows')
    <3>1. CASE tip[c] = NULL
      <4>1. ChainedIn(rows') = ChainedIn(rows)
        BY <2>1, <2>3, <3>1 DEF ChainedIn
      <4> QED
        BY <4>1 DEF OneLineIn
    <3>2. CASE tip[c] # NULL
      <4>1. ChainedIn(rows') = ChainedIn(rows) \union {n}
        BY <2>1, <2>3, <3>2 DEF ChainedIn
      <4>2. \A r \in ChainedIn(rows) : r.prev # n.prev
        BY <2>1, <2>3, <3>2 DEF GrantIsExclusive, LinkTaken, ChainedIn
      <4>3. n.prev = GENESIS \/ \E p \in ChainedIn(rows) : p.hash = n.prev
        BY <2>1, <2>3, <3>2 DEF Chained
      <4> QED
        BY <2>3, <3>2, <4>1, <4>2, <4>3 DEF OneLineIn
    <3> QED
      BY <3>1, <3>2
  <2>7. \A d \in Call :
          pc'[d] \in {"insert", "unique", "commit"} /\ tip'[d] \notin {NULL, GENESIS} =>
            \E s \in Chained' : s.hash = tip'[d]
    BY <2>1, <2>2, <2>4
  <2> QED
    BY <2>5, <2>6, <2>7
<1> QED
  BY <1>2, <1>3, <1>4, <1>5 DEF Next

\* So every step of a writer keeps what holds of the table.
LEMMA NextTable ==
  ASSUME TableInv, Next, altered' = altered
  PROVE  TableInv'
<1> USE DEF TableInv
<1>1. TypeOK'
  BY TypeStep
<1>2. IdsFit'
  BY <1>1, IdsStep
<1>3. LengthsFit'
  BY LengthsStep
<1>4. altered.kind # "half" => HalvesAgree'
  BY HalvesStep
<1>5. altered.kind \in {"none", "renumber"} => OneLine'
  BY OneLineStep
<1>6. altered.kind = "none" => IInv'
  BY NextIInv
<1> QED
  BY <1>1, <1>2, <1>3, <1>4, <1>5, <1>6

------------------------------------------------------------------------------
\* What an alteration leaves behind.

\* What each kind of alteration leaves behind for good, however the writers go on.
AlteredInv ==
  /\ altered.kind \in {"none", "edit", "delete", "renumber", "clear", "half"}
  /\ altered.kind = "edit" =>
       \E e \in rows :
         /\ e.id = altered.row.id /\ e.event # altered.row.event
         /\ e.hash = altered.row.hash
         /\ e.hash # NULL => e.prev \in Hash /\ e.hash # EventHash(e.event, e.prev)
  /\ altered.kind \in {"delete", "clear"} /\ altered.row.hash # NULL =>
       /\ altered.row.event \in Call /\ altered.row.prev \in Hash
       /\ altered.row.hash = EventHash(altered.row.event, altered.row.prev)
       /\ pc[altered.row.event] = "done"
       /\ \A r \in rows : r.hash # altered.row.hash
       /\ altered.interior => \E s \in Chained : s.prev = altered.row.hash
  /\ altered.kind = "clear" => \E r \in rows : r.hash = NULL
  /\ altered.kind = "half" => \E r \in rows : HalfLinked(r)
  /\ altered.kind = "renumber" /\ altered.moved => ~InLineOrder(rows)

\* No writer undoes it: rows are only added, and no event is written again.
LEMMA NextAltered ==
  ASSUME TableInv, AlteredInv, Next, altered' = altered
  PROVE  AlteredInv'
<1>1. rows \subseteq rows' /\ Chained \subseteq Chained'
  BY NextWrites DEF Chained, ChainedIn
<1>2. \A c \in Call : pc[c] = "done" => pc'[c] = "done"
  BY DEF TableInv, TypeOK, Next, Record, Stamp, Insert, UniqueGranted, UniqueRefused,
         Commit, CommitUnacknowledged, Fail
<1>3. ASSUME altered.kind \in {"delete", "clear"}, altered.row.hash # NULL
      PROVE  \A r \in rows' : r.hash # altered.row.hash
  <2>1. CASE rows' = rows
    BY <1>3, <2>1 DEF AlteredInv
  <2>2. ASSUME NEW c \in Call, pc[c] = "commit", rows' = rows \union {RowOf(c)},
               RowOf(c).hash = altered.row.hash
        PROVE  FALSE
    <3>1. tip[c] \in Hash /\ RowOf(c).hash = EventHash(c, tip[c])
      BY <1>3, <2>2, NewRow DEF TableInv
    <3>2. c = altered.row.event
      BY <1>3, <2>2, <3>1, HashDeterminesEvent DEF AlteredInv
    <3> QED
      BY <1>3, <2>2, <3>2 DEF AlteredInv
  <2> QED
    BY <1>3, <2>1, <2>2, NextWrites DEF AlteredInv
<1>4. ~InLineOrder(rows) => ~InLineOrder(rows')
  BY <1>1 DEF InLineOrder, Chained
<1> QED
  BY <1>1, <1>2, <1>3, <1>4 DEF AlteredInv

\* What every alteration has in common: at most one row takes the place of one.
LEMMA ReplacedRow ==
  ASSUME TableInv, altered.kind = "none", NEW r \in rows, NEW x \in Row,
         x.id = r.id \/ x.id \in FreeId,
         x.hash \in {r.hash, NULL},
         NEW replacement \in {{}, {x}},
         rows' = (rows \ {r}) \union replacement,
         UNCHANGED <<seq, pc, attempt, tip, rowid, result, began>>
  PROVE  TypeOK' /\ IdsFit' /\ LengthsFit'
<1>1. rows' \subseteq rows \union {x} /\ \A s \in rows' : s # x => s \in rows /\ s # r
  OBVIOUS
<1>2. TypeOK'
  BY <1>1 DEF TableInv, TypeOK
<1>3. x.id \in Nat /\ r.id \in Nat /\ seq \in Nat
  BY DEF TableInv, TypeOK, Row
<1>4. /\ x.id <= seq \/ x.id = BeyondIds
      /\ \A s \in rows \ {r} : s.id # x.id
      /\ \A c \in Call : pc[c] \in {"unique", "commit"} => x.id # rowid[c]
  <2>1. CASE x.id = r.id
    BY <2>1 DEF TableInv, IdsFit
  <2>2. CASE x.id \in FreeId
    BY <2>2 DEF FreeId, TableInv, TypeOK
  <2> QED
    BY <2>1, <2>2
<1>5. Drawn' = Drawn
  BY DEF Drawn
<1>6. IdsFit'
  <2>1. \A s \in rows' : s.id <= seq \/ s.id = BeyondIds
    BY <1>1, <1>4 DEF TableInv, IdsFit
  <2>2. \A s, t \in rows' : s.id = t.id => s = t
    BY <1>1, <1>4 DEF TableInv, IdsFit
  <2>3. \A c \in Call : pc[c] \in {"unique", "commit"} => \A s \in rows' : s.id # rowid[c]
    BY <1>1, <1>4 DEF TableInv, IdsFit
  <2> QED
    BY <1>5, <2>1, <2>2, <2>3 DEF TableInv, IdsFit
<1>7. IsFiniteSet(rows')
  <2>1. IsFiniteSet(rows \union {x}) /\ rows' \in SUBSET (rows \union {x})
    BY <1>1, FS_AddElement DEF TableInv, LengthsFit
  <2> QED
    BY <2>1, FS_Subset
<1>8. LengthsFit'
  BY <1>1, <1>7 DEF TableInv, LengthsFit
<1> QED
  BY <1>2, <1>6, <1>8

\* Injectivity of the hash in its other argument.
LEMMA HashDeterminesPrev ==
  ASSUME NEW p \in Hash, NEW q \in Hash, NEW c \in Call, NEW d \in Call,
         EventHash(c, p) = EventHash(d, q)
  PROVE  p = q
<1>1. /\ Len(Append(p, c)) = Len(p) + 1 /\ Len(Append(q, d)) = Len(q) + 1
      /\ Len(p) \in Nat /\ Len(q) \in Nat
  BY DEF Hash
<1>2. Append(p, c) = Append(q, d)
  BY DEF EventHash
<1>3. Len(p) = Len(q)
  BY <1>1, <1>2
<1>4. /\ \A j \in 1..Len(p) : Append(p, c)[j] = p[j]
      /\ \A j \in 1..Len(q) : Append(q, d)[j] = q[j]
  BY DEF Hash
<1>5. \A j \in 1..Len(p) : p[j] = q[j]
  BY <1>2, <1>3, <1>4
<1> QED
  BY <1>3, <1>5 DEF Hash

\* While nothing was altered every row is on the line or deliberately beside it.
LEMMA Unaltered ==
  ASSUME TableInv, altered.kind = "none", NEW r \in rows
  PROVE  /\ r \in Row /\ pc[r.event] = "done"
         /\ r.prev = NULL <=> r.hash = NULL
         /\ r.hash # NULL => r.prev \in Hash /\ r.hash = EventHash(r.event, r.prev)
BY DEF TableInv, IInv, TypeOK, RowWellFormed, Row

\* The kinds of alteration, one by one. A row whose event was changed no longer
\* carries the hash of its content.
LEMMA EditStep ==
  ASSUME TableInv, AlteredInv, NEW r \in rows, EditRow(r)
  PROVE  TableInv' /\ AlteredInv'
<1>1. PICK e \in Call \ {r.event} : Alter("edit", r, {[r EXCEPT !.event = e]})
  BY DEF EditRow
<1> DEFINE x == [r EXCEPT !.event = e]
<1>2. /\ altered.kind = "none"
      /\ rows' = (rows \ {r}) \union {x}
      /\ altered'.kind = "edit" /\ altered'.row = r
      /\ UNCHANGED <<seq, pc, attempt, tip, rowid, result, began>>
  BY <1>1 DEF Alter
<1>3. /\ r \in Row
      /\ r.prev = NULL <=> r.hash = NULL
      /\ r.hash # NULL => r.prev \in Hash /\ r.hash = EventHash(r.event, r.prev)
  BY <1>2, Unaltered
<1>4. x \in Row /\ x.id = r.id /\ x.hash = r.hash /\ x.prev = r.prev /\ x.event = e
  BY <1>3 DEF Row
<1> HIDE DEF x
<1>5. TypeOK' /\ IdsFit' /\ LengthsFit'
  BY <1>2, <1>4, ReplacedRow
<1>6. HalvesAgree'
  BY <1>2, <1>4 DEF TableInv, HalvesAgree
<1>7. x.hash # NULL => x.prev \in Hash /\ x.hash # EventHash(x.event, x.prev)
  BY <1>3, <1>4, HashDeterminesEvent DEF Row
<1> QED
  BY <1>2, <1>4, <1>5, <1>6, <1>7 DEF TableInv, AlteredInv

\* A deleted or cleared row leaves no row with its hash, and one of the interior
\* leaves the successor that names it.
LEMMA DeleteStep ==
  ASSUME TableInv, AlteredInv, NEW r \in rows, DeleteRow(r) \/ ClearRow(r)
  PROVE  TableInv' /\ AlteredInv'
<1> DEFINE x == [r EXCEPT !.prev = NULL, !.hash = NULL]
<1>1. PICK replacement \in {{}, {x}} :
        /\ altered.kind = "none"
        /\ rows' = (rows \ {r}) \union replacement
        /\ altered'.kind \in {"delete", "clear"}
        /\ altered'.kind = "clear" => replacement = {x}
        /\ altered'.row = r
        /\ altered'.interior = \E s \in rows : s.prev = r.hash /\ r.hash # NULL
        /\ UNCHANGED <<seq, pc, attempt, tip, rowid, result, began>>
  <2>1. CASE DeleteRow(r)
    BY <2>1 DEF DeleteRow, Alter
  <2>2. CASE ClearRow(r)
    BY <2>2 DEF ClearRow, Alter
  <2> QED
    BY <2>1, <2>2
<1>2. /\ r \in Row /\ r.event \in Call /\ pc[r.event] = "done"
      /\ r.prev = NULL <=> r.hash = NULL
      /\ r.hash # NULL => r.prev \in Hash /\ r.hash = EventHash(r.event, r.prev)
  BY <1>1, Unaltered DEF Row
<1>3. x \in Row /\ x.id = r.id /\ x.hash = NULL /\ x.prev = NULL
  BY <1>2 DEF Row
<1> HIDE DEF x
<1>4. TypeOK' /\ IdsFit' /\ LengthsFit'
  BY <1>1, <1>3, ReplacedRow
<1>5. HalvesAgree'
  BY <1>1, <1>3 DEF TableInv, HalvesAgree
<1>6. ASSUME r.hash # NULL, NEW s \in rows', s.hash = r.hash PROVE FALSE
  <2>1. s \in rows /\ s # r
    BY <1>1, <1>3, <1>6
  <2>2. s.event = r.event /\ s.prev = r.prev
    <3>1. /\ s.hash = EventHash(s.event, s.prev) /\ s.prev \in Hash /\ s.event \in Call
      BY <1>1, <1>6, <2>1, Unaltered DEF Row
    <3>2. s.event = r.event
      BY <1>2, <1>6, <3>1, HashDeterminesEvent
    <3> QED
      BY <1>2, <1>6, <3>1, <3>2, HashDeterminesPrev
  <2>3. s \in Chained /\ r \in Chained
    BY <1>6, <2>1 DEF Chained, ChainedIn
  <2> QED
    BY <1>1, <2>1, <2>2, <2>3 DEF TableInv, IInv, Linear
<1>7. ASSUME r.hash # NULL, altered'.interior
      PROVE  \E s \in Chained' : s.prev = r.hash
  <2>1. PICK s \in rows : s.prev = r.hash
    BY <1>1, <1>7
  <2>2. r.prev # r.hash
    BY <1>2, <1>7, EventHashIs
  <2>3. s.hash # NULL
    BY <1>1, <1>7, <2>1, Unaltered
  <2>4. s \in rows'
    BY <1>1, <2>1, <2>2
  <2> QED
    BY <2>1, <2>3, <2>4 DEF Chained, ChainedIn
<1>8. altered'.kind = "clear" => \E s \in rows' : s.hash = NULL
  BY <1>1, <1>3
<1> QED
  BY <1>1, <1>2, <1>4, <1>5, <1>6, <1>7, <1>8 DEF TableInv, AlteredInv

\* A row with half its link cleared is a half-linked row.
LEMMA HalfClearStep ==
  ASSUME TableInv, AlteredInv, NEW r \in rows, HalfClearRow(r)
  PROVE  TableInv' /\ AlteredInv'
<1>1. PICK x \in {[r EXCEPT !.hash = NULL], [r EXCEPT !.prev = NULL]} :
        /\ r.hash # NULL
        /\ altered.kind = "none"
        /\ rows' = (rows \ {r}) \union {x}
        /\ altered'.kind = "half" /\ altered'.row = r
        /\ UNCHANGED <<seq, pc, attempt, tip, rowid, result, began>>
  BY DEF HalfClearRow, Alter
<1>2. /\ r \in Row /\ r.prev # NULL
  BY <1>1, Unaltered
<1>3. /\ x \in Row /\ x.id = r.id /\ x.hash \in {r.hash, NULL}
      /\ (x.prev = NULL) # (x.hash = NULL)
  BY <1>1, <1>2 DEF Row
<1>4. TypeOK' /\ IdsFit' /\ LengthsFit'
  BY <1>1, <1>3, ReplacedRow
<1>5. HalfLinked(x)
  BY <1>3 DEF HalfLinked
<1> QED
  BY <1>1, <1>4, <1>5 DEF TableInv, AlteredInv

\* A row with another id keeps the line as it was, and leaves its order if it moved.
LEMMA RenumberStep ==
  ASSUME TableInv, AlteredInv, NEW r \in rows, RenumberRow(r)
  PROVE  TableInv' /\ AlteredInv'
<1>1. PICK i \in FreeId : Alter("renumber", r, {[r EXCEPT !.id = i]})
  BY DEF RenumberRow
<1> DEFINE x == [r EXCEPT !.id = i]
<1>2. /\ altered.kind = "none"
      /\ rows' = (rows \ {r}) \union {x}
      /\ altered'.kind = "renumber" /\ altered'.row = r
      /\ altered'.moved = (EventsOf(Listing(rows)) # EventsOf(Listing(rows')))
      /\ UNCHANGED <<seq, pc, attempt, tip, rowid, result, began>>
  BY <1>1 DEF Alter
<1>3. r \in Row
  BY <1>2, Unaltered
<1>4. /\ x \in Row /\ x.id \in FreeId
      /\ x.hash = r.hash /\ x.prev = r.prev /\ x.event = r.event
  <2>1. i \in Nat
    <3>1. BeyondIds \in Nat
      BY DrawnIsBounded
    <3> QED
      BY <3>1 DEF FreeId
  <2> QED
    BY <1>3, <2>1 DEF Row
<1> HIDE DEF x
<1>5. TypeOK' /\ IdsFit' /\ LengthsFit'
  BY <1>2, <1>4, ReplacedRow
<1>6. HalvesAgree'
  BY <1>2, <1>4 DEF TableInv, HalvesAgree
\* Every link is kept, under one id or another.
<1>7. SameLinks(rows, rows') /\ SameLinks(rows', rows)
  BY <1>2, <1>4 DEF SameLinks, ChainedIn
<1>8. OneLineIn(rows')
  <2>1. OneLineIn(rows)
    BY <1>2 DEF TableInv, OneLine
  <2>2. \A s \in ChainedIn(rows') : s.prev \in Hash /\ s.hash = EventHash(s.event, s.prev)
    BY <1>7, <2>1 DEF OneLineIn, SameLinks
  <2>3. \A s \in ChainedIn(rows') : s.prev = GENESIS \/ \E p \in ChainedIn(rows') : p.hash = s.prev
    BY <1>7, <2>1 DEF OneLineIn, SameLinks
  <2>4. \A s, t \in ChainedIn(rows') : s.prev = t.prev => s = t
    BY <1>2, <1>4, <2>1 DEF OneLineIn, ChainedIn
  <2> QED
    BY <2>2, <2>3, <2>4 DEF OneLineIn
<1>9. OneLine'
  <2>1. \A h : (\E s \in Chained : s.hash = h) => \E s \in Chained' : s.hash = h
    BY <1>7 DEF SameLinks, Chained
  <2>2. \A h : (\E s \in rows' : s.prev = h) => \E s \in rows : s.prev = h
    BY <1>2, <1>4
  <2>3. GrantIsExclusive'
    BY <1>2, <2>2 DEF TableInv, OneLine, GrantIsExclusive, LinkTaken, LinkContended
  <2> QED
    BY <1>2, <1>8, <2>1, <2>3 DEF TableInv, OneLine
\* A changed order of the listing is an order the links contradict.
<1>10. altered'.moved => ~InLineOrder(rows')
  <2> SUFFICES ASSUME InLineOrder(rows')
               PROVE  EventsOf(Listing(rows)) = EventsOf(Listing(rows'))
    BY <1>2
  <2>1. Table(rows) /\ Table(rows')
    BY <1>5 DEF Table, TableInv, TypeOK, IdsFit, LengthsFit
  <2>2. OneLineIn(rows) /\ Unbroken(rows)
    BY <1>2 DEF TableInv, OneLine, IInv, WalkFindsNoBreak, Unbroken, Chained
  <2>3. Unbroken(rows')
    BY <1>8, <2>1, InLineOrderIsUnbroken
  <2> QED
    BY <1>7, <2>1, <2>2, <2>3, OrderKept
<1> QED
  BY <1>2, <1>5, <1>6, <1>9, <1>10 DEF TableInv, AlteredInv

\* So whatever the outsider does, the table stays well formed and says what was done.
LEMMA OutsiderStep ==
  ASSUME TableInv, AlteredInv, Outsider
  PROVE  TableInv' /\ AlteredInv'
BY EditStep, DeleteStep, HalfClearStep, RenumberStep DEF Outsider

------------------------------------------------------------------------------
\* What a verifier has read, and what its answer says.

\* The answers verify can give, its unfinished ones included.
Report ==
  [status : {NULL, "intact", "partial", "broken"}, anchored : BOOLEAN,
   reason : {NULL, "half", "modified", "renumbered", "fork", "lost"},
   tip : Hash \union {NULL}, total : Nat, unchained : Nat, verified : Nat]

\* verify answers once, at its end; before the walk it has read no rows.
Reading ==
  /\ vpc \in {"idle", "total", "unchained", "half", "walk", "diagnose", "done"}
  /\ limit \in Window \union {NULL}
  /\ report \in Report
  /\ vpc = "done" <=> report.status # NULL
  /\ report.status = "intact" => report.unchained = 0

\* A trail nobody altered is never diagnosed, and what was read of it is still there.
NothingToDiagnose ==
  altered.kind = "none" =>
    /\ report.status # "broken"
    /\ vpc # "diagnose"
    /\ \A i \in DOMAIN snapshot : snapshot[i] \in rows

\* The counts and the walk of an unaltered trail, one statement after the other.
CountsCover ==
  altered.kind = "none" =>
    /\ vpc = "unchained" => report.total <= Cardinality(rows)
    /\ vpc \in {"half", "walk"} => report.total <= report.unchained + Cardinality(Chained)
    /\ vpc = "done" /\ limit = NULL => report.total <= report.unchained + report.verified

\* What an alteration made before the first statement has done to each statement.
EarlyIsSeen ==
  altered.kind # "none" /\ altered.early =>
    /\ altered.kind = "half" => /\ vpc \notin {"walk", "diagnose"}
                                /\ vpc = "done" => report.status = "broken"
    /\ altered.kind = "clear" /\ vpc \in {"half", "walk", "diagnose", "done"} =>
         report.unchained # 0

\* A row that does not carry the hash of its content is vouched for by no walk, and
\* an edited row is such a row.
TouchedIsBroken ==
  /\ vpc = "done" /\ (\E i \in DOMAIN snapshot : ~Untouched(snapshot, i)) =>
       report.status = "broken"
  /\ altered.kind = "edit" =>
       \A i \in DOMAIN snapshot :
         snapshot[i].id = altered.row.id /\ snapshot[i].event # altered.row.event =>
           ~Untouched(snapshot, i)

\* While a break is diagnosed, a changed id has left the link that was expected.
DiagnosisFinds ==
  vpc = "diagnose" =>
    /\ limit = NULL
    /\ broke \in DOMAIN snapshot /\ broke \in Nat \ {0}
    /\ altered.kind = "renumber" => \E r \in rows : r.prev = Expected(snapshot, broke)

\* What holds of the verifier between any two of its statements.
VerifierInv ==
  /\ Reading
  /\ NothingToDiagnose
  /\ CountsCover
  /\ EarlyIsSeen
  /\ TouchedIsBroken
  /\ DiagnosisFinds
  /\ PassAttestsListing
  /\ AlterationIsReported
  /\ RenumberingIsNamed

\* The inductive invariant of verification: the table, what was done to it, the reader.
VIInv == TableInv /\ AlteredInv /\ VerifierInv

\* The order of the statements.
LEMMA AfterIs ==
  /\ After("idle") = "total"
  /\ After("total") = "unchained"
  /\ After("unchained") = "half"
  /\ After("half") = "walk"
<1>1. /\ Statements[1] = "idle" /\ Statements[2] = "total" /\ Statements[3] = "unchained"
      /\ Statements[4] = "half" /\ Statements[5] = "walk" /\ DOMAIN Statements = 1..5
  BY DEF Statements
<1>2. (CHOOSE i \in DOMAIN Statements : Statements[i] = "idle") = 1
  BY <1>1
<1>3. (CHOOSE i \in DOMAIN Statements : Statements[i] = "total") = 2
  BY <1>1
<1>4. (CHOOSE i \in DOMAIN Statements : Statements[i] = "unchained") = 3
  BY <1>1
<1>5. (CHOOSE i \in DOMAIN Statements : Statements[i] = "half") = 4
  BY <1>1
<1> QED
  BY <1>1, <1>2, <1>3, <1>4, <1>5 DEF After

\* An answer is a report, and changes neither of its counts.
LEMMA AnswerIs ==
  ASSUME report \in Report,
         NEW status \in {"intact", "partial", "broken"}, NEW anchored \in BOOLEAN,
         NEW reason \in {NULL, "half", "modified", "renumbered", "fork", "lost"},
         NEW verified \in Nat, NEW newest \in Hash \union {NULL},
         Answer(status, anchored, reason, verified, newest)
  PROVE  /\ report' \in Report /\ vpc' = "done"
         /\ report'.status = status /\ report'.anchored = anchored
         /\ report'.reason = reason /\ report'.verified = verified /\ report'.tip = newest
         /\ report'.total = report.total /\ report'.unchained = report.unchained
BY DEF Answer, Report

\* The committed rows are a table in the sense of the lemmas on listings.
LEMMA RowsAreTable ==
  ASSUME TableInv
  PROVE  /\ Table(rows)
         /\ ChainedIn(rows) = Chained
         /\ IsFiniteSet(Chained) /\ Cardinality(Chained) \in Nat
         /\ \A r \in Chained : r \in rows /\ r \in Row /\ r.hash \in Hash /\ r.hash # NULL
<1>1. Table(rows)
  BY DEF Table, TableInv, TypeOK, IdsFit, LengthsFit
<1> QED
  BY <1>1, ListingIsSorted DEF Table, Chained, ChainedIn, Row

\* The walk from GENESIS passes, stops at a row that was touched, or stops at a row
\* that does not link to the one before it.
LEMMA GenesisWalk ==
  ASSUME TableInv, report \in Report, WalkFromGenesis
  PROVE  LET n == Cardinality(Chained) IN
         /\ vpc = "walk" /\ limit = NULL /\ limit' = limit
         /\ n \in Nat
         /\ snapshot' = Listing(rows)
         /\ snapshot' \in [1..n -> Chained]
         /\ \A r \in Chained : \E i \in 1..n : snapshot'[i] = r
         /\ report' \in Report
         /\ report'.total = report.total /\ report'.unchained = report.unchained
         /\ \/ /\ \A i \in 1..n : Linked(snapshot', i) /\ Untouched(snapshot', i)
               /\ vpc' = "done"
               /\ report'.status = IF report.unchained = 0 THEN "intact" ELSE "partial"
               /\ report'.anchored = TRUE
               /\ report'.verified = n
               /\ report'.tip = TipOf(snapshot')
            \/ /\ \E i \in 1..n : ~Untouched(snapshot', i)
               /\ vpc' = "done"
               /\ report'.status = "broken"
            \/ /\ broke' \in 1..n
               /\ ~Linked(snapshot', broke')
               /\ \A i \in 1..n : i < broke' => Linked(snapshot', i) /\ Untouched(snapshot', i)
               /\ vpc' = "diagnose" /\ report' = report
<1> DEFINE n == Cardinality(Chained)
           l == Listing(rows)
           checks == [i \in DOMAIN l |-> Linked(l, i) /\ Untouched(l, i)]
           bad == FirstFailing(checks)
<1>1. /\ n \in Nat /\ l \in [1..n -> Chained]
      /\ \A r \in Chained : \E i \in 1..n : l[i] = r
  BY RowsAreTable, ListingIsSorted DEF Table
<1>2. /\ vpc = "walk" /\ limit = NULL /\ limit' = limit
      /\ snapshot' = l
  BY DEF WalkFromGenesis
<1>3. (CASE bad = 0 ->
             /\ Answer(IF report.unchained = 0 THEN "intact" ELSE "partial",
                       TRUE, NULL, Len(l), TipOf(l))
             /\ UNCHANGED broke
        [] bad # 0 /\ Linked(l, bad) ->
             /\ Answer("broken", TRUE, "modified", bad - 1, NULL)
             /\ UNCHANGED broke
        [] OTHER ->
             /\ broke' = bad
             /\ vpc' = "diagnose"
             /\ UNCHANGED report)
  BY <1>2 DEF WalkFromGenesis
<1> HIDE DEF n, l
<1>4. checks \in [1..n -> BOOLEAN] /\ DOMAIN l = 1..n /\ Len(l) = n
  BY <1>1
<1>5. /\ \A i \in 1..n : checks[i] = (Linked(l, i) /\ Untouched(l, i))
  BY <1>4
<1> HIDE DEF checks
<1>6. /\ bad \in 0..n
      /\ bad = 0 => \A i \in 1..n : checks[i]
      /\ bad # 0 => ~checks[bad] /\ \A i \in 1..n : i < bad => checks[i]
  BY <1>1, <1>4, FirstFailingIs
<1> HIDE DEF bad
<1>7. CASE bad = 0
  <2>1. \A i \in 1..n : Linked(l, i) /\ Untouched(l, i)
    BY <1>5, <1>6, <1>7
  <2>2. TipOf(l) \in Hash \union {NULL}
    <3>1. l # <<>> => n \in 1..n
      BY <1>1
    <3> QED
      BY <1>1, <1>4, <3>1, RowsAreTable DEF TipOf, Last
  <2>3. Answer(IF report.unchained = 0 THEN "intact" ELSE "partial", TRUE, NULL, n, TipOf(l))
    BY <1>3, <1>4, <1>7
  <2> HIDE DEF Answer
  <2>4. /\ report' \in Report /\ vpc' = "done"
        /\ report'.status = IF report.unchained = 0 THEN "intact" ELSE "partial"
        /\ report'.anchored = TRUE /\ report'.verified = n /\ report'.tip = TipOf(l)
        /\ report'.total = report.total /\ report'.unchained = report.unchained
    BY <1>1, <2>2, <2>3, AnswerIs
  <2> QED
    BY <1>1, <1>2, <2>1, <2>4 DEF n, l
<1>8. CASE bad # 0 /\ Linked(l, bad)
  <2>1. bad \in 1..n /\ ~Untouched(l, bad) /\ bad - 1 \in Nat
    <3>1. bad \in 1..n /\ bad - 1 \in Nat /\ ~checks[bad]
      BY <1>1, <1>6, <1>8
    <3>2. ~(Linked(l, bad) /\ Untouched(l, bad))
      BY <1>5, <3>1
    <3> QED
      BY <1>8, <3>1, <3>2
  <2>2. Answer("broken", TRUE, "modified", bad - 1, NULL)
    BY <1>3, <1>8
  <2>3. /\ report' \in Report /\ vpc' = "done" /\ report'.status = "broken"
        /\ report'.total = report.total /\ report'.unchained = report.unchained
    BY <2>1, <2>2, AnswerIs
  <2> QED
    BY <1>1, <1>2, <2>1, <2>3 DEF n, l
<1>9. CASE bad # 0 /\ ~Linked(l, bad)
  <2>1. bad \in 1..n /\ \A i \in 1..n : i < bad => Linked(l, i) /\ Untouched(l, i)
    BY <1>1, <1>5, <1>6, <1>9
  <2>2. broke' = bad /\ vpc' = "diagnose" /\ report' = report
    BY <1>3, <1>9
  <2> QED
    BY <1>1, <1>2, <1>9, <2>1, <2>2 DEF n, l
<1> QED
  BY <1>7, <1>8, <1>9

\* The walk of a window reads the newest rows, and passes or stops at a row that was
\* touched or does not link to the one read before it.
LEMMA WindowWalk ==
  ASSUME TableInv, report \in Report, limit \in Window \union {NULL}, WalkWindow
  PROVE  LET n == Cardinality(Chained) IN
         /\ vpc = "walk" /\ limit # NULL /\ limit' = limit /\ vpc' = "done"
         /\ \E a \in 1..(n + 1) :
              /\ DOMAIN snapshot' = 1..(n + 1 - a)
              /\ \A i \in 1..(n + 1 - a) : /\ snapshot'[i] = Listing(rows)[a + i - 1]
                                           /\ a + i - 1 \in 1..n
         /\ \A i \in DOMAIN snapshot' : snapshot'[i] \in Chained
         /\ report' \in Report /\ report'.anchored = FALSE
         /\ report'.total = report.total /\ report'.unchained = report.unchained
         /\ \/ /\ \A i \in DOMAIN snapshot' : Untouched(snapshot', i)
               /\ report'.status = "partial"
            \/ /\ \E i \in DOMAIN snapshot' :
                    ~Untouched(snapshot', i) \/ (i > 1 /\ ~Linked(snapshot', i))
               /\ report'.status = "broken"
<1> DEFINE n == Cardinality(Chained)
           l == Listing(rows)
           a == IF Len(l) > limit THEN Len(l) - limit + 1 ELSE 1
           w == Newest(l, limit)
           k == n + 1 - a
           checks == [i \in DOMAIN w |-> Untouched(w, i) /\ (i > 1 => Linked(w, i))]
           bad == FirstFailing(checks)
<1>1. n \in Nat /\ l \in [1..n -> Chained]
  BY RowsAreTable, ListingIsSorted DEF Table
<1>2. /\ vpc = "walk" /\ limit # NULL /\ limit' = limit /\ UNCHANGED broke
      /\ snapshot' = w
      /\ limit \in Nat \ {0}
  BY WindowAssumption DEF WalkWindow
<1>3. IF bad = 0
      THEN Answer("partial", FALSE, NULL, Len(w), TipOf(w))
      ELSE Answer("broken", FALSE,
                  IF Untouched(w, bad) THEN "lost" ELSE "modified", bad - 1, NULL)
  BY <1>2 DEF WalkWindow
<1> HIDE DEF n, l
<1>4. Len(l) = n /\ a \in 1..(n + 1) /\ k \in Nat
  <2>1. Len(l) = n
    BY <1>1
  <2> QED
    BY <1>1, <1>2, <2>1
<1>5. w = [i \in 1..k |-> l[a + i - 1]]
  <2>1. w = SubSeq(l, a, n)
    BY <1>4 DEF Newest
  <2> HIDE DEF a, w
  <2>2. l \in Seq(Chained)
    BY <1>1
  <2> QED
    BY <1>1, <1>4, <2>1, <2>2
<1> HIDE DEF a, w
<1>6. \A i \in 1..k : a + i - 1 \in 1..n /\ l[a + i - 1] \in Chained
  BY <1>1, <1>4
<1> HIDE DEF k
<1>7. DOMAIN w = 1..k /\ Len(w) = k /\ \A i \in 1..k : w[i] = l[a + i - 1] /\ w[i] \in Chained
  <2>1. w \in [1..k -> Chained]
    BY <1>5, <1>6
  <2>2. Len(w) = k
    BY <1>4, <2>1
  <2> QED
    BY <1>5, <1>6, <2>1, <2>2
<1>8. /\ checks \in [1..k -> BOOLEAN]
      /\ \A i \in 1..k : checks[i] = (Untouched(w, i) /\ (i > 1 => Linked(w, i)))
  BY <1>7
<1> HIDE DEF checks
<1>9. /\ bad \in 0..k
      /\ bad = 0 => \A i \in 1..k : checks[i]
      /\ bad # 0 => ~checks[bad]
  BY <1>4, <1>8, FirstFailingIs
<1> HIDE DEF bad
<1>10. /\ \E b \in 1..(n + 1) :
            /\ DOMAIN snapshot' = 1..(n + 1 - b)
            /\ \A i \in 1..(n + 1 - b) : snapshot'[i] = l[b + i - 1] /\ b + i - 1 \in 1..n
       /\ \A i \in DOMAIN snapshot' : snapshot'[i] \in Chained
  BY <1>2, <1>4, <1>6, <1>7 DEF k
<1>11. CASE bad = 0
  <2>1. TipOf(w) \in Hash \union {NULL}
    <3>1. w # <<>> => k \in 1..k
      BY <1>4, <1>7
    <3> QED
      BY <1>7, <3>1, RowsAreTable DEF TipOf, Last
  <2>2. Answer("partial", FALSE, NULL, k, TipOf(w))
    BY <1>3, <1>7, <1>11
  <2>3. /\ report' \in Report /\ vpc' = "done"
        /\ report'.status = "partial" /\ report'.anchored = FALSE
        /\ report'.total = report.total /\ report'.unchained = report.unchained
    BY <1>4, <2>1, <2>2, AnswerIs
  <2>4. \A i \in DOMAIN snapshot' : Untouched(snapshot', i)
    BY <1>2, <1>7, <1>8, <1>9, <1>11
  <2> QED
    BY <1>2, <1>10, <2>3, <2>4 DEF n, l
<1>12. CASE bad # 0
  <2>1. bad \in 1..k /\ bad - 1 \in Nat
    BY <1>4, <1>9, <1>12
  <2> DEFINE reason == IF Untouched(w, bad) THEN "lost" ELSE "modified"
  <2>2. Answer("broken", FALSE, reason, bad - 1, NULL)
    BY <1>3, <1>12
  <2>3. reason \in {NULL, "half", "modified", "renumbered", "fork", "lost"}
    OBVIOUS
  <2> HIDE DEF reason
  <2>4. /\ report' \in Report /\ vpc' = "done"
        /\ report'.status = "broken" /\ report'.anchored = FALSE
        /\ report'.total = report.total /\ report'.unchained = report.unchained
    BY <2>1, <2>2, <2>3, AnswerIs
  <2>5. \E i \in DOMAIN snapshot' : ~Untouched(snapshot', i) \/ (i > 1 /\ ~Linked(snapshot', i))
    BY <1>2, <1>7, <1>8, <1>9, <1>12, <2>1
  <2> QED
    BY <1>2, <1>10, <2>4, <2>5 DEF n, l
<1> QED
  BY <1>11, <1>12

------------------------------------------------------------------------------
\* The verifier's first steps.

\* Before any call and any statement of verify, all of it holds.
LEMMA VInitHolds == VInit => VIInv
<1> SUFFICES ASSUME VInit PROVE VIInv
  OBVIOUS
<1>1. IInv
  BY InitIInv DEF VInit
<1>2. altered.kind = "none" /\ rows = {} /\ seq = 0 /\ Chained = {} /\ ChainedIn(rows) = {}
      /\ \A c \in Call : pc[c] = "idle"
  BY DEF VInit, Init, Chained, ChainedIn
<1>3. TableInv
  <2>1. Cardinality(Drawn) \in Nat
    BY DrawnIsBounded DEF Drawn
  <2>2. IdsFit
    BY <1>2, <2>1 DEF IdsFit
  <2>3. LengthsFit
    BY <1>2, FS_EmptySet DEF LengthsFit
  <2>4. HalvesAgree /\ OneLine
    BY <1>2 DEF HalvesAgree, OneLine, OneLineIn, GrantIsExclusive
  <2> QED
    BY <1>1, <2>2, <2>3, <2>4 DEF TableInv, IInv
<1>4. AlteredInv
  BY <1>2 DEF AlteredInv
<1>5. /\ report \in Report /\ report.status = NULL /\ report.total = 0
      /\ vpc = "idle" /\ limit = NULL /\ snapshot = <<>>
  BY DEF VInit, Report
<1>6. VerifierInv
  BY <1>2, <1>5, StatusAssumption DEF VerifierInv, Reading, NothingToDiagnose, CountsCover, EarlyIsSeen,
     TouchedIsBroken, DiagnosisFinds, PassAttestsListing, AlterationIsReported,
     RenumberingIsNamed
<1> QED
  BY <1>3, <1>4, <1>5, <1>6 DEF VIInv

\* A statement of the verifier leaves the trail alone.
LEMMA TrailUnchanged ==
  ASSUME TableInv, AlteredInv, UNCHANGED <<vars, altered>>
  PROVE  TableInv' /\ AlteredInv' /\ Chained' = Chained /\ rows' = rows
<1> USE DEF TableInv
<1>1. UNCHANGED <<rows, seq, pc, attempt, tip, rowid, result, began, altered>>
  BY DEF vars
<1>2. Chained' = Chained
  BY <1>1 DEF Chained
<1>3. TypeOK'
  BY <1>1 DEF TypeOK
<1>4. IdsFit'
  <2>1. Drawn' = Drawn
    BY <1>1 DEF Drawn
  <2> QED
    BY <1>1, <2>1 DEF IdsFit
<1>5. LengthsFit'
  BY <1>1 DEF LengthsFit
<1>6. HalvesAgree => HalvesAgree'
  BY <1>1 DEF HalvesAgree
<1>7. OneLine => OneLine'
  BY <1>1, <1>2 DEF OneLine, GrantIsExclusive, LinkTaken, LinkContended
<1>8. IInv => IInv'
  BY <1>1, NextIInv DEF vars
<1>9. AlteredInv'
  BY <1>1, <1>2 DEF AlteredInv
<1> QED
  BY <1>1, <1>2, <1>3, <1>4, <1>5, <1>6, <1>7, <1>8, <1>9

\* The first statements, ...
LEMMA StartStep ==
  ASSUME TableInv, AlteredInv, VerifierInv, StartVerify, UNCHANGED <<vars, altered>>
  PROVE  VerifierInv'
<1>1. rows' = rows /\ Chained' = Chained /\ altered' = altered
  BY TrailUnchanged
<1>2. /\ vpc = "idle" /\ vpc' = "total" /\ limit' \in Window \union {NULL}
      /\ UNCHANGED <<report, snapshot, broke>>
  BY AfterIs DEF StartVerify
<1>3. report.status = NULL
  BY <1>2 DEF VerifierInv, Reading
<1> QED
  BY <1>1, <1>2, <1>3, StatusAssumption
  DEF VerifierInv, Reading, NothingToDiagnose, CountsCover, EarlyIsSeen,
      TouchedIsBroken, DiagnosisFinds, PassAttestsListing, AlterationIsReported,
      RenumberingIsNamed

\* ... the count of all rows, ...
LEMMA CountRowsStep ==
  ASSUME TableInv, AlteredInv, VerifierInv, CountRows, UNCHANGED <<vars, altered>>
  PROVE  VerifierInv'
<1>1. rows' = rows /\ Chained' = Chained /\ altered' = altered
  BY TrailUnchanged
<1>2. Cardinality(rows) \in Nat
  BY FS_CardinalityType DEF TableInv, LengthsFit
<1>3. /\ vpc = "total" /\ vpc' = "unchained"
      /\ report' = [report EXCEPT !.total = Cardinality(rows)]
      /\ UNCHANGED <<limit, snapshot, broke>>
  BY AfterIs DEF CountRows
<1>4. report.status = NULL /\ report \in Report
  BY <1>3 DEF VerifierInv, Reading
<1>5. /\ report' \in Report /\ report'.status = NULL
      /\ report'.total = Cardinality(rows)
  BY <1>2, <1>3, <1>4 DEF Report
<1> QED
  BY <1>1, <1>2, <1>3, <1>5, StatusAssumption
  DEF VerifierInv, Reading, NothingToDiagnose, CountsCover, EarlyIsSeen,
      TouchedIsBroken, DiagnosisFinds, PassAttestsListing, AlterationIsReported,
      RenumberingIsNamed

\* ... the count of the rows without a hash, ...
LEMMA CountUnchainedStep ==
  ASSUME TableInv, AlteredInv, VerifierInv, CountUnchained, UNCHANGED <<vars, altered>>
  PROVE  VerifierInv'
<1> DEFINE U == {r \in rows : r.hash = NULL}
<1>1. rows' = rows /\ Chained' = Chained /\ altered' = altered
  BY TrailUnchanged
<1>2. /\ Cardinality(U) \in Nat
      /\ Cardinality(rows) = Cardinality(U) + Cardinality(Chained)
      /\ Cardinality(Chained) \in Nat
      /\ Cardinality(U) = 0 => U = {}
  <2>1. IsFiniteSet(rows) /\ rows \cap Chained = Chained /\ rows \ Chained = U
    BY DEF TableInv, LengthsFit, Chained, ChainedIn
  <2>2. IsFiniteSet(U) /\ Cardinality(U) = Cardinality(rows) - Cardinality(Chained)
    BY <2>1, FS_Difference
  <2> HIDE DEF U
  <2> QED
    BY <2>1, <2>2, FS_CardinalityType, FS_EmptySet, RowsAreTable
<1>3. /\ vpc = "unchained" /\ vpc' = "half"
      /\ report' = [report EXCEPT !.unchained = Cardinality(U)]
      /\ UNCHANGED <<limit, snapshot, broke>>
  BY AfterIs DEF CountUnchained
<1>4. report.status = NULL /\ report \in Report
  BY <1>3 DEF VerifierInv, Reading
<1>5. altered.kind = "clear" => U # {}
  BY DEF AlteredInv
<1> HIDE DEF U
<1>6. /\ report' \in Report /\ report'.status = NULL
      /\ report'.total = report.total /\ report'.unchained = Cardinality(U)
      /\ report.total \in Nat
  BY <1>2, <1>3, <1>4 DEF Report
<1>7. altered.kind = "none" => report.total <= Cardinality(rows)
  BY <1>3 DEF VerifierInv, CountsCover
<1>8. CountsCover'
  BY <1>1, <1>2, <1>3, <1>6, <1>7 DEF CountsCover
<1>9. EarlyIsSeen'
  BY <1>1, <1>2, <1>3, <1>5, <1>6 DEF EarlyIsSeen
<1> QED
  BY <1>1, <1>3, <1>6, <1>8, <1>9, StatusAssumption
  DEF VerifierInv, Reading, NothingToDiagnose,
      TouchedIsBroken, DiagnosisFinds, PassAttestsListing, AlterationIsReported,
      RenumberingIsNamed

\* ... and the search for a row with half a link, which ends the verification.
LEMMA FindHalfLinkedStep ==
  ASSUME TableInv, AlteredInv, VerifierInv, FindHalfLinked, UNCHANGED <<vars, altered>>
  PROVE  VerifierInv'
<1>1. rows' = rows /\ Chained' = Chained /\ altered' = altered
  BY TrailUnchanged
<1>2. vpc = "half" /\ UNCHANGED <<limit, snapshot, broke>>
  BY DEF FindHalfLinked
<1>3. report.status = NULL /\ report \in Report
  BY <1>2 DEF VerifierInv, Reading
<1>4. CASE \E r \in rows : HalfLinked(r)
  <2>1. Answer("broken", FALSE, "half", 0, NULL)
    BY <1>4 DEF FindHalfLinked
  <2>2. /\ report' \in Report /\ vpc' = "done"
        /\ report'.status = "broken" /\ report'.anchored = FALSE
        /\ report'.unchained = report.unchained
    <3> DEFINE none == 0
    <3>1. none \in Nat /\ Answer("broken", FALSE, "half", none, NULL)
      BY <2>1
    <3> HIDE DEF none
    <3> QED
      BY <1>3, <3>1, AnswerIs
  <2>3. altered.kind = "half"
    BY <1>4 DEF TableInv, HalvesAgree, HalfLinked
  <2> QED
    BY <1>1, <1>2, <2>2, <2>3, StatusAssumption
    DEF VerifierInv, Reading, NothingToDiagnose, CountsCover, EarlyIsSeen,
        TouchedIsBroken, DiagnosisFinds, PassAttestsListing, AlterationIsReported,
        RenumberingIsNamed
<1>5. CASE ~\E r \in rows : HalfLinked(r)
  <2>1. vpc' = "walk" /\ report' = report
    BY <1>5, AfterIs DEF FindHalfLinked
  <2>2. altered.kind # "half"
    BY <1>5 DEF AlteredInv
  <2> QED
    BY <1>1, <1>2, <1>3, <2>1, <2>2, StatusAssumption
    DEF VerifierInv, Reading, NothingToDiagnose, CountsCover, EarlyIsSeen,
        TouchedIsBroken, DiagnosisFinds, PassAttestsListing, AlterationIsReported,
        RenumberingIsNamed
<1> QED
  BY <1>4, <1>5

\* A listing of an unaltered trail passes, row by row.
LEMMA UnalteredPasses ==
  ASSUME TableInv, altered.kind = "none"
  PROVE  \A i \in 1..Cardinality(Chained) :
           Linked(Listing(rows), i) /\ Untouched(Listing(rows), i)
<1>1. Unbroken(rows)
  BY DEF TableInv, IInv, WalkFindsNoBreak, Unbroken, Chained
<1>2. \A r \in ChainedIn(rows) : r.prev # NULL
  BY Unaltered DEF ChainedIn
<1> QED
  BY <1>1, <1>2, RowsAreTable, UnbrokenPasses

\* The diagnosis of a break.
LEMMA DiagnoseStep ==
  ASSUME TableInv, AlteredInv, VerifierInv, DiagnoseBreak, UNCHANGED <<vars, altered>>
  PROVE  VerifierInv'
<1>1. rows' = rows /\ Chained' = Chained /\ altered' = altered
  BY TrailUnchanged
<1>2. vpc = "diagnose" /\ UNCHANGED <<limit, snapshot, broke>> /\ altered.kind # "none"
  BY DEF DiagnoseBreak, VerifierInv, NothingToDiagnose
<1> DEFINE reason ==
      CASE ChainContinuesElsewhere(snapshot, broke) -> "renumbered"
        [] ~ChainContinuesElsewhere(snapshot, broke) /\ Forked(snapshot, broke) -> "fork"
        [] OTHER -> "lost"
<1>3. Answer("broken", TRUE, reason, broke - 1, NULL)
  BY DEF DiagnoseBreak
<1>4. reason \in {NULL, "half", "modified", "renumbered", "fork", "lost"}
  OBVIOUS
<1>5. altered.kind = "renumber" => reason = "renumbered"
  <2>1. altered.kind = "renumber" => ChainContinuesElsewhere(snapshot, broke)
    BY <1>2 DEF VerifierInv, DiagnosisFinds, ChainContinuesElsewhere
  <2> QED
    BY <2>1
<1>6. broke - 1 \in Nat
  BY <1>2 DEF VerifierInv, DiagnosisFinds
<1> HIDE DEF reason
<1>7. /\ report' \in Report /\ vpc' = "done"
      /\ report'.status = "broken" /\ report'.reason = reason
      /\ report'.unchained = report.unchained
  BY <1>3, <1>4, <1>6, AnswerIs DEF VerifierInv, Reading
<1> QED
  BY <1>1, <1>2, <1>5, <1>7, StatusAssumption
  DEF VerifierInv, Reading, NothingToDiagnose, CountsCover, EarlyIsSeen,
      TouchedIsBroken, DiagnosisFinds, PassAttestsListing, AlterationIsReported,
      RenumberingIsNamed

------------------------------------------------------------------------------
\* The walks, the other steps, and the theorems.

\* Untouched and Linked of an unaltered or renumbered trail.
LEMMA LineIsUntouched ==
  ASSUME TableInv, altered.kind \in {"none", "renumber"}, NEW r \in Chained
  PROVE  r.prev # NULL /\ r.hash = EventHash(r.event, r.prev)
BY NullAssumption, RowsAreTable DEF TableInv, OneLine, OneLineIn, Hash

\* An edited row is found wherever it is read.
LEMMA EditIsTouched ==
  ASSUME TableInv, AlteredInv, altered.kind = "edit", NEW s \in Chained,
         s.id = altered.row.id
  PROVE  s.hash # EventHash(s.event, s.prev)
BY RowsAreTable DEF AlteredInv, TableInv, IdsFit

\* The walk from GENESIS.
LEMMA GenesisStep ==
  ASSUME TableInv, AlteredInv, VerifierInv, WalkFromGenesis, UNCHANGED <<vars, altered>>
  PROVE  VerifierInv'
<1> DEFINE n == Cardinality(Chained)
           l == Listing(rows)
<1>1. rows' = rows /\ Chained' = Chained /\ altered' = altered
  BY TrailUnchanged
<1>2. report \in Report /\ limit \in Window \union {NULL}
  BY DEF VerifierInv, Reading
<1>3. /\ vpc = "walk" /\ limit = NULL /\ limit' = limit
      /\ n \in Nat
      /\ snapshot' = l /\ l \in [1..n -> Chained]
      /\ \A r \in Chained : \E i \in 1..n : l[i] = r
      /\ report' \in Report
      /\ report'.total = report.total /\ report'.unchained = report.unchained
      /\ \/ /\ \A i \in 1..n : Linked(l, i) /\ Untouched(l, i)
            /\ vpc' = "done"
            /\ report'.status = IF report.unchained = 0 THEN "intact" ELSE "partial"
            /\ report'.anchored = TRUE
            /\ report'.verified = n
            /\ report'.tip = TipOf(l)
         \/ /\ \E i \in 1..n : ~Untouched(l, i)
            /\ vpc' = "done"
            /\ report'.status = "broken"
         \/ /\ broke' \in 1..n
            /\ ~Linked(l, broke')
            /\ \A i \in 1..n : i < broke' => Linked(l, i) /\ Untouched(l, i)
            /\ vpc' = "diagnose" /\ report' = report
  BY <1>2, GenesisWalk
<1>4. altered.kind = "none" => \A i \in 1..n : Linked(l, i) /\ Untouched(l, i)
  BY UnalteredPasses
<1>5. altered.kind = "renumber" => \A i \in 1..n : Untouched(l, i)
  BY <1>3, LineIsUntouched DEF Untouched
<1>6. /\ report.status = NULL
      /\ altered.kind # "none" /\ altered.early => altered.kind # "half"
      /\ altered.kind = "clear" /\ altered.early => report.unchained # 0
      /\ altered.kind = "none" => report.total <= report.unchained + n
  BY <1>3 DEF VerifierInv, Reading, EarlyIsSeen, CountsCover
<1>7. l \in [1..n -> Row]
  BY <1>3, RowsAreTable
<1>8. \A i \in 1..n : l[i] \in rows
  BY <1>3, RowsAreTable
<1>9. ASSUME altered.kind = "edit", NEW i \in 1..n, l[i].id = altered.row.id
      PROVE  ~Untouched(l, i)
  BY <1>3, <1>9, EditIsTouched DEF Untouched
<1> DEFINE passes == \A i \in 1..n : Linked(l, i) /\ Untouched(l, i)
\* What a pass excludes.
<1>10. ASSUME passes, EarlyAndChained, altered.kind \in {"edit", "half"} PROVE FALSE
  <2>1. altered.kind = "edit"
    BY <1>6, <1>10 DEF EarlyAndChained
  <2>2. PICK e \in rows : e.id = altered.row.id /\ e.hash = altered.row.hash
    BY <2>1 DEF AlteredInv
  <2>3. e \in Chained
    BY <1>10, <2>2 DEF EarlyAndChained, Chained, ChainedIn
  <2>4. PICK i \in 1..n : l[i] = e
    BY <1>3, <2>3
  <2> QED
    BY <1>9, <1>10, <2>1, <2>2, <2>4
<1>11. ASSUME passes, EarlyAndChained, altered.kind \in {"delete", "clear"}, altered.interior
       PROVE  FALSE
  <2>1. /\ altered.row.hash # NULL /\ altered.row.event \in Call /\ altered.row.prev \in Hash
        /\ altered.row.hash = EventHash(altered.row.event, altered.row.prev)
        /\ \A r \in rows : r.hash # altered.row.hash
    BY <1>11 DEF AlteredInv, EarlyAndChained
  <2>2. altered.row.hash # GENESIS
    BY <2>1, HashIsNew
  <2>3. PICK s \in Chained : s.prev = altered.row.hash
    BY <1>11, <2>1 DEF AlteredInv
  <2>4. PICK i \in 1..n : l[i] = s
    BY <1>3, <2>3
  <2>5. Expected(l, i) = altered.row.hash
    BY <1>11, <2>3, <2>4 DEF Linked
  <2>6. i # 1 /\ l[i - 1].hash = altered.row.hash
    BY <2>2, <2>5 DEF Expected
  <2>7. i - 1 \in 1..n
    BY <1>3, <2>6
  <2> QED
    BY <1>8, <2>1, <2>6, <2>7
<1>12. ASSUME passes, altered.kind = "renumber", altered.moved PROVE FALSE
  BY <1>12, RowsAreTable, PassingIsInLineOrder DEF AlteredInv
<1>13. passes => TipOf(l) = IF l = <<>> THEN NULL ELSE EventsOf(l)
  BY <1>3, <1>7, PassingAttests
<1>14. CASE /\ passes
            /\ vpc' = "done"
            /\ report'.status = IF report.unchained = 0 THEN "intact" ELSE "partial"
            /\ report'.verified = n
            /\ report'.tip = TipOf(l)
  <2>1. report'.status \in {"intact", "partial"}
    BY <1>14
  <2>2. AlterationIsReported'
    <3>1. EarlyAndChained' = EarlyAndChained
      BY <1>1 DEF EarlyAndChained
    <3>2. EarlyAndChained => /\ altered.kind \notin {"edit", "half"}
                             /\ altered.kind \in {"delete", "clear"} => ~altered.interior
      BY <1>10, <1>11, <1>14
    <3>3. altered.kind = "renumber" => ~altered.moved
      BY <1>12, <1>14
    <3>4. EarlyAndChained /\ altered.kind = "clear" => report'.status # "intact"
      BY <1>6, <1>14 DEF EarlyAndChained
    <3> QED
      BY <1>1, <3>1, <3>2, <3>3, <3>4 DEF AlterationIsReported
  <2>3. PassAttestsListing'
    BY <1>3, <1>13, <1>14 DEF PassAttestsListing
  <2>4. Reading' /\ RenumberingIsNamed'
    BY <1>2, <1>3, <1>14, <2>1, StatusAssumption DEF Reading, RenumberingIsNamed
  <2>5. NothingToDiagnose'
    BY <1>1, <1>3, <1>8, <1>14, <2>1 DEF NothingToDiagnose
  <2>6. CountsCover'
    BY <1>1, <1>3, <1>6, <1>14 DEF CountsCover
  <2>7. EarlyIsSeen'
    BY <1>1, <1>3, <1>6, <1>14 DEF EarlyIsSeen
  <2>8. TouchedIsBroken'
    BY <1>1, <1>3, <1>9, <1>14 DEF TouchedIsBroken
  <2>9. DiagnosisFinds'
    BY <1>14 DEF DiagnosisFinds
  <2> QED
    BY <2>2, <2>3, <2>4, <2>5, <2>6, <2>7, <2>8, <2>9 DEF VerifierInv
<1>15. CASE (\E i \in 1..n : ~Untouched(l, i)) /\ vpc' = "done" /\ report'.status = "broken"
  <2>1. altered.kind \notin {"none", "renumber"}
    BY <1>4, <1>5, <1>15
  <2>2. Reading' /\ RenumberingIsNamed' /\ PassAttestsListing' /\ NothingToDiagnose'
    BY <1>1, <1>2, <1>3, <1>15, <2>1, StatusAssumption
    DEF Reading, RenumberingIsNamed, PassAttestsListing, NothingToDiagnose
  <2>3. CountsCover' /\ DiagnosisFinds' /\ AlterationIsReported'
    BY <1>1, <1>15, <2>1 DEF CountsCover, DiagnosisFinds, AlterationIsReported
  <2>4. EarlyIsSeen'
    BY <1>1, <1>3, <1>6, <1>15 DEF EarlyIsSeen
  <2>5. TouchedIsBroken'
    BY <1>1, <1>3, <1>9, <1>15 DEF TouchedIsBroken
  <2> QED
    BY <2>2, <2>3, <2>4, <2>5 DEF VerifierInv
<1>16. CASE /\ broke' \in 1..n
            /\ ~Linked(l, broke')
            /\ \A i \in 1..n : i < broke' => Linked(l, i) /\ Untouched(l, i)
            /\ vpc' = "diagnose" /\ report' = report
  <2>1. altered.kind # "none"
    BY <1>4, <1>16
  <2>2. Reading' /\ RenumberingIsNamed' /\ PassAttestsListing' /\ NothingToDiagnose'
    BY <1>1, <1>2, <1>3, <1>6, <1>16, <2>1, StatusAssumption
    DEF Reading, RenumberingIsNamed, PassAttestsListing, NothingToDiagnose
  <2>3. CountsCover' /\ AlterationIsReported'
    BY <1>1, <1>16, <2>1 DEF CountsCover, AlterationIsReported
  <2>4. EarlyIsSeen'
    BY <1>1, <1>3, <1>6, <1>16 DEF EarlyIsSeen
  <2>5. TouchedIsBroken'
    BY <1>1, <1>3, <1>9, <1>16 DEF TouchedIsBroken
  <2>6. DiagnosisFinds'
    <3>1. ASSUME altered.kind = "renumber" PROVE \E r \in rows : r.prev = Expected(l, broke')
      <4> DEFINE bad == broke'
      <4>1. OneLineIn(rows)
        BY <3>1 DEF TableInv, OneLine
      <4>2. bad \in 1..n /\ \A i \in 1..n : i < bad => Linked(l, i) /\ Untouched(l, i)
        BY <1>16
      <4> HIDE DEF bad
      <4>3. \E r \in Chained : r.prev = Expected(l, bad)
        BY <4>1, <4>2, RowsAreTable, LineContinues
      <4> QED
        BY <4>3, RowsAreTable DEF bad
    <3>2. broke' \in DOMAIN snapshot' /\ broke' \in Nat \ {0}
      BY <1>3, <1>16
    <3> QED
      BY <1>1, <1>3, <3>1, <3>2 DEF DiagnosisFinds
  <2> QED
    BY <2>2, <2>3, <2>4, <2>5, <2>6 DEF VerifierInv
<1> QED
  BY <1>3, <1>14, <1>15, <1>16

\* The walk of a window.
LEMMA WindowStep ==
  ASSUME TableInv, AlteredInv, VerifierInv, WalkWindow, UNCHANGED <<vars, altered>>
  PROVE  VerifierInv'
<1> DEFINE n == Cardinality(Chained)
           l == Listing(rows)
<1>1. rows' = rows /\ Chained' = Chained /\ altered' = altered
  BY TrailUnchanged
<1>2. report \in Report /\ limit \in Window \union {NULL}
  BY DEF VerifierInv, Reading
<1>3. /\ vpc = "walk" /\ limit # NULL /\ limit' = limit /\ vpc' = "done"
      /\ \E a \in 1..(n + 1) :
           /\ DOMAIN snapshot' = 1..(n + 1 - a)
           /\ \A i \in 1..(n + 1 - a) : snapshot'[i] = l[a + i - 1] /\ a + i - 1 \in 1..n
      /\ \A i \in DOMAIN snapshot' : snapshot'[i] \in Chained
      /\ report' \in Report /\ report'.anchored = FALSE
      /\ report'.total = report.total /\ report'.unchained = report.unchained
      /\ \/ /\ \A i \in DOMAIN snapshot' : Untouched(snapshot', i)
            /\ report'.status = "partial"
         \/ /\ \E i \in DOMAIN snapshot' :
                 ~Untouched(snapshot', i) \/ (i > 1 /\ ~Linked(snapshot', i))
            /\ report'.status = "broken"
  BY <1>2, WindowWalk
<1>4. ASSUME altered.kind = "none", NEW i \in DOMAIN snapshot'
      PROVE  Untouched(snapshot', i) /\ (i > 1 => Linked(snapshot', i))
  <2>1. PICK a \in 1..(n + 1) :
          /\ DOMAIN snapshot' = 1..(n + 1 - a)
          /\ \A j \in 1..(n + 1 - a) : snapshot'[j] = l[a + j - 1] /\ a + j - 1 \in 1..n
    BY <1>3
  <2> DEFINE k == a + i - 1
  <2>2. k \in 1..n /\ snapshot'[i] = l[k]
    BY <2>1
  <2>3. Linked(l, k) /\ Untouched(l, k)
    BY <1>4, <2>2, UnalteredPasses
  <2>4. n \in Nat
    BY RowsAreTable
  <2>5. i > 1 => i - 1 \in 1..(n + 1 - a) /\ a + (i - 1) - 1 = k - 1 /\ k # 1
    BY <2>1, <2>4
  <2>6. i > 1 => snapshot'[i-1] = l[k - 1] /\ k # 1 /\ i # 1
    BY <2>1, <2>5
  <2> HIDE DEF k
  <2> QED
    BY <2>2, <2>3, <2>6 DEF Linked, Untouched, Expected
<1>5. report'.status = "broken" => altered.kind # "none"
  BY <1>3, <1>4
<1>6. ASSUME altered.kind = "edit", NEW i \in DOMAIN snapshot', snapshot'[i].id = altered.row.id
      PROVE  ~Untouched(snapshot', i)
  BY <1>3, <1>6, EditIsTouched DEF Untouched
<1>7. limit' # NULL /\ report'.status \in {"partial", "broken"}
  BY <1>3
<1>8. Reading' /\ RenumberingIsNamed' /\ PassAttestsListing' /\ AlterationIsReported'
      /\ CountsCover' /\ DiagnosisFinds'
  BY <1>2, <1>3, <1>7, StatusAssumption
  DEF Reading, RenumberingIsNamed, PassAttestsListing, AlterationIsReported, CountsCover,
      DiagnosisFinds
<1>9. NothingToDiagnose'
  BY <1>1, <1>3, <1>5, RowsAreTable DEF NothingToDiagnose
<1>10. EarlyIsSeen'
  <2>1. /\ altered.kind # "none" /\ altered.early => altered.kind # "half"
        /\ altered.kind = "clear" /\ altered.early => report.unchained # 0
    BY <1>3 DEF VerifierInv, EarlyIsSeen
  <2> QED
    BY <1>1, <1>3, <2>1 DEF EarlyIsSeen
<1>11. TouchedIsBroken'
  BY <1>1, <1>3, <1>6, <1>7 DEF TouchedIsBroken
<1> QED
  BY <1>8, <1>9, <1>10, <1>11 DEF VerifierInv

\* A step of a writer is no news to the verifier ...
LEMMA WriterStep ==
  ASSUME TableInv, AlteredInv, VerifierInv, Next, UNCHANGED <<verifier, altered>>
  PROVE  VerifierInv'
<1>1. /\ vpc' = vpc /\ limit' = limit /\ report' = report /\ snapshot' = snapshot
      /\ broke' = broke /\ altered' = altered
  BY DEF verifier
<1>2. rows \subseteq rows' /\ Chained \subseteq Chained'
  BY NextWrites DEF Chained, ChainedIn
<1>3. TableInv'
  BY <1>1, NextTable
<1>4. /\ IsFiniteSet(rows) /\ IsFiniteSet(rows') /\ IsFiniteSet(Chained) /\ IsFiniteSet(Chained')
      /\ Chained' \subseteq rows'
  <2>1. IsFiniteSet(rows) /\ IsFiniteSet(rows')
    BY <1>3 DEF TableInv, LengthsFit
  <2>2. Chained \in SUBSET rows /\ Chained' \in SUBSET rows'
    BY DEF Chained, ChainedIn
  <2> QED
    BY <2>1, <2>2, FS_Subset
<1>5. /\ Cardinality(rows) <= Cardinality(rows') /\ Cardinality(Chained) <= Cardinality(Chained')
      /\ Cardinality(rows) \in Nat /\ Cardinality(rows') \in Nat
      /\ Cardinality(Chained) \in Nat /\ Cardinality(Chained') \in Nat
  BY <1>2, <1>4, FS_Subset, FS_CardinalityType
<1>6. report.total \in Nat /\ report.unchained \in Nat
  BY DEF VerifierInv, Reading, Report
<1>7. CountsCover'
  BY <1>1, <1>5, <1>6 DEF VerifierInv, CountsCover
<1>8. NothingToDiagnose'
  BY <1>1, <1>2 DEF VerifierInv, NothingToDiagnose
<1>9. DiagnosisFinds'
  BY <1>1, <1>2 DEF VerifierInv, DiagnosisFinds
<1> QED
  BY <1>1, <1>7, <1>8, <1>9
  DEF VerifierInv, Reading, EarlyIsSeen, TouchedIsBroken, PassAttestsListing,
      AlterationIsReported, RenumberingIsNamed, EarlyAndChained

\* ... and an alteration comes before its first statement or too late for it.
LEMMA OutsiderIsUnread ==
  ASSUME TableInv, AlteredInv, VerifierInv, Outsider, UNCHANGED verifier
  PROVE  VerifierInv'
<1>1. /\ vpc' = vpc /\ limit' = limit /\ report' = report /\ snapshot' = snapshot
      /\ broke' = broke
  BY DEF verifier
<1>2. PICK r \in rows :
        /\ altered.kind = "none"
        /\ altered'.kind \in {"edit", "delete", "renumber", "clear", "half"}
        /\ altered'.row = r
        /\ altered'.early = (vpc = "idle")
  BY DEF Outsider, EditRow, DeleteRow, RenumberRow, ClearRow, HalfClearRow, Alter
<1>3. /\ report.status # "broken" /\ vpc # "diagnose"
      /\ \A i \in DOMAIN snapshot : snapshot[i] \in rows
  BY <1>2 DEF VerifierInv, NothingToDiagnose
<1>4. \A i \in DOMAIN snapshot : snapshot[i].id = r.id => snapshot[i].event = r.event
  BY <1>3 DEF TableInv, IdsFit
<1>5. TouchedIsBroken'
  BY <1>1, <1>2, <1>4 DEF VerifierInv, TouchedIsBroken
<1>6. EarlyIsSeen' /\ AlterationIsReported'
  BY <1>1, <1>2 DEF EarlyIsSeen, AlterationIsReported, EarlyAndChained
<1>7. CountsCover' /\ NothingToDiagnose' /\ DiagnosisFinds' /\ RenumberingIsNamed'
  BY <1>1, <1>2, <1>3 DEF CountsCover, NothingToDiagnose, DiagnosisFinds, RenumberingIsNamed
<1> QED
  BY <1>1, <1>5, <1>6, <1>7 DEF VerifierInv, Reading, PassAttestsListing

\* Writers, the outsider and every statement of verify keep it.
LEMMA VNextHolds == VIInv /\ [VNext]_allvars => VIInv'
<1> SUFFICES ASSUME VIInv, [VNext]_allvars PROVE VIInv'
  OBVIOUS
<1> USE DEF VIInv
<1>1. CASE Next /\ UNCHANGED <<verifier, altered>>
  <2>1. altered' = altered
    BY <1>1
  <2> QED
    BY <1>1, <2>1, NextTable, NextAltered, WriterStep
<1>2. CASE VerifyStep /\ UNCHANGED <<vars, altered>>
  <2>1. TableInv' /\ AlteredInv'
    BY <1>2, TrailUnchanged
  <2>2. VerifierInv'
    BY <1>2, StartStep, CountRowsStep, CountUnchainedStep, FindHalfLinkedStep,
       GenesisStep, WindowStep, DiagnoseStep DEF VerifyStep
  <2> QED
    BY <2>1, <2>2
<1>3. CASE Outsider /\ UNCHANGED verifier
  BY <1>3, OutsiderStep, OutsiderIsUnread
<1>4. CASE UNCHANGED allvars
  <2>1. UNCHANGED <<vars, altered>> /\ UNCHANGED verifier
    BY <1>4 DEF allvars
  <2>2. TableInv' /\ AlteredInv' /\ Chained' = Chained /\ rows' = rows
    BY <2>1, TrailUnchanged
  <2>3. /\ vpc' = vpc /\ limit' = limit /\ report' = report /\ snapshot' = snapshot
        /\ broke' = broke /\ altered' = altered
    BY <2>1 DEF verifier
  <2>4. VerifierInv'
    BY <2>2, <2>3
    DEF VerifierInv, Reading, NothingToDiagnose, CountsCover, EarlyIsSeen,
        TouchedIsBroken, DiagnosisFinds, PassAttestsListing, AlterationIsReported,
        RenumberingIsNamed, EarlyAndChained
  <2> QED
    BY <2>2, <2>4
<1> QED
  BY <1>1, <1>2, <1>3, <1>4 DEF VNext

\* The inductive invariant holds in every state: whatever the writers, one outsider
\* and a verify running between them do, in any order.
THEOREM VerificationInvariant == VSpec => []VIInv
BY VInitHolds, VNextHolds, PTL DEF VSpec

\* integrity.verify never answers "broken" about a trail nobody altered, though
\* calls commit between its statements.
THEOREM VerifyNeverCriesWolf == VSpec => []NoFalseAlarm
<1>1. VIInv => NoFalseAlarm
  BY DEF VIInv, VerifierInv, NothingToDiagnose, NoFalseAlarm
<1> QED
  BY <1>1, VerificationInvariant, PTL

\* Of such a trail the three numbers of a full verification, taken by three
\* statements, account for every row its first one counted.
THEOREM EveryRowIsAccountedFor == VSpec => []ReportAccountsForEveryRow
<1>1. VIInv => ReportAccountsForEveryRow
  BY DEF VIInv, VerifierInv, CountsCover, ReportAccountsForEveryRow
<1> QED
  BY <1>1, VerificationInvariant, PTL

\* A walk from GENESIS that passes attests the events of the listing it read, in
\* their order: the tip it reports commits to exactly them.
THEOREM PassMeansTheListing == VSpec => []PassAttestsListing
<1>1. VIInv => PassAttestsListing
  BY DEF VIInv, VerifierInv
<1> QED
  BY <1>1, VerificationInvariant, PTL

\* An alteration of a chained record made before verify began is reported, except the
\* two AlterationIsReported excepts.
THEOREM TamperingIsReported == VSpec => []AlterationIsReported
<1>1. VIInv => AlterationIsReported
  BY DEF VIInv, VerifierInv
<1> QED
  BY <1>1, VerificationInvariant, PTL

\* No verification, full or windowed, vouches for a record it read with another event
\* in it, whenever that was changed.
THEOREM EditsAreNotVouchedFor == VSpec => []EditedRecordIsNotVouchedFor
<1>1. VIInv => EditedRecordIsNotVouchedFor
  BY DEF VIInv, VerifierInv, TouchedIsBroken, EditedRecordIsNotVouchedFor
<1> QED
  BY <1>1, VerificationInvariant, PTL

\* A full verification of a trail where an id alone was changed never reports the
\* break as a lost record or a fork.
THEOREM RenumberingKeepsItsName == VSpec => []RenumberingIsNamed
<1>1. VIInv => RenumberingIsNamed
  BY DEF VIInv, VerifierInv
<1> QED
  BY <1>1, VerificationInvariant, PTL

\* Short of half a link cleared, no alteration of one row takes the place of the next
\* record: the tip chain_tip gives is no row's predecessor.
THEOREM TrailCanAlwaysGrow == VSpec => []TrailStaysOpen
<1>1. VIInv => TrailStaysOpen
  <2> SUFFICES ASSUME TableInv, altered.kind # "half", NEW r \in rows, r.prev = ChainTip(rows)
               PROVE  FALSE
    BY DEF VIInv, TrailStaysOpen
  <2>1. TypeOK /\ IdsFit /\ HalvesAgree
    BY DEF TableInv
  <2>2. r.prev # NULL /\ r.prev \in Hash
    BY <2>1, ChainTipIs
  <2>3. Tips(rows) = {} /\ r \in Chained
    BY <2>1, <2>2, ChainTipIs DEF Tips, HalvesAgree, Chained, ChainedIn
  \* A row with the longest hash is a tip.
  <2> DEFINE S == {Len(s.hash) : s \in Chained}
  <2>4. \A s \in Chained : Len(s.hash) \in Nat /\ Len(s.hash) <= seq /\ s \in rows
    BY DEF TableInv, TypeOK, Row, LengthsFit, Chained, ChainedIn, Hash
  <2>5. PICK m \in S : \A k \in S : k <= m
    <3>1. S \subseteq Nat /\ S # {} /\ seq \in Nat /\ \A k \in S : k <= seq
      BY <2>1, <2>3, <2>4 DEF TypeOK
    <3> HIDE DEF S
    <3> QED
      BY <3>1, LargestOf
  <2>6. PICK t \in Chained : \A s \in Chained : Len(s.hash) <= Len(t.hash)
    BY <2>5
  <2>7. PICK s \in rows : s.prev = t.hash
    BY <2>3, <2>6 DEF Tips, Chained
  <2>8. t.hash # NULL
    BY <2>6 DEF Chained, ChainedIn
  <2>9. s \in Chained /\ Len(s.hash) = Len(t.hash) + 1
    BY <2>1, <2>7, <2>8 DEF HalvesAgree, Chained, ChainedIn
  <2> QED
    BY <2>4, <2>6, <2>9
<1> QED
  BY <1>1, VerificationInvariant, PTL

==============================================================================
