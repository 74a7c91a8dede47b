--------------------------- MODULE ConsoleProofs ----------------------------
(***************************************************************************)
(* Proofs about Console, for any replicas, threads and operators, and any  *)
(* number of operations, crashes and restarts.  Beside the two properties  *)
(* of the answers, the invariant has five parts:                           *)
(*                                                                         *)
(*   ConsoleTypes        the records and functions are what they look like;*)
(*   KeysAgree           all who have a key have the one in the file;      *)
(*   HandsAreFull        what a thread holds at each place of its code;    *)
(*   OneContentPerStamp  a version of the row is one content;              *)
(*   FilesHeld           whose the files of an open bundle are.            *)
(***************************************************************************)
EXTENDS Console, TLAPS

Keys == Nat \union {NULL}
KeyPlaces == {"idle", "persist", "write", "keep", "ready", "failed"}
Rows == [id : Nat, stamp : Nat, content : Nat, key : Keys, origin : {"manual", "autodiscovered"},
         impersonate : BOOLEAN]
Identities == {NULL, TheConsole} \union {q.idp_username : q \in Principals}
Bundles == [id : Nat, stamp : Nat, content : Nat, home : Replica, impersonatable : BOOLEAN,
            by : Identities, after : Nat \union {NULL},
            state : {"open", "closed"} \union Leftover]

\* Where a thread has a row, and where it has a bundle to look after.
WithRow == {"lookup", "build", "store", "call", "drop", "transient", "try", "reachable",
            "unreachable", "delete", "invalidate"}
Building == {"build", "store", "call", "try"}
Places == WithRow \union {"idle", "load", "row", "encrypt"}

KeyTypes ==
  /\ home \in [Thread -> Replica]
  /\ volume \in {"ok", "readonly", "unreadable"}
  /\ file \in Keys /\ made \in Nat /\ raced \in BOOLEAN
  /\ memo \in [Replica -> Keys]
  /\ keyPc \in [Caller -> KeyPlaces]
  /\ fresh \in [Caller -> Keys] /\ key \in [Caller -> Keys]

ThreadTypes ==
  /\ row \in Rows \union {NULL} /\ stamp \in Nat
  /\ bundles \in Seq(Bundles)
  /\ cache \in [Replica -> SUBSET Nat]
  /\ op \in [Thread -> Operations \union {NULL}]
  /\ who \in [Thread -> Principals \union {NULL}]
  /\ pc \in [Thread -> Places]
  /\ saw \in [Thread -> Rows \union {NULL}]
  /\ acts \in [Thread -> Identities]
  /\ holds \in [Thread -> Nat \union {NULL}]

ConsoleTypes == KeyTypes /\ ThreadTypes

\* Unless two callers generate at once there is one key: nobody generates over a whole
\* file, and whoever has resolved one, kept it, or encrypted the row with it has the file's.
KeysAgree ==
  /\ \A a \in Caller : Generating(a) => fresh[a] \notin {NULL, 0}
  /\ \A a \in Caller : keyPc[a] = "write" => volume = "ok"
  /\ ~raced =>
       /\ \A a, b \in Caller : Generating(a) /\ Generating(b) => a = b
       /\ \A a \in Caller : Generating(a) => ~Whole
       /\ volume = "ok" \/ Whole =>
            /\ \A p \in Replica : memo[p] # NULL => Whole /\ memo[p] = file
            /\ \A a \in Caller : keyPc[a] = "keep" => Whole /\ fresh[a] = file
            /\ \A a \in Caller : keyPc[a] = "ready" => Whole /\ key[a] = file
            /\ row # NULL => Whole /\ row.key = file

\* What a thread has at each place: the identity is that of the request at hand, and the
\* bundle one of the version of the row it has read.
Hand(t) ==
  /\ pc[t] \in WithRow \/ (pc[t] = "encrypt" /\ op[t] = "update") => saw[t] \in Rows \ {NULL}
  /\ pc[t] = "row" => op[t] \in {"test", "update", "delete"}
  /\ pc[t] \in {"lookup", "build", "store", "call"} => acts[t] = Identity(who[t], saw[t])
  /\ pc[t] \in {"store", "call", "try"} => holds[t] \in DOMAIN bundles
  /\ pc[t] \in {"store", "call"} =>
       /\ bundles[holds[t]].impersonatable /\ bundles[holds[t]].home = home[t]
       /\ bundles[holds[t]].stamp = saw[t].stamp
       /\ bundles[holds[t]].content = saw[t].content
  /\ pc[t] = "build" /\ holds[t] # NULL => holds[t] \in DOMAIN bundles
  /\ pc[t] \notin Building => holds[t] = NULL

\* A transport that may be shared can carry any identity.
CachedMayBeShared ==
  \A p \in Replica : \A i \in cache[p] :
    i \in DOMAIN bundles /\ bundles[i].impersonatable /\ bundles[i].home = p

HandsAreFull == (\A t \in Thread : Hand(t)) /\ CachedMayBeShared

\* What was read of the row, by whom and whenever.
Versions ==
  (({row} \union {saw[t] : t \in Thread}) \ {NULL}) \union {bundles[i] : i \in DOMAIN bundles}

OneContentPerStamp ==
  /\ \A x \in Versions : x.stamp <= stamp
  /\ \A x, y \in Versions : x.stamp = y.stamp => x.content = y.content

\* A thread that is about to let go of a bundle leaves it closed, or in the cache.
LetsGo(t) ==
  /\ pc[t] = "call" /\ bundles[holds[t]].state = "open" => holds[t] \in cache[home[t]]
  /\ pc[t] = "build" /\ holds[t] # NULL => bundles[holds[t]].state # "open"
  /\ pc[t] = "store" /\ bundles[holds[t]].after # NULL =>
       /\ bundles[holds[t]].after \in DOMAIN bundles
       /\ bundles[bundles[holds[t]].after].state # "open"

\* An open bundle is in the cache of its process, or in the hands of one of its threads.
OpenFilesAreHeld ==
  \A i \in DOMAIN bundles :
    bundles[i].state = "open" =>
      i \in cache[bundles[i].home] \/ \E t \in Mine(bundles[i].home) : holds[t] = i

FilesHeld == OpenFilesAreHeld /\ \A t \in Thread : LetsGo(t)

ConsoleIInv ==
  /\ ConsoleTypes /\ KeysAgree /\ HandsAreFull /\ OneContentPerStamp /\ FilesHeld
  /\ ActsAsTheOperator /\ AnswersDescribeTheRow

-----------------------------------------------------------------------------
(* The key. *)

LEMMA ProcessesAreReplicas ==
  ASSUME home \in [Thread -> Replica]
  PROVE  \A a \in Caller : Process(a) \in Replica
BY DEF Caller, Process

LEMMA ResolvingKeepsKeyTypes ==
  ASSUME KeyTypes, NEW a \in Caller, KeyStep(a)
  PROVE  KeyTypes'
<1>1. Process(a) \in Replica
  BY ProcessesAreReplicas DEF KeyTypes
<1>2. CASE UseMemo(a) \/ LoadKey(a) \/ CannotRead(a)
  BY <1>1, <1>2 DEF UseMemo, LoadKey, CannotRead, KeyTypes, Keys, KeyPlaces
<1>3. CASE GenerateKey(a)
  BY <1>3 DEF GenerateKey, KeyTypes, Keys, KeyPlaces
<1>4. CASE TruncateFile(a) \/ WriteKey(a) \/ CannotPersist(a)
  BY <1>4 DEF TruncateFile, WriteKey, CannotPersist, KeyTypes, Keys, KeyPlaces
<1>5. CASE KeepKey(a)
  BY <1>1, <1>5 DEF KeepKey, KeyTypes, Keys, KeyPlaces
<1> QED
  BY <1>2, <1>3, <1>4, <1>5 DEF KeyStep

\* A caller on its way to a key keeps the one key there is.
LEMMA ResolvingKeepsTheKey ==
  ASSUME KeyTypes, KeysAgree, NEW a \in Caller, KeyStep(a), row' = row
  PROVE  KeysAgree'
<1>1. Process(a) \in Replica /\ \A b \in Caller : Process(b) \in Replica
  BY ProcessesAreReplicas DEF KeyTypes
<1>2. CASE UseMemo(a)
  <2>1. \A b \in Caller : Generating(b)' => Generating(b)
    BY <1>2 DEF UseMemo, KeyTypes, Generating
  <2> QED
    BY <1>1, <1>2, <2>1 DEF UseMemo, KeyTypes, KeysAgree, Whole, Generating
<1>3. CASE LoadKey(a)
  BY <1>1, <1>3 DEF LoadKey, KeyTypes, KeysAgree, Whole, Generating
<1>4. CASE CannotRead(a)
  BY <1>4 DEF CannotRead, KeyTypes, KeysAgree, Whole, Generating
<1>5. CASE GenerateKey(a)
  <2>1. made' \in Nat \ {0} /\ made' # NULL
    BY <1>5, NullAssumption DEF GenerateKey, KeyTypes
  <2>2. ~Whole /\ ~Whole'
    BY <1>5 DEF GenerateKey, NoKeyYet, Whole
  <2> QED
    BY <1>5, <2>1, <2>2 DEF GenerateKey, KeyTypes, KeysAgree, Generating, Whole
<1>6. CASE TruncateFile(a)
  <2>1. ~Whole'
    BY <1>6 DEF TruncateFile, Whole
  <2> QED
    BY <1>6, <2>1 DEF TruncateFile, KeyTypes, KeysAgree, Generating
<1>7. CASE WriteKey(a)
  <2>1. volume = "ok" /\ Generating(a) /\ Whole'
    BY <1>7 DEF WriteKey, KeysAgree, Generating, Whole
  <2> QED
    BY <1>7, <2>1 DEF WriteKey, KeyTypes, KeysAgree, Generating
<1>8. CASE CannotPersist(a)
  BY <1>8 DEF CannotPersist, KeyTypes, KeysAgree, Generating, Whole
<1>9. CASE KeepKey(a)
  BY <1>1, <1>9 DEF KeepKey, KeyTypes, KeysAgree, Generating, Whole
<1> QED
  BY <1>2, <1>3, <1>4, <1>5, <1>6, <1>7, <1>8, <1>9 DEF KeyStep

\* Whoever is done with a key may have encrypted the row with it.
LEMMA BeingDoneKeepsTheKey ==
  ASSUME KeyTypes, KeysAgree, NEW a \in Caller, KeyDone(a),
         row' = row \/ (keyPc[a] = "ready" /\ row'.key = key[a])
  PROVE  KeyTypes' /\ KeysAgree'
<1>1. KeyTypes'
  BY DEF KeyDone, KeyTypes, Keys, KeyPlaces
<1>2. KeysAgree'
  BY DEF KeyDone, KeyTypes, KeysAgree, Generating, Whole
<1> QED
  BY <1>1, <1>2

LEMMA RowsKeepTheKey ==
  ASSUME KeyTypes, KeysAgree, UNCHANGED keys,
         row' \in {row, NULL} \/ (row # NULL /\ row'.key = row.key)
  PROVE  KeyTypes' /\ KeysAgree'
<1>1. KeyTypes'
  BY DEF keys, KeyTypes
<1>2. KeysAgree'
  BY DEF keys, KeysAgree, Generating, Whole
<1> QED
  BY <1>1, <1>2

LEMMA DyingKeepsTheKey ==
  ASSUME KeyTypes, KeysAgree, NEW p \in Replica, KeysLost(p), row' = row
  PROVE  KeyTypes' /\ KeysAgree'
<1>1. KeyTypes'
  BY DEF KeysLost, KeyTypes, Keys, KeyPlaces
<1>2. KeysAgree'
  BY DEF KeysLost, KeyTypes, KeysAgree, Generating, Whole
<1> QED
  BY <1>1, <1>2

\* What any step does to the keys and to the row's.
LEMMA NextKeepsTheKey ==
  ASSUME KeyTypes, ThreadTypes, KeysAgree, [Next]_vars
  PROVE  KeyTypes' /\ KeysAgree'
<1>1. Replica \subseteq Caller /\ Thread \subseteq Caller
  BY DEF Caller
<1>2. ASSUME NEW a \in Caller, KeyStep(a), row' = row PROVE KeyTypes' /\ KeysAgree'
  BY <1>2, ResolvingKeepsKeyTypes, ResolvingKeepsTheKey
<1>3. ASSUME NEW p \in Replica, StartupStep(p) PROVE KeyTypes' /\ KeysAgree'
  <2>1. CASE \/ Start(p) \/ AskTables(p) \/ CreateTables(p) \/ InspectColumn(p) \/ AddColumn(p)
             \/ CommitUpgrade(p) \/ CheckSchema(p) \/ CountAccounts(p) \/ CreateAdministrator(p)
    <3>1. UNCHANGED keys /\ row' = row
      BY <2>1 DEF Start, AskTables, CreateTables, InspectColumn, AddColumn, CommitUpgrade,
                  CheckSchema, CountAccounts, CreateAdministrator, registry
    <3> QED
      BY <3>1, RowsKeepTheKey
  <2>2. CASE AdoptEncrypts(p)
    BY <1>1, <1>2, <2>2 DEF AdoptEncrypts, registry
  <2>3. CASE AdoptNothing(p)
    <3>1. row' = row /\ (UNCHANGED keys \/ KeyDone(p))
      BY <2>3 DEF AdoptNothing, registry
    <3> QED
      BY <1>1, <3>1, BeingDoneKeepsTheKey, RowsKeepTheKey
  <2>4. CASE Adopt(p)
    <3>1. KeyDone(p) /\ keyPc[p] = "ready" /\ (row' = row \/ row'.key = key[p])
      BY <2>4 DEF Adopt, Row
    <3> QED
      BY <1>1, <3>1, BeingDoneKeepsTheKey
  <2> QED
    BY <1>3, <2>1, <2>2, <2>3, <2>4 DEF StartupStep
<1>4. ASSUME NEW t \in Thread, ThreadStep(t) PROVE KeyTypes' /\ KeysAgree'
  <2>1. CASE \/ LoadRow(t) \/ LoadRefused(t) \/ LookupHit(t) \/ LookupMiss(t) \/ Store(t)
             \/ Call(t) \/ LoadForChange(t) \/ Invalidate(t) \/ Drop(t) \/ Try(t)
    <3>1. UNCHANGED keys /\ row' = row
      BY <2>1 DEF LoadRow, LoadRefused, LookupHit, LookupMiss, Store, Call, LoadForChange,
                  Invalidate, Drop, Try, registry
    <3> QED
      BY <3>1, RowsKeepTheKey
  <2>2. CASE NeedsKey(t)
    BY <1>1, <1>2, <2>2 DEF NeedsKey, registry
  <2>3. CASE \/ BuildClients(t) \/ BuildTransient(t) \/ BuildFails(t) \/ BuildSpills(t)
             \/ TransientFails(t) \/ TransientSpills(t)
             \/ EncryptFails(t)
    <3>1. KeyDone(t) /\ row' = row
      BY <2>3 DEF BuildClients, BuildTransient, Build, BuildFails, BuildSpills, SpillFails,
                  TransientFails, TransientSpills, EncryptFails,
                  registry
    <3> QED
      BY <1>1, <3>1, BeingDoneKeepsTheKey
  <2>4. CASE Register(t)
    <3>1. KeyDone(t) /\ (row' = row \/ (keyPc[t] = "ready" /\ row'.key = key[t]))
      BY <2>4 DEF Register, Row, registry
    <3> QED
      BY <1>1, <3>1, BeingDoneKeepsTheKey
  <2>5. CASE Update(t)
    <3>1. CASE keyPc[t] = "ready"
      <4>1. KeyDone(t) /\ (row' = row \/ row'.key = key[t])
        BY <2>5, <3>1 DEF Update, Row, registry
      <4> QED
        BY <1>1, <3>1, <4>1, BeingDoneKeepsTheKey
    <3>2. CASE keyPc[t] # "ready"
      <4>1. UNCHANGED keys /\ (row' = row \/ (row # NULL /\ row'.key = row.key))
        BY <2>5, <3>2 DEF Update, StillThere, Row, registry
      <4> QED
        BY <4>1, RowsKeepTheKey
    <3> QED
      BY <3>1, <3>2
  <2>6. CASE Delete(t)
    <3>1. UNCHANGED keys /\ row' \in {row, NULL}
      BY <2>6 DEF Delete
    <3> QED
      BY <3>1, RowsKeepTheKey
  <2>7. CASE WriteResult(t)
    <3>1. UNCHANGED keys /\ (row' = row \/ (row # NULL /\ row' = [row EXCEPT !.stamp = stamp + 1]))
      BY <2>7 DEF WriteResult, StillThere
    <3>2. row # NULL => row \in Rows
      BY DEF ThreadTypes
    <3>3. row' = row \/ (row # NULL /\ row'.key = row.key)
      BY <3>1, <3>2 DEF Rows
    <3> QED
      BY <3>1, <3>3, RowsKeepTheKey
  <2> QED
    BY <1>4, <2>1, <2>2, <2>3, <2>4, <2>5, <2>6, <2>7 DEF ThreadStep, GetClients
<1>5. ASSUME NEW p \in Replica, Crash(p) \/ Stop(p) PROVE KeyTypes' /\ KeysAgree'
  <2>1. KeysLost(p) /\ row' = row
    BY <1>5 DEF Crash, Stop, Gone, registry
  <2> QED
    BY <2>1, DyingKeepsTheKey
<1>6. CASE \/ UNCHANGED vars
           \/ \E t \in Thread : Begin(t)
  <2>1. UNCHANGED keys /\ row' = row
    BY <1>6 DEF vars, Begin, registry
  <2> QED
    BY <2>1, RowsKeepTheKey
<1> QED
  BY <1>3, <1>4, <1>5, <1>6 DEF Next, Boots

-----------------------------------------------------------------------------
(* The bundles: they are added to, and their state changes; an open one was open. *)

Kept(i) ==
  /\ bundles'[i].id = bundles[i].id /\ bundles'[i].stamp = bundles[i].stamp
  /\ bundles'[i].content = bundles[i].content /\ bundles'[i].home = bundles[i].home
  /\ bundles'[i].impersonatable = bundles[i].impersonatable
  /\ bundles'[i].after = bundles[i].after
  /\ bundles'[i].state = "open" => bundles[i].state = "open"

Restated ==
  /\ bundles' \in Seq(Bundles)
  /\ DOMAIN bundles' = DOMAIN bundles
  /\ \A i \in DOMAIN bundles : Kept(i)

LEMMA NothingRestated ==
  ASSUME bundles \in Seq(Bundles), bundles' = bundles
  PROVE  Restated
BY DEF Restated, Kept

LEMMA OneRestated ==
  ASSUME bundles \in Seq(Bundles), NEW i,
         NEW state \in {"closed", "overwritten", bundles[i].state},
         bundles' = [bundles EXCEPT ![i].state = state]
  PROVE  Restated
<1>1. DOMAIN bundles = 1..Len(bundles) /\ Len(bundles) \in Nat
  BY DEF Bundles
<1>2. /\ DOMAIN bundles' = DOMAIN bundles
      /\ \A j \in DOMAIN bundles :
           bundles'[j] = IF j = i THEN [bundles[j] EXCEPT !.state = state] ELSE bundles[j]
  OBVIOUS
<1>3. \A j \in DOMAIN bundles : bundles[j] \in Bundles
  OBVIOUS
<1>4. ASSUME NEW j \in DOMAIN bundles PROVE bundles'[j] \in Bundles /\ Kept(j)
  <2>1. bundles[j] \in Bundles
    BY <1>3
  <2>2. CASE j = i
    <3>1. bundles'[j] = [bundles[j] EXCEPT !.state = state]
      BY <1>2, <2>2
    <3>2. state \in {"closed", "overwritten", bundles[j].state}
      BY <2>2
    <3> QED
      BY <2>1, <3>1, <3>2 DEF Bundles, Leftover, Kept
  <2>3. CASE j # i
    BY <1>2, <2>1, <2>3 DEF Kept
  <2> QED
    BY <2>2, <2>3
<1>5. bundles' \in Seq(Bundles)
  <2>1. bundles' \in [1..Len(bundles) -> Bundles]
    BY <1>1, <1>2, <1>4
  <2> QED
    BY <1>1, <2>1
<1> QED
  BY <1>2, <1>4, <1>5 DEF Restated

LEMMA SomeRestated ==
  ASSUME bundles \in Seq(Bundles), NEW S, NEW state \in {"closed", "abandoned"},
         bundles' = [j \in DOMAIN bundles |->
                       IF j \in S THEN [bundles[j] EXCEPT !.state = state] ELSE bundles[j]]
  PROVE  Restated
<1>1. DOMAIN bundles = 1..Len(bundles) /\ Len(bundles) \in Nat
  OBVIOUS
<1>2. ASSUME NEW j \in DOMAIN bundles PROVE bundles'[j] \in Bundles /\ Kept(j)
  <2>1. bundles[j] \in Bundles
    OBVIOUS
  <2>2. bundles'[j] = IF j \in S THEN [bundles[j] EXCEPT !.state = state] ELSE bundles[j]
    OBVIOUS
  <2> QED
    BY <2>1, <2>2 DEF Bundles, Leftover, Kept
<1>3. DOMAIN bundles' = DOMAIN bundles
  OBVIOUS
<1>4. bundles' \in Seq(Bundles)
  <2>1. bundles' \in [1..Len(bundles) -> Bundles]
    BY <1>1, <1>2
  <2> QED
    BY <1>1, <2>1
<1> QED
  BY <1>2, <1>3, <1>4 DEF Restated

\* A new bundle is for the row its thread has read.
Added(t) ==
  LET b == Bundle(saw[t], home[t], pc[t] = "build", acts[t], holds[t])
  IN bundles' = Append(bundles, b) /\ holds'[t] = Len(bundles) + 1

LEMMA OneAdded ==
  ASSUME ConsoleTypes, NEW t \in Thread, saw[t] \in Rows, Added(t)
  PROVE  /\ bundles' \in Seq(Bundles)
         /\ DOMAIN bundles' = DOMAIN bundles \union {holds'[t]} /\ holds'[t] \notin DOMAIN bundles
         /\ holds'[t] \in Nat
         /\ \A i \in DOMAIN bundles : bundles'[i] = bundles[i]
         /\ bundles'[holds'[t]] = Bundle(saw[t], home[t], pc[t] = "build", acts[t], holds[t])
<1> DEFINE b == Bundle(saw[t], home[t], pc[t] = "build", acts[t], holds[t])
<1>1. b \in Bundles
  BY DEF ConsoleTypes, KeyTypes, ThreadTypes, Bundle, Bundles, Rows
<1>2. bundles' = Append(bundles, b) /\ holds'[t] = Len(bundles) + 1
  BY DEF Added
<1>3. bundles \in Seq(Bundles)
  BY DEF ConsoleTypes, ThreadTypes
<1> HIDE DEF b
<1>4. /\ bundles' \in Seq(Bundles) /\ Len(bundles) \in Nat
      /\ DOMAIN bundles' = 1..(Len(bundles) + 1) /\ DOMAIN bundles = 1..Len(bundles)
      /\ \A i \in DOMAIN bundles : bundles'[i] = bundles[i]
      /\ bundles'[Len(bundles) + 1] = b
  BY <1>1, <1>2, <1>3
<1>5. DOMAIN bundles' = DOMAIN bundles \union {Len(bundles) + 1}
  BY <1>4
<1> QED
  BY <1>2, <1>4, <1>5 DEF b

\* What a failing build leaves behind is nobody's.
Spilt(t) == bundles' = Append(bundles, HalfBuilt(t))

LEMMA OneSpilt ==
  ASSUME ConsoleTypes, NEW t \in Thread, saw[t] \in Rows, Spilt(t)
  PROVE  /\ bundles' \in Seq(Bundles)
         /\ DOMAIN bundles \subseteq DOMAIN bundles'
         /\ \A i \in DOMAIN bundles : bundles'[i] = bundles[i]
         /\ \A i \in DOMAIN bundles' \ DOMAIN bundles :
              /\ bundles'[i].state = "unfinished"
              /\ bundles'[i].stamp = saw[t].stamp /\ bundles'[i].content = saw[t].content
<1> DEFINE b == HalfBuilt(t)
<1>1. /\ b \in Bundles /\ b.state = "unfinished"
      /\ b.stamp = saw[t].stamp /\ b.content = saw[t].content
  BY DEF ConsoleTypes, KeyTypes, HalfBuilt, Bundle, Bundles, Rows, Leftover, Identities
<1>2. bundles' = Append(bundles, b)
  BY DEF Spilt
<1>3. bundles \in Seq(Bundles)
  BY DEF ConsoleTypes, ThreadTypes
<1> HIDE DEF b
<1>4. /\ bundles' \in Seq(Bundles) /\ Len(bundles) \in Nat
      /\ DOMAIN bundles' = 1..(Len(bundles) + 1) /\ DOMAIN bundles = 1..Len(bundles)
      /\ \A i \in DOMAIN bundles : bundles'[i] = bundles[i]
      /\ bundles'[Len(bundles) + 1] = b
  BY <1>1, <1>2, <1>3
<1>5. \A i \in DOMAIN bundles' \ DOMAIN bundles : bundles'[i] = b
  BY <1>4
<1>6. DOMAIN bundles \subseteq DOMAIN bundles'
  BY <1>4
<1> QED
  BY <1>1, <1>4, <1>5, <1>6

LEMMA CachedIsCached ==
  ASSUME NEW t \in Thread, Cached(t) # NULL
  PROVE  Cached(t) \in cache[home[t]] /\ bundles[Cached(t)].id = saw[t].id
BY DEF Cached

-----------------------------------------------------------------------------
(* What a step of a thread leaves alone, and the types of what it changes. *)

Untouched(u) ==
  /\ op'[u] = op[u] /\ who'[u] = who[u] /\ pc'[u] = pc[u] /\ saw'[u] = saw[u]
  /\ acts'[u] = acts[u] /\ holds'[u] = holds[u]

LocalTypes ==
  /\ op \in [Thread -> Operations \union {NULL}]
  /\ who \in [Thread -> Principals \union {NULL}]
  /\ pc \in [Thread -> Places]
  /\ saw \in [Thread -> Rows \union {NULL}]
  /\ acts \in [Thread -> Identities]
  /\ holds \in [Thread -> Nat \union {NULL}]

LEMMA CachedIsANumber ==
  ASSUME ConsoleTypes, NEW t \in Thread
  PROVE  Cached(t) \in Nat \union {NULL}
<1>1. cache[home[t]] \subseteq Nat
  BY DEF ConsoleTypes, KeyTypes, ThreadTypes
<1> QED
  BY <1>1, CachedIsCached

LEMMA LocalsKeepTypes ==
  ASSUME ConsoleTypes, HandsAreFull, NEW t \in Thread, Begin(t) \/ ThreadStep(t)
  PROVE  LocalTypes' /\ \A u \in Thread \ {t} : Untouched(u)
<1>1. LocalTypes
  BY DEF ConsoleTypes, ThreadTypes, LocalTypes
<1>2. Cached(t) \in Nat \union {NULL}
  BY CachedIsANumber
<1>3. pc[t] = "row" => op[t] \in {"test", "update", "delete"}
  BY DEF HandsAreFull, Hand
<1>4. row # NULL => row \in Rows
  BY DEF ConsoleTypes, ThreadTypes
<1>5. Len(bundles) + 1 \in Nat
  BY DEF ConsoleTypes, ThreadTypes
<1> USE DEF LocalTypes, Untouched, Goes, Places, WithRow
<1>6. CASE Begin(t)
  <2>1. PICK o \in Operation :
          /\ op' = [op EXCEPT ![t] = o]
          /\ pc' = [pc EXCEPT ![t] = CASE o = "request" -> "load"
                                       [] o = "register" -> "encrypt"
                                       [] OTHER -> "row"]
    BY <1>6 DEF Begin
  <2>2. o \in Operations
    BY <2>1, OperationAssumption
  <2> QED
    BY <1>1, <1>6, <2>1, <2>2 DEF Begin, Operations
<1>7. CASE LoadRow(t)
  <2>1. PICK principal \in Principals :
          /\ who' = [who EXCEPT ![t] = principal]
          /\ acts' = [acts EXCEPT ![t] = Identity(principal, row)]
    BY <1>7 DEF LoadRow
  <2>2. Identity(principal, row) \in Identities
    BY DEF Identity, Identities
  <2> QED
    BY <1>1, <1>4, <1>7, <2>1, <2>2 DEF LoadRow
<1>8. CASE LoadRefused(t) \/ BuildFails(t) \/ BuildSpills(t) \/ Call(t) \/ EncryptFails(t)
                          \/ Register(t) \/ Invalidate(t)
  <2>1. \E what : Answered(t, what)
    BY <1>8 DEF LoadRefused, BuildFails, BuildSpills, SpillFails, Call, EncryptFails, Register,
                Invalidate
  <2> QED
    BY <1>1, <2>1 DEF Answered, Identities
<1>9. CASE LookupHit(t) \/ LookupMiss(t)
  BY <1>1, <1>2, <1>9 DEF LookupHit, LookupMiss
<1>10. CASE NeedsKey(t)
  BY <1>1, <1>10 DEF NeedsKey, thread
<1>11. CASE BuildClients(t) \/ BuildTransient(t)
  BY <1>1, <1>5, <1>11 DEF BuildClients, BuildTransient, Build
<1>12. CASE Store(t) \/ Delete(t) \/ Drop(t) \/ TransientFails(t) \/ TransientSpills(t)
  BY <1>1, <1>12 DEF Store, Delete, Drop, TransientFails, TransientSpills, SpillFails
<1>13. CASE Try(t)
  BY <1>1, <1>13 DEF Try
<1>14. CASE LoadForChange(t)
  <2>1. CASE row # NULL
    BY <1>1, <1>3, <1>4, <1>14, <2>1 DEF LoadForChange
  <2>2. CASE row = NULL
    BY <1>1, <1>14, <2>2 DEF LoadForChange, Answered, Identities
  <2> QED
    BY <2>1, <2>2
<1>15. CASE Update(t)
  <2>1. CASE StillThere(t)
    BY <1>1, <1>15, <2>1 DEF Update
  <2>2. CASE ~StillThere(t)
    BY <1>1, <1>15, <2>2 DEF Update, Answered, Identities
  <2> QED
    BY <2>1, <2>2
<1>16. CASE WriteResult(t)
  <2>1. CASE pc[t] = "reachable"
    BY <1>1, <1>16, <2>1 DEF WriteResult
  <2>2. CASE pc[t] # "reachable"
    BY <1>1, <1>16, <2>2 DEF WriteResult, Answered, Identities
  <2> QED
    BY <2>1, <2>2
<1> QED
  BY <1>6, <1>7, <1>8, <1>9, <1>10, <1>11, <1>12, <1>13, <1>14, <1>15, <1>16
     DEF ThreadStep, GetClients

-----------------------------------------------------------------------------
(* The row: it stays, goes, or comes with a stamp nobody has read. *)

Renewed ==
  /\ stamp' \in Nat
  /\ \/ row' \in {row, NULL} /\ stamp' = stamp
     \/ row' \in Rows /\ stamp' = stamp + 1 /\ row'.stamp = stamp + 1

LEMMA NextRenewsTheRow ==
  ASSUME ConsoleTypes, [Next]_vars
  PROVE  Renewed
<1>1. stamp \in Nat /\ row \in Rows \union {NULL} /\ \A a \in Caller : key[a] \in Keys
  BY DEF ConsoleTypes, KeyTypes, ThreadTypes
<1>2. Replica \subseteq Caller /\ Thread \subseteq Caller
  BY DEF Caller
<1>3. CASE registry' = registry
  BY <1>1, <1>3 DEF registry, Renewed
<1>4. ASSUME NEW p \in Replica, Adopt(p) PROVE Renewed
  <2>1. key[p] \in Keys
    BY <1>1, <1>2
  <2> QED
    BY <1>1, <1>4, <2>1 DEF Adopt, Row, Rows, Renewed
<1>5. ASSUME NEW t \in Thread, Register(t) PROVE Renewed
  <2>1. key[t] \in Keys
    BY <1>1, <1>2
  <2> QED
    BY <1>1, <1>5, <2>1 DEF Register, Row, Rows, Renewed, registry
<1>6. ASSUME NEW t \in Thread, Update(t) PROVE Renewed
  <2>1. CASE StillThere(t)
    <3>1. PICK impersonate \in BOOLEAN :
            row' = [Row(stamp + 1, IF keyPc[t] = "ready" THEN key[t] ELSE row.key,
                        row.origin, impersonate) EXCEPT !.id = row.id]
      BY <1>6, <2>1 DEF Update
    <3>2. row \in Rows /\ key[t] \in Keys
      BY <1>1, <1>2, <2>1 DEF StillThere
    <3>3. row' \in Rows /\ row'.stamp = stamp + 1
      BY <1>1, <3>1, <3>2 DEF Row, Rows
    <3> QED
      BY <1>1, <1>6, <2>1, <3>3 DEF Update, Renewed
  <2>2. CASE ~StillThere(t)
    BY <1>1, <1>6, <2>2 DEF Update, registry, Renewed
  <2> QED
    BY <2>1, <2>2
<1>7. ASSUME NEW t \in Thread, Delete(t) PROVE Renewed
  BY <1>1, <1>7 DEF Delete, Renewed
<1>8. ASSUME NEW t \in Thread, WriteResult(t) PROVE Renewed
  <2>1. CASE StillThere(t)
    BY <1>1, <1>8, <2>1 DEF WriteResult, StillThere, Rows, Renewed
  <2>2. CASE ~StillThere(t)
    BY <1>1, <1>8, <2>2 DEF WriteResult, Renewed
  <2> QED
    BY <2>1, <2>2
<1>9. ASSUME NEW p \in Replica, StartupStep(p), ~Adopt(p) PROVE registry' = registry
  BY <1>9 DEF StartupStep, Start, AskTables, CreateTables, InspectColumn, AddColumn, CommitUpgrade,
              CheckSchema, CountAccounts, CreateAdministrator, AdoptEncrypts, AdoptNothing, registry
<1>10. ASSUME NEW t \in Thread, ThreadStep(t),
              ~(Register(t) \/ Update(t) \/ Delete(t) \/ WriteResult(t))
       PROVE  registry' = registry
  BY <1>10 DEF ThreadStep, GetClients, LoadRow, LoadRefused, LookupHit, LookupMiss, NeedsKey,
               BuildClients, Build, BuildFails, BuildSpills, SpillFails, Store, Call,
               LoadForChange, EncryptFails, Invalidate,
               Drop, BuildTransient, TransientFails, TransientSpills, SpillFails, Try, registry
<1>11. ASSUME NEW p \in Replica, Crash(p) \/ Stop(p) PROVE registry' = registry
  BY <1>11 DEF Crash, Stop, Gone, registry
<1>12. CASE \/ UNCHANGED vars
            \/ \E t \in Thread : Begin(t)
  BY <1>12, <1>3 DEF vars, Begin, registry
<1> QED
  BY <1>3, <1>4, <1>5, <1>6, <1>7, <1>8, <1>9, <1>10, <1>11, <1>12 DEF Next, Boots

-----------------------------------------------------------------------------
(* What a step of a thread does to the bundles and to the cache. *)

\* A bundle that leaves the cache is not open any more.
NoneLost == \A p \in Replica : \A i \in cache[p] \ cache'[p] : bundles'[i].state # "open"

\* What enters it is what the thread holds.
Entered(t) == \A p \in Replica : \A i \in cache'[p] \ cache[p] :
                pc[t] = "store" /\ i = holds[t] /\ p = home[t]

LEMMA BundlesMove ==
  ASSUME ConsoleTypes, HandsAreFull, FilesHeld, NEW t \in Thread, Begin(t) \/ ThreadStep(t)
  PROVE  /\ \/ Restated
            \/ saw[t] \in Rows /\ pc[t] \in {"build", "transient"} /\ Added(t)
            \/ saw[t] \in Rows /\ pc[t] \in {"build", "transient"} /\ Spilt(t)
         /\ cache' \in [Replica -> SUBSET Nat]
         /\ NoneLost /\ Entered(t)
<1>1. /\ bundles \in Seq(Bundles) /\ cache \in [Replica -> SUBSET Nat] /\ home[t] \in Replica
      /\ DOMAIN bundles \subseteq Nat
  BY DEF ConsoleTypes, KeyTypes, ThreadTypes
<1>2. pc[t] \in WithRow => saw[t] \in Rows
  BY DEF HandsAreFull, Hand
<1>3. ASSUME cache' = cache
      PROVE  cache' \in [Replica -> SUBSET Nat] /\ NoneLost /\ Entered(t)
  BY <1>1, <1>3 DEF NoneLost, Entered
<1>4. CASE UNCHANGED clients
  BY <1>1, <1>3, <1>4, NothingRestated DEF clients
<1>5. CASE LookupMiss(t)
  <2>1. bundles' = bundles \/ bundles' = [bundles EXCEPT ![Cached(t)].state = "closed"]
    BY <1>5 DEF LookupMiss, ClosedIfAny, Closed
  <2>2. Restated
    BY <1>1, <2>1, NothingRestated, OneRestated
  <2> QED
    BY <1>3, <1>5, <2>2 DEF LookupMiss
<1>6. CASE BuildClients(t)
  BY <1>2, <1>3, <1>6 DEF BuildClients, Build, Added, WithRow, ConsoleTypes, ThreadTypes
<1>7. CASE BuildTransient(t)
  BY <1>2, <1>3, <1>7 DEF BuildTransient, Build, Added, WithRow, ConsoleTypes, ThreadTypes
<1>12. CASE BuildSpills(t) \/ TransientSpills(t)
  <2>1. pc[t] \in {"build", "transient"} /\ SpillFails(t) /\ cache' = cache
    BY <1>12 DEF BuildSpills, TransientSpills
  <2>2. CASE bundles' = bundles
    BY <1>1, <1>3, <2>1, <2>2, NothingRestated
  <2>3. CASE Spilt(t)
    BY <1>2, <1>3, <2>1, <2>3 DEF WithRow, ConsoleTypes, ThreadTypes
  <2> QED
    BY <2>1, <2>2, <2>3 DEF SpillFails, Spilt
<1>8. CASE Try(t)
  <2>1. bundles' = [bundles EXCEPT ![holds[t]].state = "closed"]
    BY <1>8 DEF Try, Closed
  <2>2. Restated
    BY <1>1, <2>1, OneRestated
  <2> QED
    BY <1>3, <1>8, <2>2 DEF Try
<1>9. CASE Store(t)
  <2> DEFINE other == Cached(t)
  <2>1. /\ pc[t] = "store"
        /\ cache' = [cache EXCEPT ![home[t]] = (@ \ {other}) \union {holds[t]}]
        /\ bundles' = IF other \notin {NULL, bundles[holds[t]].after}
                      THEN [bundles EXCEPT ![other].state = IF @ = "open" THEN "overwritten" ELSE @]
                      ELSE bundles
    BY <1>9 DEF Store
  <2>2. holds[t] \in DOMAIN bundles
    BY <2>1 DEF HandsAreFull, Hand
  <2> HIDE DEF other
  <2>3. Restated
    <3>1. CASE bundles' = bundles
      BY <1>1, <3>1, NothingRestated
    <3>2. CASE bundles' = [bundles EXCEPT ![other].state = IF @ = "open" THEN "overwritten" ELSE @]
      <4> DEFINE state == IF bundles[other].state = "open" THEN "overwritten"
                                                           ELSE bundles[other].state
      <4>1. bundles' = [bundles EXCEPT ![other].state = state]
        BY <3>2
      <4>2. state \in {"closed", "overwritten", bundles[other].state}
        OBVIOUS
      <4> HIDE DEF state
      <4> QED
        BY <1>1, <4>1, <4>2, OneRestated
    <3> QED
      BY <2>1, <3>1, <3>2
  <2>4. cache' \in [Replica -> SUBSET Nat]
    BY <1>1, <2>1, <2>2
  <2>5. Entered(t)
    BY <1>1, <2>1 DEF Entered
  <2>6. NoneLost
    <3> SUFFICES ASSUME NEW p \in Replica, NEW i \in cache[p] \ cache'[p]
                 PROVE  bundles'[i].state # "open"
      BY DEF NoneLost
    <3>1. p = home[t] /\ i = other
      BY <1>1, <2>1
    <3>2. i \in DOMAIN bundles /\ bundles[i] \in Bundles
      BY <1>1 DEF HandsAreFull, CachedMayBeShared
    <3>3. i # NULL
      BY <1>1, NullAssumption
    <3>4. CASE other # bundles[holds[t]].after
      <4>1. bundles' = [bundles EXCEPT ![i].state = IF @ = "open" THEN "overwritten" ELSE @]
        BY <2>1, <3>1, <3>3, <3>4
      <4>2. bundles'[i] = [bundles[i] EXCEPT !.state = IF @ = "open" THEN "overwritten" ELSE @]
        BY <3>2, <4>1
      <4> QED
        BY <3>2, <4>2 DEF Bundles
    <3>5. CASE other = bundles[holds[t]].after
      BY <2>1, <3>1, <3>3, <3>5 DEF FilesHeld, LetsGo
    <3> QED
      BY <3>4, <3>5
  <2> QED
    BY <2>3, <2>4, <2>5, <2>6
<1>10. CASE Invalidate(t) \/ Drop(t)
  <2> DEFINE S == {i \in cache[home[t]] : bundles[i].id = saw[t].id}
  <2>1. /\ cache' = [cache EXCEPT ![home[t]] = {i \in @ : bundles[i].id # saw[t].id}]
        /\ bundles' = [i \in DOMAIN bundles |->
             IF i \in S THEN [bundles[i] EXCEPT !.state = "closed"] ELSE bundles[i]]
    BY <1>10 DEF Invalidate, Drop, Invalidated
  <2>2. Restated
    <3> HIDE DEF S
    <3> QED
      BY <1>1, <2>1, SomeRestated
  <2>3. cache' \in [Replica -> SUBSET Nat]
    BY <1>1, <2>1
  <2>4. Entered(t)
    BY <1>1, <2>1 DEF Entered
  <2>5. NoneLost
    <3> SUFFICES ASSUME NEW p \in Replica, NEW i \in cache[p] \ cache'[p]
                 PROVE  bundles'[i].state # "open"
      BY DEF NoneLost
    <3>1. p = home[t] /\ i \in S
      BY <1>1, <2>1
    <3>2. i \in DOMAIN bundles /\ bundles[i] \in Bundles
      BY <1>1 DEF HandsAreFull, CachedMayBeShared
    <3> QED
      BY <2>1, <3>1, <3>2 DEF Bundles
  <2> QED
    BY <2>2, <2>3, <2>4, <2>5
<1>11. CASE \/ Begin(t) \/ LoadRow(t) \/ LoadRefused(t) \/ LookupHit(t) \/ NeedsKey(t)
            \/ BuildFails(t)
            \/ Call(t) \/ LoadForChange(t) \/ EncryptFails(t) \/ Register(t) \/ Update(t)
            \/ Delete(t)
            \/ TransientFails(t) \/ WriteResult(t)
  <2>1. UNCHANGED clients
    BY <1>11 DEF Begin, LoadRow, LoadRefused, LookupHit, NeedsKey, BuildFails, Call, LoadForChange,
                 EncryptFails, Register, Update, Delete, TransientFails, WriteResult
  <2> QED
    BY <1>4, <2>1
<1> QED
  BY <1>5, <1>6, <1>7, <1>8, <1>9, <1>10, <1>11, <1>12 DEF ThreadStep, GetClients

\* The bundles there were are there, and open only if they were.
Grown == \A i \in DOMAIN bundles : i \in DOMAIN bundles' /\ Kept(i)

LEMMA BundlesGrow ==
  ASSUME ConsoleTypes, HandsAreFull, FilesHeld, NEW t \in Thread, Begin(t) \/ ThreadStep(t)
  PROVE  Grown /\ bundles' \in Seq(Bundles)
<1>1. CASE Restated
  BY <1>1 DEF Restated, Grown
<1>2. CASE saw[t] \in Rows /\ Added(t)
  <2>1. /\ bundles' \in Seq(Bundles)
        /\ DOMAIN bundles \subseteq DOMAIN bundles'
        /\ \A i \in DOMAIN bundles : bundles'[i] = bundles[i]
    BY <1>2, OneAdded
  <2> QED
    BY <2>1 DEF Grown, Kept
<1>3. CASE saw[t] \in Rows /\ Spilt(t)
  BY <1>3, OneSpilt DEF Grown, Kept
<1> QED
  BY <1>1, <1>2, <1>3, BundlesMove

\* A thread that does nothing has what it had.
LEMMA UntouchedHandsStayFull ==
  ASSUME HandsAreFull, Grown, NEW u \in Thread, Untouched(u), home' = home
  PROVE  Hand(u)'
<1>1. Hand(u)
  BY DEF HandsAreFull
<1>2. ASSUME holds[u] \in DOMAIN bundles
      PROVE  /\ holds[u] \in DOMAIN bundles'
             /\ bundles'[holds[u]].impersonatable = bundles[holds[u]].impersonatable
             /\ bundles'[holds[u]].home = bundles[holds[u]].home
             /\ bundles'[holds[u]].stamp = bundles[holds[u]].stamp
             /\ bundles'[holds[u]].content = bundles[holds[u]].content
  BY <1>2 DEF Grown, Kept
<1> QED
  BY <1>1, <1>2 DEF Hand, Untouched, Building

LEMMA HomesStay ==
  ASSUME [Next]_vars
  PROVE  home' = home
<1>1. ASSUME NEW a \in Caller, KeyStep(a) \/ KeyDone(a) PROVE home' = home
  BY <1>1 DEF KeyStep, UseMemo, LoadKey, CannotRead, GenerateKey, TruncateFile, WriteKey,
              CannotPersist, KeepKey, KeyDone
<1>2. ASSUME NEW p \in Replica, StartupStep(p) PROVE home' = home
  <2>1. UNCHANGED keys \/ KeyStep(p) \/ KeyDone(p)
    BY <1>2 DEF StartupStep, Start, AskTables, CreateTables, InspectColumn, AddColumn,
                CommitUpgrade,
                CheckSchema, CountAccounts, CreateAdministrator, AdoptEncrypts, AdoptNothing, Adopt
  <2> QED
    BY <1>1, <2>1 DEF keys, Caller
<1>3. ASSUME NEW t \in Thread, Begin(t) \/ ThreadStep(t) PROVE home' = home
  <2>1. UNCHANGED keys \/ KeyStep(t) \/ KeyDone(t)
    BY <1>3 DEF Begin, ThreadStep, GetClients, LoadRow, LoadRefused, LookupHit, LookupMiss,
                NeedsKey,
                BuildClients, Build, BuildFails, BuildSpills, SpillFails, Store, Call,
                LoadForChange, EncryptFails, Register,
                Update, Delete, Invalidate, Drop, BuildTransient, TransientFails, TransientSpills,
                SpillFails, Try, WriteResult
  <2> QED
    BY <1>1, <2>1 DEF keys, Caller
<1>4. CASE (\E p \in Replica : Crash(p) \/ Stop(p)) \/ UNCHANGED vars
  BY <1>4 DEF Crash, Stop, Gone, KeysLost, vars, keys
<1> QED
  BY <1>2, <1>3, <1>4 DEF Next, Boots

\* What a thread has after its step.
LEMMA HandsFill ==
  ASSUME ConsoleTypes, HandsAreFull, OneContentPerStamp, FilesHeld, NEW t \in Thread, Begin(t) \/ ThreadStep(t)
  PROVE  Hand(t)'
<1>1. /\ pc \in [Thread -> Places] /\ saw \in [Thread -> Rows \union {NULL}]
      /\ op \in [Thread -> Operations \union {NULL}] /\ who \in [Thread -> Principals \union {NULL}]
      /\ acts \in [Thread -> Identities] /\ holds \in [Thread -> Nat \union {NULL}]
      /\ row \in Rows \union {NULL}
  BY DEF ConsoleTypes, ThreadTypes
<1>2. Hand(t)
  BY DEF HandsAreFull
<1>3. home' = home
  BY HomesStay DEF Next
<1>4. Grown
  BY BundlesGrow
<1>5. CASE Begin(t)
  <2>1. PICK o \in Operation :
          /\ op' = [op EXCEPT ![t] = o]
          /\ pc' = [pc EXCEPT ![t] = CASE o = "request" -> "load"
                                       [] o = "register" -> "encrypt"
                                       [] OTHER -> "row"]
    BY <1>5 DEF Begin, Goes
  <2>2. o \in Operations
    BY <2>1, OperationAssumption
  <2>3. holds[t] = NULL /\ holds'[t] = NULL
    BY <1>2, <1>5 DEF Begin, Hand, Building
  <2>4. /\ pc'[t] \in {"load", "encrypt", "row"}
        /\ pc'[t] = "row" => op'[t] \in {"test", "update", "delete"}
        /\ pc'[t] = "encrypt" => op'[t] = "register"
    BY <1>1, <2>1, <2>2 DEF Operations
  <2> QED
    BY <2>3, <2>4 DEF Hand, WithRow, Building
<1>6. CASE \E what : Answered(t, what)
  BY <1>1, <1>6 DEF Answered, Goes, Hand, WithRow, Building
<1>7. CASE LoadRow(t)
  <2>1. /\ pc[t] = "load" /\ pc'[t] = "lookup" /\ saw'[t] = row /\ row # NULL
        /\ acts'[t] = Identity(who'[t], saw'[t]) /\ holds'[t] = holds[t]
    BY <1>1, <1>7 DEF LoadRow, Goes
  <2> QED
    BY <1>1, <1>2, <2>1 DEF Hand, WithRow, Building
<1>8. CASE LookupHit(t)
  <2>1. /\ pc[t] = "lookup" /\ pc'[t] = "call" /\ saw'[t] = saw[t] /\ who'[t] = who[t]
        /\ acts'[t] = acts[t] /\ holds'[t] = Cached(t) /\ bundles' = bundles
    BY <1>1, <1>8 DEF LookupHit, Goes, clients
  <2>2. Cached(t) \in cache[home[t]] /\ bundles[Cached(t)].stamp = saw[t].stamp
    BY <1>8, CachedIsCached DEF LookupHit, Usable, SameKey
  <2>3. /\ Cached(t) \in DOMAIN bundles /\ bundles[Cached(t)].impersonatable
        /\ bundles[Cached(t)].home = home[t]
    BY <2>2 DEF HandsAreFull, CachedMayBeShared, ConsoleTypes, KeyTypes
  <2>4. bundles[Cached(t)].content = saw[t].content
    <3>1. saw[t] # NULL
      BY <1>2, <2>1 DEF Hand, WithRow
    <3>2. saw[t] \in Versions /\ bundles[Cached(t)] \in Versions
      BY <2>3, <3>1 DEF Versions
    <3> QED
      BY <2>2, <3>2 DEF OneContentPerStamp
  <2> QED
    BY <1>2, <1>3, <2>1, <2>2, <2>3, <2>4 DEF Hand, WithRow, Building
<1>9. CASE LookupMiss(t)
  <2>1. /\ pc[t] = "lookup" /\ pc'[t] = "build" /\ saw'[t] = saw[t] /\ who'[t] = who[t]
        /\ acts'[t] = acts[t] /\ holds'[t] = Cached(t)
    BY <1>1, <1>9 DEF LookupMiss, Goes
  <2>2. Cached(t) # NULL => Cached(t) \in DOMAIN bundles
    BY CachedIsCached DEF HandsAreFull, CachedMayBeShared, ConsoleTypes, KeyTypes
  <2>3. Cached(t) # NULL => Cached(t) \in DOMAIN bundles'
    BY <1>4, <2>2 DEF Grown
  <2> QED
    BY <1>2, <2>1, <2>3 DEF Hand, WithRow, Building
<1>10. CASE NeedsKey(t)
  <2>1. Untouched(t)
    BY <1>10 DEF NeedsKey, thread, Untouched
  <2> QED
    BY <1>3, <1>4, <2>1, UntouchedHandsStayFull
<1>11. CASE BuildClients(t) \/ BuildTransient(t)
  <2>1. /\ pc[t] \in {"build", "transient"} /\ pc'[t] = IF pc[t] = "build" THEN "store" ELSE "try"
        /\ saw'[t] = saw[t] /\ who'[t] = who[t] /\ acts'[t] = acts[t] /\ Added(t)
    BY <1>1, <1>11 DEF BuildClients, BuildTransient, Build, Goes, Added
  <2>2. saw[t] \in Rows
    BY <1>2, <2>1 DEF Hand, WithRow
  <2>3. holds'[t] \in DOMAIN bundles'
    BY <2>1, <2>2, OneAdded
  <2>4. bundles'[holds'[t]] = Bundle(saw[t], home[t], pc[t] = "build", acts[t], holds[t])
    BY <2>1, <2>2, OneAdded
  <2>5. /\ bundles'[holds'[t]].impersonatable = (pc[t] = "build")
        /\ bundles'[holds'[t]].home = home[t] /\ bundles'[holds'[t]].stamp = saw[t].stamp
        /\ bundles'[holds'[t]].content = saw[t].content
    BY <2>4 DEF Bundle
  <2> QED
    BY <1>2, <1>3, <2>1, <2>2, <2>3, <2>5 DEF Hand, WithRow, Building
<1>12. CASE Store(t)
  <2>1. /\ pc[t] = "store" /\ pc'[t] = "call" /\ saw'[t] = saw[t] /\ who'[t] = who[t]
        /\ acts'[t] = acts[t] /\ holds'[t] = holds[t]
    BY <1>1, <1>12 DEF Store, Goes
  <2>2. holds[t] \in DOMAIN bundles
    BY <1>2, <2>1 DEF Hand
  <2>3. /\ holds[t] \in DOMAIN bundles'
        /\ bundles'[holds[t]].impersonatable = bundles[holds[t]].impersonatable
        /\ bundles'[holds[t]].home = bundles[holds[t]].home
        /\ bundles'[holds[t]].stamp = bundles[holds[t]].stamp
        /\ bundles'[holds[t]].content = bundles[holds[t]].content
    BY <1>4, <2>2 DEF Grown, Kept
  <2> QED
    BY <1>2, <1>3, <2>1, <2>3 DEF Hand, WithRow, Building
<1>13. CASE LoadForChange(t) /\ row # NULL
  <2>1. /\ pc[t] = "row" /\ saw'[t] = row /\ holds'[t] = holds[t]
        /\ pc'[t] \in {"drop", "encrypt", "delete"}
    BY <1>1, <1>2, <1>13 DEF LoadForChange, Goes, Hand
  <2> QED
    BY <1>1, <1>2, <1>13, <2>1 DEF Hand, WithRow, Building
<1>14. CASE Update(t) /\ StillThere(t)
  <2>1. pc[t] = "encrypt" /\ pc'[t] = "invalidate" /\ saw'[t] = saw[t] /\ holds'[t] = holds[t]
    BY <1>1, <1>14 DEF Update, Goes
  <2>2. op[t] = "update" /\ saw[t] \in Rows
    BY <1>2, <1>14, <2>1 DEF Update, Hand
  <2> QED
    BY <1>2, <2>1, <2>2 DEF Hand, WithRow, Building
<1>15. CASE Delete(t) \/ Drop(t) \/ TransientFails(t) \/ TransientSpills(t)
  <2>1. /\ pc[t] \in {"delete", "drop", "transient"} /\ pc'[t] \in {"invalidate", "transient", "unreachable"}
        /\ saw'[t] = saw[t] /\ holds'[t] = holds[t]
    BY <1>1, <1>15 DEF Delete, Drop, TransientFails, TransientSpills, SpillFails, Goes
  <2> QED
    BY <1>2, <2>1 DEF Hand, WithRow, Building
<1>16. CASE Try(t)
  <2>1. /\ pc[t] = "try" /\ pc'[t] \in {"reachable", "unreachable"} /\ saw'[t] = saw[t] /\ holds'[t] = NULL
    BY <1>1, <1>16 DEF Try, Goes
  <2> QED
    BY <1>2, <2>1 DEF Hand, WithRow, Building
<1>17. CASE WriteResult(t) /\ pc[t] = "reachable"
  <2>1. pc'[t] = "load" /\ holds'[t] = holds[t]
    BY <1>1, <1>17 DEF WriteResult, Goes
  <2> QED
    BY <1>2, <1>17, <2>1 DEF Hand, WithRow, Building
<1>18. CASE \/ LoadRefused(t) \/ BuildFails(t) \/ BuildSpills(t) \/ Call(t) \/ EncryptFails(t)
            \/ Register(t) \/ Invalidate(t)
            \/ LoadForChange(t) /\ row = NULL
            \/ Update(t) /\ ~StillThere(t)
            \/ WriteResult(t) /\ pc[t] # "reachable"
  <2>1. \E what : Answered(t, what)
    BY <1>18 DEF LoadRefused, BuildFails, BuildSpills, SpillFails, Call, EncryptFails, Register,
                 Invalidate, LoadForChange,
                 Update, WriteResult
  <2> QED
    BY <1>6, <2>1
<1> QED
  BY <1>5, <1>7, <1>8, <1>9, <1>10, <1>11, <1>12, <1>13, <1>14, <1>15, <1>16, <1>17, <1>18
     DEF ThreadStep, GetClients

-----------------------------------------------------------------------------
(* What has been read of the row under one stamp stays one content. *)

LEMMA VersionsStayApart ==
  ASSUME ThreadTypes, OneContentPerStamp, Renewed,
         \A u \in Thread : saw'[u] \in {saw[u], row, NULL},
         \A i \in DOMAIN bundles' : \E x \in Versions :
           bundles'[i].stamp = x.stamp /\ bundles'[i].content = x.content
  PROVE  OneContentPerStamp'
<1>1. stamp \in Nat /\ \A x \in Versions : x.stamp \in Nat
  <2>1. \A x \in Versions : x \in Rows \/ x \in Bundles
    BY DEF ThreadTypes, Versions
  <2>2. \A x : x \in Rows \/ x \in Bundles => x.stamp \in Nat
    BY DEF Rows, Bundles
  <2> QED
    BY <2>1, <2>2 DEF ThreadTypes
<1>2. \A x \in Versions : x.stamp <= stamp
  BY DEF OneContentPerStamp
<1> DEFINE Known(x) == \E y \in Versions : x.stamp = y.stamp /\ x.content = y.content
           Latest(x) == x = row' /\ x.stamp = stamp + 1 /\ stamp' = stamp + 1
<1>3. ASSUME NEW x \in Versions' PROVE Known(x) \/ Latest(x)
  <2>1. CASE \E i \in DOMAIN bundles' : x = bundles'[i]
    BY <2>1
  <2>2. CASE x # NULL /\ \E u \in Thread : x = saw'[u]
    <3>1. PICK u \in Thread : x = saw'[u]
      BY <2>2
    <3>2. x = saw[u] \/ x = row
      BY <2>2, <3>1
    <3>3. x \in Versions
      BY <2>2, <3>2 DEF Versions
    <3> QED
      BY <3>3
  <2>3. CASE x # NULL /\ x = row'
    <3>1. row' \in {row, NULL} \/ Latest(x)
      BY <2>3 DEF Renewed
    <3>2. x = row => x \in Versions
      BY <2>3 DEF Versions
    <3> QED
      BY <2>3, <3>1, <3>2
  <2> QED
    BY <2>1, <2>2, <2>3 DEF Versions
<1>4. stamp' \in Nat /\ stamp <= stamp'
  BY <1>1 DEF Renewed
<1>5. ASSUME NEW x \in Versions' PROVE x.stamp <= stamp'
  <2>1. CASE Known(x)
    BY <1>1, <1>2, <1>4, <2>1
  <2>2. CASE Latest(x)
    BY <1>1, <2>2
  <2> QED
    BY <1>3, <2>1, <2>2
<1>6. ASSUME NEW x \in Versions', NEW y \in Versions', x.stamp = y.stamp
      PROVE  x.content = y.content
  <2>1. CASE Known(x) /\ Known(y)
    BY <1>6, <2>1 DEF OneContentPerStamp
  <2>2. CASE Latest(x) /\ Latest(y)
    BY <2>2
  <2>3. ASSUME NEW a, NEW b, Known(a), Latest(b), a.stamp = b.stamp PROVE FALSE
    <3>1. PICK c \in Versions : a.stamp = c.stamp
      BY <2>3
    <3>2. c.stamp \in Nat /\ c.stamp <= stamp /\ c.stamp = stamp + 1
      BY <1>1, <1>2, <2>3, <3>1
    <3> QED
      BY <1>1, <3>2
  <2> QED
    BY <1>3, <1>6, <2>1, <2>2, <2>3
<1> QED
  BY <1>5, <1>6 DEF OneContentPerStamp

LEMMA ThreadsReadTheRow ==
  ASSUME ConsoleTypes, NEW t \in Thread, Begin(t) \/ ThreadStep(t)
  PROVE  saw'[t] \in {saw[t], row, NULL}
<1>1. saw \in [Thread -> Rows \union {NULL}]
  BY DEF ConsoleTypes, ThreadTypes
<1>2. CASE \E what : Answered(t, what)
  BY <1>1, <1>2 DEF Answered
<1>3. CASE saw' = saw
  BY <1>3
<1>4. CASE saw' = [saw EXCEPT ![t] = row]
  BY <1>1, <1>4
<1>5. CASE \/ LoadRefused(t) \/ BuildFails(t) \/ BuildSpills(t) \/ Call(t) \/ EncryptFails(t)
           \/ Register(t) \/ Invalidate(t)
  BY <1>2, <1>5 DEF LoadRefused, BuildFails, BuildSpills, SpillFails, Call, EncryptFails, Register,
                    Invalidate
<1>6. CASE LoadRow(t) \/ LoadForChange(t) \/ Update(t) \/ WriteResult(t)
  BY <1>2, <1>3, <1>4, <1>6 DEF LoadRow, LoadForChange, Update, WriteResult
<1>7. CASE \/ Begin(t) \/ LookupHit(t) \/ LookupMiss(t) \/ NeedsKey(t) \/ BuildClients(t)
           \/ Store(t)
           \/ Delete(t) \/ Drop(t) \/ BuildTransient(t) \/ TransientFails(t)
           \/ TransientSpills(t) \/ Try(t)
  BY <1>3, <1>7 DEF Begin, LookupHit, LookupMiss, NeedsKey, BuildClients, BuildTransient, Build,
                    Store,
                    Delete, Drop, TransientFails, TransientSpills, SpillFails, Try, thread
<1> QED
  BY <1>5, <1>6, <1>7 DEF ThreadStep, GetClients

LEMMA ThreadsKeepVersions ==
  ASSUME ConsoleTypes, HandsAreFull, OneContentPerStamp, FilesHeld,
         NEW t \in Thread, Begin(t) \/ ThreadStep(t)
  PROVE  OneContentPerStamp'
<1>1. ThreadTypes /\ Renewed
  BY NextRenewsTheRow DEF ConsoleTypes, Next
<1>2. \A u \in Thread : saw'[u] \in {saw[u], row, NULL}
  BY LocalsKeepTypes, ThreadsReadTheRow DEF Untouched
<1>3. ASSUME NEW i \in DOMAIN bundles
      PROVE  \E x \in Versions : bundles[i].stamp = x.stamp /\ bundles[i].content = x.content
  BY DEF Versions
<1>4. ASSUME NEW i \in DOMAIN bundles'
      PROVE  \E x \in Versions : bundles'[i].stamp = x.stamp /\ bundles'[i].content = x.content
  <2>1. CASE Restated
    BY <1>3, <1>4, <2>1 DEF Restated, Kept
  <2>2. CASE saw[t] \in Rows /\ pc[t] \in {"build", "transient"} /\ Added(t)
    <3>1. CASE i \in DOMAIN bundles
      <4>1. bundles'[i] = bundles[i]
        BY <2>2, <3>1, OneAdded
      <4> QED
        BY <1>3, <3>1, <4>1
    <3>2. CASE i \notin DOMAIN bundles
      <4>1. i = holds'[t]
        BY <2>2, <3>2, OneAdded
      <4>2. bundles'[i] = Bundle(saw[t], home[t], pc[t] = "build", acts[t], holds[t])
        BY <2>2, <4>1, OneAdded
      <4>3. bundles'[i].stamp = saw[t].stamp /\ bundles'[i].content = saw[t].content
        BY <4>2 DEF Bundle
      <4>4. saw[t] # NULL
        BY <2>2 DEF HandsAreFull, Hand, WithRow
      <4> QED
        BY <4>3, <4>4 DEF Versions
    <3> QED
      BY <3>1, <3>2
  <2>3. CASE saw[t] \in Rows /\ pc[t] \in {"build", "transient"} /\ Spilt(t)
    <3>1. CASE i \in DOMAIN bundles
      BY <1>3, <2>3, <3>1, OneSpilt
    <3>2. CASE i \notin DOMAIN bundles
      <4>1. bundles'[i].stamp = saw[t].stamp /\ bundles'[i].content = saw[t].content
        BY <1>4, <2>3, <3>2, OneSpilt
      <4>2. saw[t] # NULL
        BY <2>3 DEF HandsAreFull, Hand, WithRow
      <4> QED
        BY <4>1, <4>2 DEF Versions
    <3> QED
      BY <3>1, <3>2
  <2> QED
    BY <2>1, <2>2, <2>3, BundlesMove
<1> QED
  BY <1>1, <1>2, <1>4, VersionsStayApart

-----------------------------------------------------------------------------
(* Whose the files are. *)

\* What a thread lets go of is closed, or cached.
LEMMA ThreadsLetGo ==
  ASSUME ConsoleTypes, HandsAreFull, FilesHeld, NEW t \in Thread, Begin(t) \/ ThreadStep(t),
         holds'[t] # holds[t], holds[t] # NULL
  PROVE  bundles'[holds[t]].state # "open" \/ holds[t] \in cache'[home[t]]
<1>1. holds \in [Thread -> Nat \union {NULL}] /\ DOMAIN bundles \subseteq Nat
  BY DEF ConsoleTypes, ThreadTypes
<1>2. pc[t] \in Building /\ holds[t] \in DOMAIN bundles
  BY DEF HandsAreFull, Hand, Building
<1>3. LetsGo(t)
  BY DEF FilesHeld
<1>4. Kept(holds[t])
  BY <1>2, BundlesGrow DEF Grown
<1>5. CASE pc[t] = "build"
  BY <1>2, <1>3, <1>4, <1>5 DEF LetsGo, Kept
<1>6. CASE Call(t)
  BY <1>3, <1>6 DEF LetsGo, Call, clients
<1>7. CASE Try(t)
  <2>1. bundles[holds[t]] \in Bundles
    BY <1>2 DEF ConsoleTypes, ThreadTypes
  <2> QED
    BY <1>2, <1>7, <2>1 DEF Try, Closed, Bundles
<1>8. CASE Store(t)
  BY <1>8 DEF Store
<1>9. CASE pc[t] # "build" /\ ~(Call(t) \/ Try(t) \/ Store(t))
  BY <1>2, <1>9 DEF ThreadStep, GetClients, Begin, LoadRow, LoadRefused, LookupHit, LookupMiss,
     NeedsKey, BuildClients, BuildTransient, BuildFails, BuildSpills, SpillFails, LoadForChange,
     EncryptFails, Register, Update,
     Delete, Invalidate, Drop, TransientFails, TransientSpills, SpillFails, WriteResult, Building
<1> QED
  BY <1>5, <1>6, <1>7, <1>8, <1>9

LEMMA UntouchedThreadsLetGo ==
  ASSUME HandsAreFull, FilesHeld, Grown, NoneLost, home' = home, home \in [Thread -> Replica],
         NEW u \in Thread, Untouched(u)
  PROVE  LetsGo(u)'
<1>1. Hand(u) /\ LetsGo(u)
  BY DEF HandsAreFull, FilesHeld
<1>2. ASSUME NEW i \in DOMAIN bundles, bundles'[i].state = "open" PROVE bundles[i].state = "open"
  BY <1>2 DEF Grown, Kept
<1>3. ASSUME pc'[u] = "call", bundles'[holds'[u]].state = "open"
      PROVE  holds'[u] \in cache'[home'[u]]
  <2>1. pc[u] = "call" /\ holds'[u] = holds[u] /\ holds[u] \in DOMAIN bundles
    BY <1>1, <1>3 DEF Untouched, Hand
  <2>2. holds[u] \in cache[home[u]]
    BY <1>1, <1>2, <1>3, <2>1 DEF LetsGo
  <2> QED
    BY <1>3, <2>1, <2>2 DEF NoneLost
<1>4. ASSUME pc'[u] = "build", holds'[u] # NULL PROVE bundles'[holds'[u]].state # "open"
  <2>1. pc[u] = "build" /\ holds'[u] = holds[u] /\ holds[u] \in DOMAIN bundles
    BY <1>1, <1>4 DEF Untouched, Hand
  <2> QED
    BY <1>1, <1>2, <1>4, <2>1 DEF LetsGo
<1>5. ASSUME pc'[u] = "store", bundles'[holds'[u]].after # NULL
      PROVE  /\ bundles'[holds'[u]].after \in DOMAIN bundles'
             /\ bundles'[bundles'[holds'[u]].after].state # "open"
  <2>1. pc[u] = "store" /\ holds'[u] = holds[u] /\ holds[u] \in DOMAIN bundles
    BY <1>1, <1>5 DEF Untouched, Hand
  <2>2. bundles'[holds[u]].after = bundles[holds[u]].after
    BY <2>1 DEF Grown, Kept
  <2>3. /\ bundles[holds[u]].after \in DOMAIN bundles
        /\ bundles[bundles[holds[u]].after].state # "open"
    BY <1>1, <1>5, <2>1, <2>2 DEF LetsGo
  <2>4. bundles[holds[u]].after \in DOMAIN bundles'
    BY <2>3 DEF Grown
  <2> QED
    BY <1>2, <2>1, <2>2, <2>3, <2>4
<1> QED
  BY <1>3, <1>4, <1>5 DEF LetsGo

LEMMA ThreadsKeepAccounting ==
  ASSUME ConsoleTypes, HandsAreFull, FilesHeld, NEW t \in Thread, Begin(t) \/ ThreadStep(t)
  PROVE  OpenFilesAreHeld'
<1>1. /\ home' = home /\ home \in [Thread -> Replica] /\ bundles \in Seq(Bundles)
      /\ \A u \in Thread \ {t} : Untouched(u)
  BY HomesStay, LocalsKeepTypes DEF ConsoleTypes, KeyTypes, ThreadTypes, Next
<1>2. NoneLost
  BY BundlesMove
<1> SUFFICES ASSUME NEW i \in DOMAIN bundles', bundles'[i].state = "open"
             PROVE  \/ i \in cache'[bundles'[i].home]
                    \/ \E u \in Thread : home[u] = bundles'[i].home /\ holds'[u] = i
  BY <1>1 DEF OpenFilesAreHeld, Mine
<1>3. CASE i \in DOMAIN bundles
  <2>1. bundles[i].state = "open" /\ bundles'[i].home = bundles[i].home
    BY <1>3, BundlesGrow DEF Grown, Kept
  <2>2. bundles[i].home \in Replica /\ i # NULL
    <3>1. bundles[i] \in Bundles /\ i \in Nat
      BY <1>1, <1>3
    <3> QED
      BY <3>1, NullAssumption DEF Bundles
  <2>3. CASE i \in cache[bundles[i].home]
    BY <1>2, <2>1, <2>2, <2>3 DEF NoneLost
  <2>4. CASE i \notin cache[bundles[i].home]
    <3>1. PICK u \in Thread : home[u] = bundles[i].home /\ holds[u] = i
      BY <1>3, <2>1, <2>4 DEF FilesHeld, OpenFilesAreHeld, Mine
    <3>2. CASE holds'[u] = i
      BY <2>1, <3>1, <3>2
    <3>3. CASE holds'[u] # i
      <4>1. u = t
        BY <1>1, <3>1, <3>3 DEF Untouched
      <4>2. i \in cache'[home[t]]
        BY <2>2, <3>1, <3>3, <4>1, ThreadsLetGo
      <4> QED
        BY <2>1, <3>1, <4>1, <4>2
    <3> QED
      BY <3>2, <3>3
  <2> QED
    BY <2>3, <2>4
<1>4. CASE i \notin DOMAIN bundles
  <2>5. ASSUME saw[t] \in Rows, Spilt(t) PROVE FALSE
    BY <1>4, <2>5, OneSpilt
  <2>1. saw[t] \in Rows /\ Added(t)
    BY <1>4, <2>5, BundlesMove DEF Restated
  <2>2. holds'[t] = i
    BY <1>4, <2>1, OneAdded
  <2>3. bundles'[i] = Bundle(saw[t], home[t], pc[t] = "build", acts[t], holds[t])
    BY <2>1, <2>2, OneAdded
  <2>4. bundles'[i].home = home[t]
    BY <2>3 DEF Bundle
  <2> QED
    BY <2>2, <2>4
<1> QED
  BY <1>3, <1>4

LEMMA WhereThreadsGo ==
  ASSUME ConsoleTypes, HandsAreFull, NEW t \in Thread, Begin(t) \/ ThreadStep(t)
  PROVE  /\ pc'[t] = "call" => LookupHit(t) \/ Store(t)
         /\ pc'[t] = "build" => LookupMiss(t) \/ NeedsKey(t)
         /\ pc'[t] = "store" => BuildClients(t)
<1>1. pc \in [Thread -> Places] /\ (pc[t] = "row" => op[t] \in {"test", "update", "delete"})
  BY DEF ConsoleTypes, ThreadTypes, HandsAreFull, Hand
<1>2. CASE \E what : Answered(t, what)
  BY <1>1, <1>2 DEF Answered, Goes
<1>3. CASE \/ LoadRefused(t) \/ BuildFails(t) \/ BuildSpills(t) \/ Call(t) \/ EncryptFails(t)
           \/ Register(t) \/ Invalidate(t)
  BY <1>2, <1>3 DEF LoadRefused, BuildFails, BuildSpills, SpillFails, Call, EncryptFails, Register,
                    Invalidate
<1>4. CASE Begin(t)
  <2>1. pc'[t] \in {"load", "encrypt", "row"}
    BY <1>1, <1>4 DEF Begin, Goes
  <2> QED
    BY <2>1
<1>5. CASE LoadForChange(t) \/ Update(t) \/ WriteResult(t)
  BY <1>1, <1>2, <1>5 DEF LoadForChange, Update, WriteResult, Goes
<1>6. CASE \/ LoadRow(t) \/ Delete(t) \/ Drop(t) \/ BuildTransient(t) \/ TransientFails(t)
           \/ TransientSpills(t) \/ Try(t)
           \/ LookupHit(t) \/ LookupMiss(t) \/ BuildClients(t) \/ Store(t)
  BY <1>1, <1>6 DEF LoadRow, Delete, Drop, BuildTransient, BuildClients, Build, TransientFails,
                    TransientSpills, SpillFails, Try,
                    LookupHit, LookupMiss, Store, Goes
<1>7. CASE NeedsKey(t)
  BY <1>1, <1>7 DEF NeedsKey, thread
<1> QED
  BY <1>3, <1>4, <1>5, <1>6, <1>7 DEF ThreadStep, GetClients

\* What a thread is about to let go of is closed, or cached.
LEMMA ThreadsKeepLettingGo ==
  ASSUME ConsoleTypes, HandsAreFull, FilesHeld, NEW t \in Thread, Begin(t) \/ ThreadStep(t)
  PROVE  LetsGo(t)'
<1>1. /\ holds \in [Thread -> Nat \union {NULL}] /\ pc \in [Thread -> Places]
      /\ cache \in [Replica -> SUBSET Nat] /\ home \in [Thread -> Replica] /\ bundles \in Seq(Bundles)
  BY DEF ConsoleTypes, KeyTypes, ThreadTypes
<1>2. /\ home' = home /\ Grown /\ NoneLost
  BY HomesStay, BundlesGrow, BundlesMove DEF Next
<1>3. Hand(t) /\ LetsGo(t)
  BY DEF HandsAreFull, FilesHeld
<1>4. Cached(t) # NULL => Cached(t) \in cache[home[t]] /\ Cached(t) \in DOMAIN bundles
  BY <1>1, CachedIsCached DEF HandsAreFull, CachedMayBeShared
<1>5. CASE LookupHit(t)
  BY <1>1, <1>2, <1>4, <1>5 DEF LookupHit, Usable, clients, LetsGo, Goes
<1>6. CASE Store(t)
  BY <1>1, <1>2, <1>6 DEF Store, LetsGo, Goes
<1>7. CASE LookupMiss(t)
  <2>1. pc'[t] = "build" /\ holds'[t] = Cached(t) /\ bundles' = ClosedIfAny(Cached(t))
    BY <1>1, <1>7 DEF LookupMiss, Goes
  <2>2. ASSUME Cached(t) # NULL PROVE bundles'[Cached(t)].state # "open"
    <3>1. bundles' = [bundles EXCEPT ![Cached(t)].state = "closed"]
      BY <2>1, <2>2 DEF ClosedIfAny, Closed
    <3>2. bundles[Cached(t)] \in Bundles
      BY <1>1, <1>4, <2>2
    <3> QED
      BY <1>4, <2>2, <3>1, <3>2 DEF Bundles
  <2> QED
    BY <2>1, <2>2 DEF LetsGo
<1>8. CASE NeedsKey(t)
  <2>1. Untouched(t)
    BY <1>8 DEF NeedsKey, thread, Untouched
  <2> QED
    BY <1>1, <1>2, <2>1, UntouchedThreadsLetGo
<1>9. CASE BuildClients(t)
  <2>1. pc[t] = "build" /\ pc'[t] = "store" /\ Added(t)
    BY <1>1, <1>9 DEF BuildClients, Build, Goes, Added
  <2>2. saw[t] \in Rows
    BY <1>3, <2>1 DEF Hand, WithRow
  <2>3. bundles'[holds'[t]] = Bundle(saw[t], home[t], pc[t] = "build", acts[t], holds[t])
    BY <2>1, <2>2, OneAdded
  <2>4. bundles'[holds'[t]].after = holds[t]
    BY <2>3 DEF Bundle
  <2>5. holds[t] # NULL => holds[t] \in DOMAIN bundles /\ bundles[holds[t]].state # "open"
    BY <1>3, <2>1 DEF Hand, LetsGo
  <2>6. holds[t] # NULL => holds[t] \in DOMAIN bundles' /\ bundles'[holds[t]].state # "open"
    BY <1>2, <2>5 DEF Grown, Kept
  <2> QED
    BY <2>1, <2>4, <2>6 DEF LetsGo
<1>10. CASE pc'[t] \notin {"call", "build", "store"}
  BY <1>10 DEF LetsGo
<1> QED
  BY <1>5, <1>6, <1>7, <1>8, <1>9, <1>10, WhereThreadsGo

\* Only bundles that can carry any identity are shared.
LEMMA ThreadsShareWhatMayBe ==
  ASSUME ConsoleTypes, HandsAreFull, FilesHeld, NEW t \in Thread, Begin(t) \/ ThreadStep(t)
  PROVE  CachedMayBeShared'
<1>1. Grown /\ Entered(t)
  BY BundlesGrow, BundlesMove
<1> SUFFICES ASSUME NEW p \in Replica, NEW i \in cache'[p]
             PROVE  i \in DOMAIN bundles' /\ bundles'[i].impersonatable /\ bundles'[i].home = p
  BY DEF CachedMayBeShared
<1>2. i \in DOMAIN bundles /\ bundles[i].impersonatable /\ bundles[i].home = p
  <2>1. CASE i \in cache[p]
    BY <2>1 DEF HandsAreFull, CachedMayBeShared
  <2>2. CASE i \notin cache[p]
    <3>1. pc[t] = "store" /\ i = holds[t] /\ p = home[t]
      BY <1>1, <2>2 DEF Entered
    <3> QED
      BY <3>1 DEF HandsAreFull, Hand
  <2> QED
    BY <2>1, <2>2
<1> QED
  BY <1>1, <1>2 DEF Grown, Kept

-----------------------------------------------------------------------------
(* The answers. *)

LEMMA ThreadsAnswerTruly ==
  ASSUME HandsAreFull, ActsAsTheOperator, AnswersDescribeTheRow,
         NEW t \in Thread, Begin(t) \/ ThreadStep(t)
  PROVE  ActsAsTheOperator' /\ AnswersDescribeTheRow'
<1>1. CASE answer' = answer
  BY <1>1 DEF ActsAsTheOperator, AnswersDescribeTheRow
<1>2. CASE answer' = NULL \/ \E why : answer' = [refused |-> why]
  BY <1>2 DEF ActsAsTheOperator, AnswersDescribeTheRow
<1>3. CASE Call(t)
  <2>1. CASE answer' = [content |-> bundles[holds[t]].content, asked |-> saw[t].content,
                        as |-> Headers(t, bundles[holds[t]]),
                        expected |-> Identity(who[t], saw[t])]
    <3>1. /\ bundles[holds[t]].content = saw[t].content /\ bundles[holds[t]].impersonatable
          /\ acts[t] = Identity(who[t], saw[t])
      BY <1>3 DEF Call, HandsAreFull, Hand
    <3>2. /\ answer'.content = answer'.asked /\ answer'.as = answer'.expected
      BY <2>1, <3>1 DEF Headers
    <3> QED
      BY <3>2 DEF ActsAsTheOperator, AnswersDescribeTheRow
  <2>2. CASE \E why : answer' = [refused |-> why]
    BY <1>2, <2>2
  <2> QED
    BY <1>3, <2>1, <2>2 DEF Call, Answered
<1>4. CASE \/ Begin(t) \/ LoadRefused(t) \/ BuildFails(t) \/ BuildSpills(t) \/ EncryptFails(t)
           \/ Register(t) \/ Invalidate(t)
           \/ LoadForChange(t) \/ Update(t) \/ WriteResult(t)
  BY <1>1, <1>2, <1>4 DEF Begin, LoadRefused, BuildFails, BuildSpills, SpillFails, EncryptFails,
                          Register, Invalidate,
                          LoadForChange, Update, WriteResult, Answered
<1>5. CASE \/ LoadRow(t) \/ LookupHit(t) \/ LookupMiss(t) \/ NeedsKey(t) \/ BuildClients(t)
           \/ Store(t)
           \/ Delete(t) \/ Drop(t) \/ BuildTransient(t) \/ TransientFails(t)
           \/ TransientSpills(t) \/ Try(t)
  BY <1>1, <1>5 DEF LoadRow, LookupHit, LookupMiss, NeedsKey, BuildClients, BuildTransient, Build,
                    Store, Delete, Drop, TransientFails, TransientSpills, SpillFails, Try
<1> QED
  BY <1>3, <1>4, <1>5 DEF ThreadStep, GetClients

-----------------------------------------------------------------------------
(* The invariant, kind of step by kind of step. *)

LEMMA ThreadsKeepTheInvariant ==
  ASSUME ConsoleIInv, NEW t \in Thread, Begin(t) \/ ThreadStep(t)
  PROVE  ConsoleIInv'
<1>1. /\ ConsoleTypes /\ KeyTypes /\ ThreadTypes /\ KeysAgree /\ HandsAreFull
      /\ OneContentPerStamp /\ FilesHeld /\ ActsAsTheOperator /\ AnswersDescribeTheRow /\ [Next]_vars
  BY DEF ConsoleIInv, ConsoleTypes, Next
<1>2. /\ home' = home /\ home \in [Thread -> Replica] /\ Grown /\ NoneLost
      /\ \A u \in Thread \ {t} : Untouched(u)
  BY <1>1, HomesStay, BundlesGrow, BundlesMove, LocalsKeepTypes DEF KeyTypes
<1>3. KeyTypes' /\ KeysAgree'
  BY <1>1, NextKeepsTheKey
<1>4. ThreadTypes'
  <2>1. row' \in Rows \union {NULL} /\ stamp' \in Nat
    BY <1>1, NextRenewsTheRow DEF Renewed, ThreadTypes
  <2>2. bundles' \in Seq(Bundles) /\ cache' \in [Replica -> SUBSET Nat]
    BY <1>1, BundlesGrow, BundlesMove
  <2>3. LocalTypes'
    BY <1>1, LocalsKeepTypes
  <2> QED
    BY <2>1, <2>2, <2>3 DEF LocalTypes, ThreadTypes
<1>5. HandsAreFull'
  <2>1. ASSUME NEW u \in Thread PROVE Hand(u)'
    <3>1. CASE u = t
      BY <1>1, <3>1, HandsFill
    <3>2. CASE u # t
      BY <1>1, <1>2, <3>2, UntouchedHandsStayFull
    <3> QED
      BY <3>1, <3>2
  <2>2. CachedMayBeShared'
    BY <1>1, ThreadsShareWhatMayBe
  <2> QED
    BY <2>1, <2>2 DEF HandsAreFull
<1>6. OneContentPerStamp'
  BY <1>1, ThreadsKeepVersions
<1>7. FilesHeld'
  <2>1. ASSUME NEW u \in Thread PROVE LetsGo(u)'
    <3>1. CASE u = t
      BY <1>1, <3>1, ThreadsKeepLettingGo
    <3>2. CASE u # t
      BY <1>1, <1>2, <3>2, UntouchedThreadsLetGo
    <3> QED
      BY <3>1, <3>2
  <2>2. OpenFilesAreHeld'
    BY <1>1, ThreadsKeepAccounting
  <2> QED
    BY <2>1, <2>2 DEF FilesHeld
<1>8. ActsAsTheOperator' /\ AnswersDescribeTheRow'
  BY <1>1, ThreadsAnswerTruly
<1> QED
  BY <1>3, <1>4, <1>5, <1>6, <1>7, <1>8 DEF ConsoleIInv, ConsoleTypes

\* A startup changes the registry and the keys only.
LEMMA StartupsKeepTheInvariant ==
  ASSUME ConsoleIInv, [Next]_vars, UNCHANGED <<clients, thread, answer>>
  PROVE  ConsoleIInv'
<1>1. /\ ConsoleTypes /\ KeyTypes /\ ThreadTypes /\ KeysAgree /\ HandsAreFull
      /\ OneContentPerStamp /\ FilesHeld /\ ActsAsTheOperator /\ AnswersDescribeTheRow
  BY DEF ConsoleIInv, ConsoleTypes
<1>2. /\ home' = home /\ bundles' = bundles /\ cache' = cache /\ op' = op /\ who' = who /\ pc' = pc
      /\ saw' = saw /\ acts' = acts /\ holds' = holds /\ answer' = answer
  BY HomesStay DEF clients, thread
<1>3. KeyTypes' /\ KeysAgree'
  BY <1>1, NextKeepsTheKey
<1>4. Renewed
  BY <1>1, NextRenewsTheRow
<1>5. ThreadTypes'
  BY <1>1, <1>2, <1>4 DEF Renewed, ThreadTypes
<1>6. HandsAreFull'
  <2>1. \A u \in Thread : Hand(u)'
    BY <1>1, <1>2 DEF HandsAreFull, Hand
  <2>2. CachedMayBeShared'
    BY <1>1, <1>2 DEF HandsAreFull, CachedMayBeShared
  <2> QED
    BY <2>1, <2>2 DEF HandsAreFull
<1>7. OneContentPerStamp'
  <2>1. \A i \in DOMAIN bundles' : \E x \in Versions :
          bundles'[i].stamp = x.stamp /\ bundles'[i].content = x.content
    BY <1>2 DEF Versions
  <2> QED
    BY <1>1, <1>2, <1>4, <2>1, VersionsStayApart
<1>8. FilesHeld'
  <2>1. \A u \in Thread : LetsGo(u)'
    BY <1>1, <1>2 DEF FilesHeld, LetsGo
  <2>2. OpenFilesAreHeld'
    BY <1>1, <1>2 DEF FilesHeld, OpenFilesAreHeld, Mine
  <2> QED
    BY <2>1, <2>2 DEF FilesHeld
<1>9. ActsAsTheOperator' /\ AnswersDescribeTheRow'
  BY <1>1, <1>2 DEF ActsAsTheOperator, AnswersDescribeTheRow
<1> QED
  BY <1>3, <1>5, <1>6, <1>7, <1>8, <1>9 DEF ConsoleIInv, ConsoleTypes

\* A replica that is killed leaves its files and nothing else, one that is stopped nothing.
LEMMA DeathsKeepTheInvariant ==
  ASSUME ConsoleIInv, NEW p \in Replica, Crash(p) \/ Stop(p)
  PROVE  ConsoleIInv'
<1>1. /\ ConsoleTypes /\ KeyTypes /\ ThreadTypes /\ KeysAgree /\ HandsAreFull
      /\ OneContentPerStamp /\ FilesHeld /\ [Next]_vars
  BY DEF ConsoleIInv, ConsoleTypes, Next
<1>2. /\ home' = home /\ home \in [Thread -> Replica] /\ cache \in [Replica -> SUBSET Nat]
      /\ pc \in [Thread -> Places] /\ bundles \in Seq(Bundles) /\ DOMAIN bundles \subseteq Nat
  BY <1>1, HomesStay DEF KeyTypes, ThreadTypes
<1>3. Gone(p) /\ OthersIdle(p)
  BY DEF Crash, Stop
<1>4. KeyTypes' /\ KeysAgree'
  BY <1>1, NextKeepsTheKey
<1>5. Restated
  <2>1. CASE Crash(p)
    <3> DEFINE S == {i \in DOMAIN bundles : bundles[i].home = p /\ bundles[i].state = "open"}
    <3>1. bundles' = [i \in DOMAIN bundles |->
                        IF i \in S THEN [bundles[i] EXCEPT !.state = "abandoned"] ELSE bundles[i]]
      BY <2>1 DEF Crash, EndsAs
    <3> HIDE DEF S
    <3> QED
      BY <1>2, <3>1, SomeRestated
  <2>2. CASE Stop(p)
    <3>1. bundles' = [i \in DOMAIN bundles |->
                        IF i \in cache[p] THEN [bundles[i] EXCEPT !.state = "closed"] ELSE bundles[i]]
      BY <2>2 DEF Stop
    <3> QED
      BY <1>2, <3>1, SomeRestated
  <2> QED
    BY <2>1, <2>2
<1>6. \A u \in Thread : u \notin Mine(p) => holds[u] = NULL
  BY <1>1, <1>3 DEF OthersIdle, HandsAreFull, Hand, Building
<1>7. \A u \in Thread : pc'[u] = "idle" /\ holds'[u] = NULL /\ saw'[u] \in {saw[u], NULL}
  BY <1>3, <1>6 DEF Gone, OthersIdle
<1>8. cache' = [cache EXCEPT ![p] = {}]
  BY <1>3 DEF Gone
<1>9. ThreadTypes'
  <2>1. row' = row /\ stamp' = stamp
    BY <1>3 DEF Gone, registry
  <2>2. bundles' \in Seq(Bundles)
    BY <1>5 DEF Restated
  <2>3. cache' \in [Replica -> SUBSET Nat]
    BY <1>2, <1>8
  <2>4. LocalTypes'
    BY <1>1, <1>3 DEF Gone, ThreadTypes, LocalTypes, Places, Identities
  <2> QED
    BY <1>1, <2>1, <2>2, <2>3, <2>4 DEF ThreadTypes, LocalTypes
<1>10. HandsAreFull'
  <2>1. \A u \in Thread : Hand(u)'
    BY <1>7 DEF Hand, WithRow, Building
  <2>2. CachedMayBeShared'
    BY <1>1, <1>2, <1>5, <1>8 DEF HandsAreFull, CachedMayBeShared, Restated, Kept
  <2> QED
    BY <2>1, <2>2 DEF HandsAreFull
<1>11. OneContentPerStamp'
  <2>1. \A i \in DOMAIN bundles' : \E x \in Versions :
          bundles'[i].stamp = x.stamp /\ bundles'[i].content = x.content
    BY <1>5 DEF Versions, Restated, Kept
  <2>2. Renewed
    BY <1>1, NextRenewsTheRow
  <2> QED
    BY <1>1, <1>7, <2>1, <2>2, VersionsStayApart
<1>12. FilesHeld'
  <2>1. \A u \in Thread : LetsGo(u)'
    BY <1>7 DEF LetsGo
  <2>2. ASSUME NEW i \in DOMAIN bundles', bundles'[i].state = "open"
        PROVE  i \in cache'[bundles'[i].home]
    <3>1. /\ i \in DOMAIN bundles /\ bundles[i].state = "open" /\ bundles'[i].home = bundles[i].home
          /\ bundles[i] \in Bundles /\ i \in Nat
      BY <1>2, <1>5, <2>2 DEF Restated, Kept
    <3>2. bundles[i].home \in Replica /\ i # NULL
      BY <3>1, NullAssumption DEF Bundles
    <3>3. \/ i \in cache[bundles[i].home]
          \/ \E u \in Thread : home[u] = bundles[i].home /\ holds[u] = i
      BY <1>1, <3>1 DEF FilesHeld, OpenFilesAreHeld, Mine
    <3>4. CASE bundles[i].home = p
      <4>1. CASE Crash(p)
        <5>1. bundles'[i] = [bundles[i] EXCEPT !.state = "abandoned"]
          BY <3>1, <3>4, <4>1 DEF Crash, EndsAs
        <5> QED
          BY <2>2, <3>1, <5>1 DEF Bundles
      <4>2. CASE Stop(p)
        <5>1. \A u \in Thread : home[u] = p => holds[u] = NULL
          BY <1>1, <4>2 DEF Stop, Mine, HandsAreFull, Hand, Building
        <5>2. i \in cache[p]
          BY <3>2, <3>3, <3>4, <5>1
        <5>3. bundles'[i] = [bundles[i] EXCEPT !.state = "closed"]
          BY <3>1, <4>2, <5>2 DEF Stop
        <5> QED
          BY <2>2, <3>1, <5>3 DEF Bundles
      <4> QED
        BY <4>1, <4>2
    <3>5. CASE bundles[i].home # p
      <4>1. i \in cache[bundles[i].home]
        BY <1>6, <3>2, <3>3, <3>5 DEF Mine
      <4> QED
        BY <1>2, <1>8, <3>1, <3>2, <3>5, <4>1
    <3> QED
      BY <3>4, <3>5
  <2> QED
    BY <2>1, <2>2 DEF FilesHeld, OpenFilesAreHeld
<1>13. answer' = NULL
  BY <1>3 DEF Gone
<1> QED
  BY <1>4, <1>9, <1>10, <1>11, <1>12, <1>13
     DEF ConsoleIInv, ConsoleTypes, ActsAsTheOperator, AnswersDescribeTheRow

LEMMA ConsoleBegins ==
  ASSUME Init
  PROVE  ConsoleIInv
<1>1. KeyInit /\ StartupInit /\ ThreadInit
  BY DEF Init
<1>2. /\ home \in [Thread -> Replica] /\ volume \in {"ok", "readonly", "unreadable"}
      /\ file \in Keys /\ made \in Nat /\ raced = FALSE
      /\ keyPc = [a \in Caller |-> "idle"] /\ fresh = [a \in Caller |-> NULL]
      /\ key = [a \in Caller |-> NULL]
  BY <1>1, HomesAssumption DEF KeyInit, Keys
<1>3. /\ op = [t \in Thread |-> NULL] /\ who = [t \in Thread |-> NULL]
      /\ pc = [t \in Thread |-> "idle"] /\ saw = [t \in Thread |-> NULL]
      /\ acts = [t \in Thread |-> NULL] /\ holds = [t \in Thread |-> NULL] /\ answer = NULL
  BY <1>1 DEF ThreadInit
<1>4. stamp = 1
  BY <1>1 DEF StartupInit
<1>5. row = NULL \/ (Whole /\ row \in Registered)
  BY DEF Init, FromTheStart, Serving
<1>6. \A x \in Registered : /\ x \in Rows /\ x.stamp = 1 /\ x.content = 1 /\ x.key = file
  BY <1>2 DEF Registered, Rows
<1> HIDE DEF Registered
<1> DEFINE Nobody == /\ memo = [q \in Replica |-> NULL] /\ bundles = <<>>
                     /\ cache = [q \in Replica |-> {}]
           One(p, by) == /\ row # NULL /\ by \in Principals
                         /\ memo = [q \in Replica |-> IF q = p THEN file ELSE NULL]
                         /\ bundles = <<Bundle(row, p, TRUE, Identity(by, row), NULL)>>
                         /\ cache = [q \in Replica |-> IF q = p THEN {1} ELSE {}]
<1>7. Nobody \/ \E p \in Replica, by \in Principals : One(p, by)
  <2>1. CASE FromTheStart
    BY <2>1 DEF FromTheStart
  <2>2. CASE Serving
    <3>1. PICK p \in Replica, cached \in IF row = NULL THEN {FALSE} ELSE BOOLEAN,
               by \in {q \in Principals : Qualifies(q)} :
            /\ memo = [q \in Replica |-> IF cached /\ q = p THEN file ELSE NULL]
            /\ bundles = IF cached THEN <<Bundle(row, p, TRUE, Identity(by, row), NULL)>> ELSE <<>>
            /\ cache = [q \in Replica |-> IF cached /\ q = p THEN {1} ELSE {}]
      BY <2>2 DEF Serving
    <3>2. CASE cached
      <4>1. One(p, by)
        BY <3>1, <3>2
      <4> QED
        BY <4>1
    <3>3. CASE ~cached
      BY <3>1, <3>3
    <3> QED
      BY <3>2, <3>3
  <2> QED
    BY <2>1, <2>2 DEF Init
<1>8. /\ memo \in [Replica -> Keys] /\ (\A q \in Replica : memo[q] # NULL => Whole /\ memo[q] = file)
      /\ bundles \in Seq(Bundles) /\ cache \in [Replica -> SUBSET Nat] /\ CachedMayBeShared
      /\ \A i \in DOMAIN bundles :
           /\ bundles[i].stamp = 1 /\ bundles[i].content = 1 /\ i \in cache[bundles[i].home]
  <2>1. CASE Nobody
    BY <1>2, <2>1 DEF CachedMayBeShared, Keys
  <2>2. ASSUME NEW p \in Replica, NEW by \in Principals, One(p, by)
        PROVE  /\ memo \in [Replica -> Keys] /\ (\A q \in Replica : memo[q] # NULL => Whole /\ memo[q] = file)
               /\ bundles \in Seq(Bundles) /\ cache \in [Replica -> SUBSET Nat] /\ CachedMayBeShared
               /\ \A i \in DOMAIN bundles :
                    /\ bundles[i].stamp = 1 /\ bundles[i].content = 1 /\ i \in cache[bundles[i].home]
    <3> DEFINE b == Bundle(row, p, TRUE, Identity(by, row), NULL)
    <3>1. row \in Rows /\ row.stamp = 1 /\ row.content = 1 /\ Whole
      BY <1>5, <1>6, <2>2
    <3>2. b \in Bundles /\ b.stamp = 1 /\ b.content = 1 /\ b.home = p /\ b.impersonatable
      BY <3>1 DEF Bundle, Bundles, Rows, Identity, Identities
    <3> HIDE DEF b
    <3>3. bundles = <<b>> /\ cache = [q \in Replica |-> IF q = p THEN {1} ELSE {}]
      BY <2>2 DEF b
    <3>4. bundles \in Seq(Bundles) /\ DOMAIN bundles = {1} /\ bundles[1] = b
      BY <3>2, <3>3
    <3>5. cache \in [Replica -> SUBSET Nat] /\ CachedMayBeShared
      BY <3>2, <3>3, <3>4 DEF CachedMayBeShared
    <3>6. memo \in [Replica -> Keys] /\ \A q \in Replica : memo[q] # NULL => Whole /\ memo[q] = file
      BY <1>2, <2>2, <3>1 DEF Keys
    <3> QED
      BY <3>2, <3>3, <3>4, <3>5, <3>6
  <2> QED
    BY <1>7, <2>1, <2>2
<1>9. KeyTypes
  BY <1>2, <1>8 DEF KeyTypes, Keys, KeyPlaces
<1>10. ThreadTypes
  BY <1>3, <1>4, <1>5, <1>6, <1>8 DEF ThreadTypes, Places, Identities
<1>11. KeysAgree
  BY <1>2, <1>5, <1>6, <1>8 DEF KeysAgree, Generating
<1>12. HandsAreFull
  BY <1>3, <1>8 DEF HandsAreFull, Hand, WithRow, Building
<1>13. OneContentPerStamp
  <2>1. \A x \in Versions : x.stamp = 1 /\ x.content = 1
    BY <1>3, <1>5, <1>6, <1>8 DEF Versions
  <2> QED
    BY <1>4, <2>1 DEF OneContentPerStamp
<1>14. FilesHeld
  BY <1>3, <1>8 DEF FilesHeld, OpenFilesAreHeld, LetsGo
<1> QED
  BY <1>3, <1>9, <1>10, <1>11, <1>12, <1>13, <1>14
     DEF ConsoleIInv, ConsoleTypes, ActsAsTheOperator, AnswersDescribeTheRow

-----------------------------------------------------------------------------
(* The results. *)

\* Every part of the invariant, whatever is started, asked, changed and killed when.
THEOREM ConsoleInvariantHolds == Spec => []ConsoleIInv
<1>1. ASSUME ConsoleIInv, [Next]_vars PROVE ConsoleIInv'
  <2>1. CASE \E t \in Thread : Begin(t) \/ ThreadStep(t)
    BY <1>1, <2>1, ThreadsKeepTheInvariant
  <2>2. CASE \E p \in Replica : Crash(p) \/ Stop(p)
    BY <1>1, <2>2, DeathsKeepTheInvariant
  <2>3. CASE (\E p \in Replica : Boots(p)) \/ UNCHANGED vars
    <3>1. UNCHANGED <<clients, thread, answer>>
      BY <2>3 DEF Boots, vars
    <3> QED
      BY <1>1, <3>1, StartupsKeepTheInvariant
  <2> QED
    BY <1>1, <2>1, <2>2, <2>3 DEF Next
<1> QED
  BY <1>1, ConsoleBegins, PTL DEF Spec

\* get_fernet: whatever crashes between truncating, writing and keeping the key, a stored
\* credential is encrypted with the key in the file, if no two callers generated at once.
THEOREM StoredCredentialsStayReadable == Spec => []CredentialsStayReadable
<1>1. ConsoleIInv => CredentialsStayReadable
  BY DEF ConsoleIInv, KeysAgree, CredentialsStayReadable
<1> QED
  BY <1>1, ConsoleInvariantHolds, PTL

\* decide, _cache and the headers of a call: the identity of a call is that of the request
\* it is made for, whoever's request built the transport.
THEOREM CallsAreMadeAsTheOperator == Spec => []ActsAsTheOperator
<1>1. ConsoleIInv => ActsAsTheOperator
  BY DEF ConsoleIInv
<1> QED
  BY <1>1, ConsoleInvariantHolds, PTL

\* _cache_key: the transport a request uses was built from the version of the row it read.
THEOREM AnswersComeFromTheRow == Spec => []AnswersDescribeTheRow
<1>1. ConsoleIInv => AnswersDescribeTheRow
  BY DEF ConsoleIInv
<1> QED
  BY <1>1, ConsoleInvariantHolds, PTL

\* ClusterClients.close: no bundle with files on the disk is forgotten, but one that was
\* overwritten by a thread building at the same time, or whose process was killed.
THEOREM FilesAreNeverForgotten == Spec => []FilesAreAccountedFor
<1>1. ConsoleIInv => FilesAreAccountedFor
  <2> SUFFICES ASSUME ConsoleIInv, NEW i \in DOMAIN bundles
               PROVE  bundles[i].state \in {"open", "closed"} \union Leftover
    BY DEF ConsoleIInv, FilesHeld, OpenFilesAreHeld, FilesAreAccountedFor
  <2>1. bundles \in Seq(Bundles)
    BY DEF ConsoleIInv, ConsoleTypes, ThreadTypes
  <2>2. bundles[i] \in Bundles
    BY <2>1
  <2> QED
    BY <2>2 DEF Bundles
<1> QED
  BY <1>1, ConsoleInvariantHolds, PTL
=============================================================================
