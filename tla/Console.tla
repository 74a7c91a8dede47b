------------------------------ MODULE Console -------------------------------
(***************************************************************************)
(* Replicas of the console, from their startup on one database and one key *)
(* file to the requests their threads serve from the cached clients of the *)
(* registered cluster.                                                     *)
(***************************************************************************)
EXTENDS ClientCache

vars == <<keys, startup, registry, clients, thread, ops, answer>>

\* Bound: one operation begins in replicas that are being started, none after a death.
StartupOps == MaxOps - 1

Registered ==
  {[id |-> 1, stamp |-> 1, content |-> 1, key |-> file, origin |-> "manual", impersonate |-> i] :
     i \in BOOLEAN}

FromTheStart ==
  /\ boot = [p \in Replica |-> "down"]
  /\ memo = [p \in Replica |-> NULL]
  /\ row \in {NULL} \union IF Whole /\ tables THEN Registered ELSE {}
  /\ bundles = <<>>
  /\ cache = [p \in Replica |-> {}]
  /\ ops = StartupOps

\* The cluster may be cached already by one replica, which has read the key then; there
\* is none to adopt.
Serving ==
  /\ tables
  /\ columns = {Columns[i] : i \in DOMAIN Columns}
  /\ admins = 1
  /\ kubeconfig = NULL
  /\ boot = [p \in Replica |-> "serving"]
  /\ row \in {NULL} \union IF Whole THEN Registered ELSE {}
  /\ \E p \in Replica, cached \in IF row = NULL THEN {FALSE} ELSE BOOLEAN,
          by \in {q \in Principals : Qualifies(q)} :
       /\ memo = [q \in Replica |-> IF cached /\ q = p THEN file ELSE NULL]
       /\ bundles = IF cached THEN <<Bundle(row, p, TRUE, Identity(by, row), NULL)>> ELSE <<>>
       /\ cache = [q \in Replica |-> IF cached /\ q = p THEN {1} ELSE {}]
  /\ ops = 0

\* The replicas are to be started, or have been; a cluster may have been registered
\* before, with the key of the file.
Init ==
  /\ KeyInit
  /\ StartupInit
  /\ ThreadInit
  /\ FromTheStart \/ Serving

Mine(p) == {t \in Thread : home[t] = p}

\* Bound: a replica dies while the threads of the others are between two requests.
OthersIdle(p) == \A t \in Thread \ Mine(p) : pc[t] = "idle"

\* The process is gone: its memory, its transaction, its threads.
Gone(p) ==
  /\ KeysLost(p)
  /\ Ends(p)
  /\ lock' = IF lock = p THEN NULL ELSE lock
  /\ crashes' = crashes + 1
  /\ cache' = [cache EXCEPT ![p] = {}]
  /\ op' = [t \in Thread |-> IF t \in Mine(p) THEN NULL ELSE op[t]]
  /\ who' = [t \in Thread |-> IF t \in Mine(p) THEN NULL ELSE who[t]]
  /\ pc' = [t \in Thread |-> IF t \in Mine(p) THEN "idle" ELSE pc[t]]
  /\ saw' = [t \in Thread |-> IF t \in Mine(p) THEN NULL ELSE saw[t]]
  /\ acts' = [t \in Thread |-> IF t \in Mine(p) THEN NULL ELSE acts[t]]
  /\ holds' = [t \in Thread |-> IF t \in Mine(p) THEN NULL ELSE holds[t]]
  /\ ops' = MaxOps
  /\ answer' = NULL
  /\ UNCHANGED <<tables, columns, admins, kubeconfig, registry>>

EndsAs(p, state) ==
  bundles' = [i \in DOMAIN bundles |->
    IF bundles[i].home = p /\ bundles[i].state = "open"
    THEN [bundles[i] EXCEPT !.state = state] ELSE bundles[i]]

\* The files of a killed process stay on its disk.
Crash(p) ==
  /\ boot[p] # "down"
  /\ crashes < MaxCrashes
  /\ OthersIdle(p)
  /\ Gone(p)
  /\ EndsAs(p, "abandoned")

\* A shutdown waits for the requests, and resets the cache.
Stop(p) ==
  /\ boot[p] = "serving"
  /\ crashes < MaxCrashes
  /\ OthersIdle(p)
  /\ \A t \in Mine(p) : pc[t] = "idle"
  /\ Gone(p)
  /\ bundles' = [i \in DOMAIN bundles |->
       IF i \in cache[p] THEN [bundles[i] EXCEPT !.state = "closed"] ELSE bundles[i]]

Boots(p) == StartupStep(p) /\ UNCHANGED <<clients, thread, ops, answer>>

Next ==
  \/ \E p \in Replica : Boots(p) \/ Crash(p) \/ Stop(p)
  \/ \E t \in Thread : Begin(t) \/ ThreadStep(t)

Spec == Init /\ [][Next]_vars

\* A replica that is down is started again, and a startup goes on.
FairSpec == Spec /\ \A p \in Replica : WF_vars(Boots(p))

-----------------------------------------------------------------------------
\* A stored credential can be decrypted with the key in the file, whatever crashed
\* and whenever the process was restarted.  Two callers that resolve a missing key
\* at once are the exception, and a volume that takes no file.
CredentialsStayReadable ==
  row # NULL /\ ~raced /\ (volume = "ok" \/ Whole) => row.key = file

\* A cluster that acts as its operator is called as the one who asks, whoever's
\* request built the transport; any other as the console.
ActsAsTheOperator ==
  answer # NULL /\ "as" \in DOMAIN answer => answer.as = answer.expected

\* A request is answered by the cluster its row describes: no transport of an older
\* version of the row is used for it, in any replica.
AnswersDescribeTheRow ==
  answer # NULL /\ "content" \in DOMAIN answer => answer.content = answer.asked

\* Whose files nobody deletes: those of a bundle that another thread overwrote while both
\* were building, of a killed process, and of a build that failed from file to file.
Leftover == {"overwritten", "abandoned", "unfinished"}

\* The files of a decrypted credential are on the disk only as long as a live process
\* caches or uses the transport that reads them: whatever is changed, deleted, tested or
\* stopped meanwhile, only the three kinds above are left.
FilesAreAccountedFor ==
  \A i \in DOMAIN bundles :
    bundles[i].state # "closed" =>
      \/ i \in cache[bundles[i].home] \/ \E t \in Mine(bundles[i].home) : holds[t] = i
      \/ bundles[i].state \in Leftover

\* Whatever the order of their startups, and whichever of them fail over each other's
\* tables, columns and accounts, every replica serves in the end.
EveryReplicaServes == <>[](\A p \in Replica : boot[p] = "serving")
=============================================================================
